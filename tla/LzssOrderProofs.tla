-------------------------- MODULE LzssOrderProofs ---------------------------
(***************************************************************************)
(* The search trees of lzss_encode_better are in order, through insertions *)
(* and deletions: every string in them is found by a search, and a search  *)
(* finds the longest match.                                                *)
(***************************************************************************)
EXTENDS LzssEncoderProofs, FiniteSetTheorems

USE SizeAssumption

-----------------------------------------------------------------------------
(* The order of strings with the same first byte.                          *)

\* The string at x comes before that at y: newInsertNode turns left at y.
Before(x, y) ==
  \E k \in 1 .. F-1 :
    /\ \A j \in 1 .. k-1 : text_buf[x + j] = text_buf[y + j]
    /\ text_buf[x + k] < text_buf[y + k]

\* No byte tells the strings at x and y apart.
Same(x, y) == \A j \in 0 .. F-1 : text_buf[x + j] = text_buf[y + j]

\* One of the bytes 0 .. m does.
Differ(x, y, m) == \E j \in 0..m : text_buf[x + j] # text_buf[y + j]

\* A string has bytes.
LEMMA StringBytes ==
  ASSUME TypeOK, NEW x \in Nodes, NEW j \in 0 .. F-1
  PROVE  text_buf[x + j] \in Int
<1>1. x + j \in Positions
  BY DEF Nodes, Positions
<1>2. text_buf[x + j] \in Byte
  BY <1>1 DEF TypeOK
<1>3. QED
  BY <1>2, ByteSizes DEF Byte

\* The order is one.
LEMMA BeforeStrict ==
  ASSUME TypeOK, NEW x \in Nodes, NEW y \in Nodes
  PROVE  /\ ~ Before(x, x)
         /\ Before(x, y) => ~ Before(y, x)
         /\ \A z \in Nodes : Before(x, y) /\ Before(y, z) => Before(x, z)
<1>1. ASSUME NEW u \in Nodes PROVE ~ Before(u, u)
  BY StringBytes DEF Before
<1>2. ASSUME NEW z \in Nodes, Before(x, y), Before(y, z) PROVE Before(x, z)
  <2>1. PICK k \in 1 .. F-1 :
          /\ \A j \in 1 .. k-1 : text_buf[x + j] = text_buf[y + j]
          /\ text_buf[x + k] < text_buf[y + k]
    BY <1>2 DEF Before
  <2>2. PICK m \in 1 .. F-1 :
          /\ \A j \in 1 .. m-1 : text_buf[y + j] = text_buf[z + j]
          /\ text_buf[y + m] < text_buf[z + m]
    BY <1>2 DEF Before
  <2>3. /\ text_buf[x + k] \in Int /\ text_buf[y + k] \in Int /\ text_buf[z + k] \in Int
        /\ text_buf[x + m] \in Int /\ text_buf[y + m] \in Int /\ text_buf[z + m] \in Int
    BY StringBytes
  <2>4. CASE k <= m
    <3>1. /\ \A j \in 1 .. k-1 : text_buf[x + j] = text_buf[z + j]
          /\ text_buf[x + k] < text_buf[z + k]
      BY <2>1, <2>2, <2>3, <2>4
    <3>2. QED
      BY <3>1 DEF Before
  <2>5. CASE m < k
    <3>1. /\ \A j \in 1 .. m-1 : text_buf[x + j] = text_buf[z + j]
          /\ text_buf[x + m] < text_buf[z + m]
      BY <2>1, <2>2, <2>3, <2>5
    <3>2. QED
      BY <3>1 DEF Before
  <2>6. QED
    BY <2>4, <2>5
<1>3. Before(x, y) => ~ Before(y, x)
  <2>1. SUFFICES ASSUME Before(x, y), Before(y, x) PROVE FALSE
    OBVIOUS
  <2>2. Before(x, x)
    BY <1>2, <2>1
  <2>3. QED
    BY <1>1, <2>2
<1>4. QED
  BY <1>1, <1>2, <1>3

\* What the comparison of two strings tells.
LEMMA CompareTells ==
  ASSUME TypeOK, NEW x \in Nodes, NEW y \in Nodes
  PROVE  /\ FirstDifference(x, y) \in 1..F /\ Compare(x, y) \in Int
         /\ FirstDifference(x, y) = F =>
              \A j \in 1 .. F-1 : text_buf[x + j] = text_buf[y + j]
         /\ FirstDifference(x, y) < F => Compare(x, y) # 0
         /\ Compare(x, y) < 0 <=> Before(x, y)
         /\ Compare(x, y) > 0 <=> Before(y, x)
<1>1. PICK k : k = FirstDifference(x, y)
  OBVIOUS
<1>2. /\ k \in 1..F
      /\ \A j \in 1 .. k-1 : text_buf[x + j] = text_buf[y + j]
      /\ k < F => text_buf[x + k] # text_buf[y + k]
  BY <1>1, DifferenceFound
<1>3. /\ ~ (Before(x, y) /\ Before(y, x))
  BY BeforeStrict
<1>4. CASE k = F
  <2>1. \A j \in 1 .. F-1 : text_buf[x + j] = text_buf[y + j]
    BY <1>2, <1>4
  <2>2. Compare(x, y) = 0
    BY <1>1, <1>4 DEF Compare
  <2>3. ~ Before(x, y) /\ ~ Before(y, x)
    BY <2>1, StringBytes DEF Before
  <2>4. QED
    BY <1>1, <1>2, <1>4, <2>1, <2>2, <2>3
<1>5. CASE k # F
  <2>1. k \in 1 .. F-1
    BY <1>2, <1>5
  <2>2. text_buf[x + k] \in Int /\ text_buf[y + k] \in Int
    BY <2>1, StringBytes
  <2>3. Compare(x, y) = text_buf[x + k] - text_buf[y + k]
    BY <1>1, <1>5 DEF Compare
  <2>4. Compare(x, y) < 0 => Before(x, y)
    BY <1>2, <2>1, <2>2, <2>3 DEF Before
  <2>5. Compare(x, y) > 0 => Before(y, x)
    <3>1. SUFFICES ASSUME Compare(x, y) > 0 PROVE Before(y, x)
      OBVIOUS
    <3>2. text_buf[y + k] < text_buf[x + k]
      BY <2>2, <2>3, <3>1
    <3>3. \A j \in 1 .. k-1 : text_buf[y + j] = text_buf[x + j]
      BY <1>2
    <3>4. QED
      BY <2>1, <3>2, <3>3 DEF Before
  <2>6. Compare(x, y) # 0 /\ Compare(x, y) \in Int
    BY <1>2, <2>1, <2>2, <2>3
  <2>7. QED
    BY <1>1, <1>2, <1>3, <1>5, <2>1, <2>4, <2>5, <2>6
<1>6. QED
  BY <1>4, <1>5

\* A string behind the first difference of two others differs by then.
LEMMA BeyondDiffers ==
  ASSUME TypeOK, NEW n \in Nodes, NEW y \in Nodes, NEW z \in Nodes,
         \/ Before(n, y) /\ Before(y, z)
         \/ Before(z, y) /\ Before(y, n)
  PROVE  Differ(z, n, FirstDifference(n, y))
<1>1. PICK k : k = FirstDifference(n, y)
  OBVIOUS
<1>2. /\ k \in 1..F
      /\ \A j \in 1 .. k-1 : text_buf[n + j] = text_buf[y + j]
      /\ k < F => text_buf[n + k] # text_buf[y + k]
  BY <1>1, DifferenceFound
<1>3. SUFFICES ASSUME \A j \in 0..k : text_buf[z + j] = text_buf[n + j]
               PROVE  FALSE
  BY <1>1 DEF Differ
<1>4. PICK m \in 1 .. F-1 :
        /\ \A j \in 1 .. m-1 : text_buf[z + j] = text_buf[y + j]
        /\ text_buf[z + m] # text_buf[y + m]
        /\ Before(y, z) => text_buf[y + m] < text_buf[z + m]
        /\ Before(z, y) => text_buf[z + m] < text_buf[y + m]
  <2>1. CASE Before(y, z)
    <3>1. PICK m \in 1 .. F-1 :
            /\ \A j \in 1 .. m-1 : text_buf[y + j] = text_buf[z + j]
            /\ text_buf[y + m] < text_buf[z + m]
      BY <2>1 DEF Before
    <3>2. ~ Before(z, y)
      BY <2>1, BeforeStrict
    <3>3. text_buf[y + m] \in Int /\ text_buf[z + m] \in Int
      BY StringBytes
    <3>4. QED
      BY <3>1, <3>2, <3>3
  <2>2. CASE Before(z, y)
    <3>1. PICK m \in 1 .. F-1 :
            /\ \A j \in 1 .. m-1 : text_buf[z + j] = text_buf[y + j]
            /\ text_buf[z + m] < text_buf[y + m]
      BY <2>2 DEF Before
    <3>2. ~ Before(y, z)
      BY <2>2, BeforeStrict
    <3>3. text_buf[y + m] \in Int /\ text_buf[z + m] \in Int
      BY StringBytes
    <3>4. QED
      BY <3>1, <3>2, <3>3
  <2>3. QED
    BY <2>1, <2>2
<1>5. PICK l \in 1 .. F-1 :
        /\ \A j \in 1 .. l-1 : text_buf[n + j] = text_buf[y + j]
        /\ text_buf[n + l] # text_buf[y + l]
        /\ Before(n, y) => text_buf[n + l] < text_buf[y + l]
        /\ Before(y, n) => text_buf[y + l] < text_buf[n + l]
  <2>1. CASE Before(n, y)
    <3>1. PICK l \in 1 .. F-1 :
            /\ \A j \in 1 .. l-1 : text_buf[n + j] = text_buf[y + j]
            /\ text_buf[n + l] < text_buf[y + l]
      BY <2>1 DEF Before
    <3>2. ~ Before(y, n)
      BY <2>1, BeforeStrict
    <3>3. text_buf[y + l] \in Int /\ text_buf[n + l] \in Int
      BY StringBytes
    <3>4. QED
      BY <3>1, <3>2, <3>3
  <2>2. CASE Before(y, n)
    <3>1. PICK l \in 1 .. F-1 :
            /\ \A j \in 1 .. l-1 : text_buf[y + j] = text_buf[n + j]
            /\ text_buf[y + l] < text_buf[n + l]
      BY <2>2 DEF Before
    <3>2. ~ Before(n, y)
      BY <2>2, BeforeStrict
    <3>3. text_buf[y + l] \in Int /\ text_buf[n + l] \in Int
      BY StringBytes
    <3>4. QED
      BY <3>1, <3>2, <3>3
  <2>3. QED
    BY <2>1, <2>2
<1>6. k = l
  BY <1>2, <1>5
<1>7. m = l
  BY <1>3, <1>4, <1>5, <1>6
<1>8. /\ text_buf[z + l] = text_buf[n + l]
      /\ text_buf[z + l] \in Int /\ text_buf[n + l] \in Int /\ text_buf[y + l] \in Int
  BY <1>3, <1>6, StringBytes
<1>9. QED
  BY <1>4, <1>5, <1>7, <1>8

-----------------------------------------------------------------------------
(* Trees in order.  lo[x] and hi[x] are the nodes between which the        *)
(* strings below x lie: the nearest ancestors at which the way to x turns  *)
(* right and left, or NIL.  The bytes of the strings do not change in this *)
(* section; the pointers may.                                              *)

\* The string at z belongs below a, or is a's.
Within(z, a, lo, hi) ==
  /\ lo[a] \in Nodes => Before(lo[a], z)
  /\ hi[a] \in Nodes => Before(z, hi[a])

\* Each node is within its bounds, and those of its children are narrower.
Ordered(lo, hi, ls, rs, d) ==
  /\ \A x \in Nodes : d[x] # NIL =>
       /\ lo[x] \in Nodes => d[lo[x]] # NIL /\ text_buf[lo[x]] = text_buf[x]
       /\ hi[x] \in Nodes => d[hi[x]] # NIL /\ text_buf[hi[x]] = text_buf[x]
       /\ Within(x, x, lo, hi)
       /\ ls[x] # NIL => lo[ls[x]] = lo[x] /\ hi[ls[x]] = x
       /\ rs[x] # NIL => lo[rs[x]] = x /\ hi[rs[x]] = hi[x]
  /\ \A w \in Roots : rs[w] # NIL => lo[rs[w]] = NIL /\ hi[rs[w]] = NIL

\* What belongs below a node belongs below its parent, on the node's side.
LEMMA SideOfParent ==
  ASSUME TypeOK, Linked(lson, rson, dad, Keys),
         NEW lo \in [Nodes -> Links], NEW hi \in [Nodes -> Links],
         Ordered(lo, hi, lson, rson, dad),
         NEW z \in Nodes, NEW a \in Nodes, dad[a] \in Nodes, Within(z, a, lo, hi)
  PROVE  /\ Within(z, dad[a], lo, hi)
         /\ \/ lson[dad[a]] = a /\ Before(z, dad[a])
            \/ rson[dad[a]] = a /\ Before(dad[a], z)
<1>1. PICK w \in Nodes : w = dad[a]
  OBVIOUS
<1>2. /\ dad[a] # NIL /\ dad[w] # NIL /\ a # NIL
      /\ rson[w] = a \/ lson[w] = a
  BY <1>1, LinkKinds DEF Linked, UpLinks, Live
<1>3. /\ Within(w, w, lo, hi)
      /\ lson[w] # NIL => lo[lson[w]] = lo[w] /\ hi[lson[w]] = w
      /\ rson[w] # NIL => lo[rson[w]] = w /\ hi[rson[w]] = hi[w]
  BY <1>2 DEF Ordered
<1>4. \A u \in Nodes : Before(u, w) /\ Before(w, z) => Before(u, z)
  BY BeforeStrict
<1>5. \A u \in Nodes : Before(z, w) /\ Before(w, u) => Before(z, u)
  BY BeforeStrict
<1>6. CASE lson[w] = a
  BY <1>1, <1>2, <1>3, <1>5, <1>6 DEF Within
<1>7. CASE rson[w] = a
  BY <1>1, <1>2, <1>3, <1>4, <1>7 DEF Within
<1>8. QED
  BY <1>1, <1>2, <1>6, <1>7

\* The root a tree hangs from is that of its strings' first byte.
LEMMA TopOfTree ==
  ASSUME TypeOK, Linked(lson, rson, dad, Keys),
         NEW a \in Nodes, dad[a] # NIL, dad[a] \notin Nodes
  PROVE  dad[a] = Root(text_buf[a]) /\ dad[a] \in Roots /\ rson[dad[a]] = a
<1>1. /\ dad[a] \in Roots /\ dad[a] \in RLinks /\ Keys[dad[a]] = Keys[a]
      /\ rson[dad[a]] = a
  BY LinkKinds DEF Linked, UpLinks, Live
<1>2. Keys[dad[a]] = dad[a] - (N + 1) /\ Keys[a] = text_buf[a]
  BY <1>1, LinkKinds DEF Keys
<1>3. dad[a] \in Int
  BY <1>1, ByteSizes DEF RLinks
<1>4. dad[a] = N + 1 + (dad[a] - (N + 1))
  BY <1>3
<1>5. QED
  BY <1>1, <1>2, <1>4 DEF Root

-----------------------------------------------------------------------------
(* Walks down a tree.                                                      *)

\* Where a search for the string at z goes from the node y.
Turn(z, y) ==
  IF y \in {z, NIL} THEN y ELSE IF Compare(z, y) >= 0 THEN rson[y] ELSE lson[y]

\* f lists the first m nodes of a search for the string at z.
Walks(f, z, m) ==
  /\ f[0] = rson[Root(text_buf[z])]
  /\ \A k \in 1..m : f[k] = Turn(z, f[k - 1])

\* There is a walk of any length.
LEMMA WalkExists ==
  ASSUME NEW z \in Nodes, NEW m \in Nat
  PROVE  \E f : f = [k \in 0..m |-> f[k]] /\ Walks(f, z, m)
<1> DEFINE Good(n) == \E f : f = [k \in 0..n |-> f[k]] /\ Walks(f, z, n)
           S == { n \in 0..m : ~ Good(n) }
<1>1. SUFFICES ASSUME S # {} PROVE FALSE
  OBVIOUS
<1>2. PICK n \in S : \A k \in S : n <= k
  <2>1. S \in SUBSET Nat
    OBVIOUS
  <2>2. QED
    BY <1>1, <2>1, LeastNumber
<1>3. n \in 0..m /\ ~ Good(n)
  OBVIOUS
<1>4. CASE n = 0
  <2> DEFINE f == [k \in 0..0 |-> rson[Root(text_buf[z])]]
  <2>1. f = [k \in 0..0 |-> f[k]] /\ Walks(f, z, 0)
    BY DEF Walks
  <2>2. QED
    BY <1>3, <1>4, <2>1
<1>5. CASE n # 0
  <2>1. n - 1 \in 0..m /\ n - 1 \notin S
    BY <1>2, <1>3, <1>5
  <2>2. PICK e : e = [k \in 0..n-1 |-> e[k]] /\ Walks(e, z, n - 1)
    BY <2>1
  <2> DEFINE f == [k \in 0..n |-> IF k = n THEN Turn(z, e[n - 1]) ELSE e[k]]
  <2>3. f = [k \in 0..n |-> f[k]]
    OBVIOUS
  <2>4. f[0] = e[0] /\ \A k \in 1 .. n-1 : f[k] = e[k] /\ f[k - 1] = e[k - 1]
    BY <1>3, <1>5
  <2>5. f[n] = Turn(z, f[n - 1])
    BY <1>3, <1>5
  <2>6. Walks(f, z, n)
    <3> HIDE DEF f
    <3>1. ASSUME NEW k \in 1..n PROVE f[k] = Turn(z, f[k - 1])
      <4>1. CASE k = n
        BY <2>5, <4>1
      <4>2. CASE k # n
        <5>1. k \in 1 .. n-1
          BY <1>3, <3>1, <4>2
        <5>2. e[k] = Turn(z, e[k - 1])
          BY <2>2, <5>1 DEF Walks
        <5>3. QED
          BY <2>4, <5>1, <5>2
      <4>3. QED
        BY <4>1, <4>2
    <3>2. QED
      BY <2>2, <2>4, <3>1 DEF Walks
  <2>7. QED
    BY <1>3, <2>3, <2>6
<1>6. QED
  BY <1>4, <1>5

\* A walk that has come to its end stays there.
LEMMA WalkStays ==
  ASSUME NEW z \in Nodes, NEW m \in Nat, NEW f, Walks(f, z, m),
         NEW j \in 0..m, f[j] \in {z, NIL}, NEW k \in j..m
  PROVE  f[k] = f[j]
<1> DEFINE S == { n \in j..m : f[n] # f[j] }
<1>1. SUFFICES ASSUME S # {} PROVE FALSE
  <2>1. S = {} => k \notin S
    OBVIOUS
  <2>2. QED
    BY <2>1
<1>2. PICK n \in S : \A l \in S : n <= l
  <2>1. S \in SUBSET Nat
    OBVIOUS
  <2>2. QED
    BY <1>1, <2>1, LeastNumber
<1>3. n \in j..m /\ f[n] # f[j]
  OBVIOUS
<1>4. n # j
  BY <1>3
<1>5. n \in 1..m /\ n - 1 \in j..m /\ n - 1 \notin S
  BY <1>2, <1>3, <1>4
<1>6. f[n - 1] = f[j]
  BY <1>5
<1>7. f[n] = Turn(z, f[n - 1])
  BY <1>5 DEF Walks
<1>8. QED
  BY <1>3, <1>6, <1>7 DEF Turn

\* In a tree in order, a search comes by all the nodes it belongs below.
LEMMA WalkPasses ==
  ASSUME TypeOK, Linked(lson, rson, dad, Keys),
         NEW g \in [RLinks -> Nat], Ranked(g, dad),
         NEW lo \in [Nodes -> Links], NEW hi \in [Nodes -> Links],
         Ordered(lo, hi, lson, rson, dad),
         NEW z \in Nodes, NEW m \in Nat, NEW f, Walks(f, z, m),
         NEW a \in Nodes, dad[a] # NIL, Keys[a] = Keys[z],
         Within(z, a, lo, hi), g[a] <= m
  PROVE  \E k \in 0..m : f[k] = a /\ k <= g[a]
<1> DEFINE Missed(b) ==
             /\ dad[b] # NIL /\ Keys[b] = Keys[z] /\ Within(z, b, lo, hi)
             /\ g[b] <= m
             /\ ~ \E k \in 0..m : f[k] = b /\ k <= g[b]
           S == { n \in Nat : \E b \in Nodes : Missed(b) /\ g[b] = n }
<1>1. SUFFICES ASSUME S # {} PROVE FALSE
  <2>1. g[a] \in Nat
    BY LinkKinds
  <2>2. Missed(a) => g[a] \in S
    BY <2>1
  <2>3. QED
    BY <2>2
<1>2. PICK n \in S : \A k \in S : n <= k
  <2>1. S \in SUBSET Nat
    OBVIOUS
  <2>2. QED
    BY <1>1, <2>1, LeastNumber
<1>3. PICK b \in Nodes : Missed(b) /\ g[b] = n
  OBVIOUS
<1>4. \A k \in 0..m : ~ (f[k] = b /\ k <= g[b])
  BY <1>3
<1>5. g[b] \in Nat /\ dad[b] \in RLinks
  BY LinkKinds DEF TypeOK
<1>6. CASE dad[b] \notin Nodes
  <2>1. dad[b] = Root(text_buf[b]) /\ rson[dad[b]] = b
    BY <1>3, <1>6, TopOfTree
  <2>2. text_buf[b] = text_buf[z]
    BY <1>3, LinkKinds DEF Keys
  <2>3. f[0] = b
    BY <2>1, <2>2 DEF Walks
  <2>4. QED
    BY <1>4, <1>5, <2>3
<1>7. CASE dad[b] \in Nodes
  <2>1. PICK d \in Nodes : d = dad[b]
    BY <1>7
  <2>2. /\ Within(z, d, lo, hi)
        /\ \/ lson[d] = b /\ Before(z, d)
           \/ rson[d] = b /\ Before(d, z)
    BY <1>3, <2>1, SideOfParent
  <2>3. dad[d] # NIL /\ Keys[d] = Keys[z] /\ g[d] < g[b]
    BY <1>3, <2>1, LinkKinds DEF Linked, UpLinks, Live, Ranked
  <2>4. g[d] \in Nat /\ g[d] <= m /\ ~ (n <= g[d])
    <3>1. g[d] \in Nat
      BY LinkKinds
    <3>2. QED
      BY <1>3, <1>5, <2>3, <3>1
  <2>5. g[d] \notin S
    BY <1>2, <2>4
  <2>6. ~ Missed(d)
    BY <2>4, <2>5
  <2>7. PICK k \in 0..m : f[k] = d /\ k <= g[d]
    BY <2>2, <2>3, <2>4, <2>6
  <2>8. k + 1 \in 1..m /\ k + 1 \in 0..m /\ k + 1 <= g[b] /\ (k + 1) - 1 = k
    BY <1>3, <1>5, <2>3, <2>4, <2>7
  <2>9. f[k + 1] = Turn(z, d)
    BY <2>7, <2>8 DEF Walks
  <2>10. d # z /\ d # NIL
    BY <2>2, BeforeStrict, LinkKinds
  <2>11. Turn(z, d) = b
    <3>1. Compare(z, d) \in Int
      BY CompareTells
    <3>2. CASE lson[d] = b /\ Before(z, d)
      BY <2>10, <3>1, <3>2, CompareTells DEF Turn
    <3>3. CASE rson[d] = b /\ Before(d, z)
      BY <2>10, <3>1, <3>3, CompareTells DEF Turn
    <3>4. QED
      BY <2>2, <3>2, <3>3
  <2>12. QED
    BY <1>4, <2>8, <2>9, <2>11
<1>8. QED
  BY <1>6, <1>7

\* Where a string of a tree belongs below a node, the node has a child.
LEMMA ChildThere ==
  ASSUME TypeOK, Linked(lson, rson, dad, Keys),
         NEW g \in [RLinks -> Nat], Ranked(g, dad),
         NEW lo \in [Nodes -> Links], NEW hi \in [Nodes -> Links],
         Ordered(lo, hi, lson, rson, dad),
         NEW z \in Nodes, dad[z] # NIL, NEW a \in Nodes, dad[a] # NIL,
         Keys[a] = Keys[z], Within(z, a, lo, hi)
  PROVE  /\ Before(z, a) => lson[a] # NIL
         /\ Before(a, z) => rson[a] # NIL
<1>1. SUFFICES ASSUME Before(z, a) \/ Before(a, z) PROVE Turn(z, a) # NIL
  <2>1. Before(z, a) => Turn(z, a) = lson[a]
    BY LinkKinds, BeforeStrict, CompareTells DEF Turn
  <2>2. Before(a, z) => Turn(z, a) = rson[a]
    BY LinkKinds, BeforeStrict, CompareTells DEF Turn
  <2>3. QED
    BY <2>1, <2>2
<1>2. z # a /\ z # NIL /\ g[z] \in Nat /\ g[a] \in Nat
  BY <1>1, LinkKinds, BeforeStrict
<1>3. PICK m \in Nat : m = g[z] + g[a]
  BY <1>2
<1>4. PICK f : Walks(f, z, m)
  BY WalkExists
<1>5. PICK j \in 0..m : f[j] = a /\ j <= g[a]
  <2>1. g[a] <= m
    BY <1>2, <1>3
  <2>2. QED
    BY <1>4, <2>1, WalkPasses
<1>6. PICK k \in 0..m : f[k] = z
  <2>1. g[z] <= m /\ Within(z, z, lo, hi)
    BY <1>2, <1>3 DEF Ordered
  <2>2. QED
    BY <1>4, <2>1, WalkPasses
<1>7. j < k
  <2>1. SUFFICES ASSUME k <= j PROVE FALSE
    OBVIOUS
  <2>2. j \in k..m
    BY <2>1
  <2>3. f[j] = f[k]
    BY <1>4, <1>6, <2>2, WalkStays
  <2>4. QED
    BY <1>2, <1>5, <1>6, <2>3
<1>8. j + 1 \in 1..m /\ j + 1 \in 0..m /\ k \in j+1 .. m /\ (j + 1) - 1 = j
  BY <1>7
<1>9. f[j + 1] = Turn(z, a)
  BY <1>4, <1>5, <1>8 DEF Walks
<1>10. Turn(z, a) = NIL => f[k] = NIL
  BY <1>4, <1>8, <1>9, WalkStays
<1>11. QED
  BY <1>2, <1>6, <1>10

\* The walk of the property is one.
LEMMA WalkOfWalks ==
  ASSUME NEW x \in Nodes
  PROVE  Walks(WalkOf(x), x, N)
<1> DEFINE Fits(w) ==
             w = [k \in 0..N |->
                    IF k = 0 THEN rson[Root(text_buf[x])]
                    ELSE LET y == w[k - 1]
                         IN  IF y \in {x, NIL} THEN y
                             ELSE IF Compare(x, y) >= 0 THEN rson[y] ELSE lson[y]]
<1>1. WalkOf(x) = CHOOSE w : Fits(w)
  BY DEF WalkOf
<1>2. PICK f : f = [k \in 0..N |-> f[k]] /\ Walks(f, x, N)
  BY WalkExists
<1>3. Fits(f)
  <2>1. ASSUME NEW k \in 0..N
        PROVE  f[k] = IF k = 0 THEN rson[Root(text_buf[x])] ELSE Turn(x, f[k - 1])
    <3>1. Walks(f, x, N)
      BY <1>2
    <3>2. k = 0 \/ k \in 1..N
      OBVIOUS
    <3>3. QED
      BY <3>1, <3>2 DEF Walks
  <2>2. f = [k \in 0..N |->
               IF k = 0 THEN rson[Root(text_buf[x])] ELSE Turn(x, f[k - 1])]
    BY <1>2, <2>1
  <2>3. QED
    BY <2>2, Zenon DEF Turn
<1> HIDE DEF Fits
<1>4. PICK w : w = WalkOf(x)
  OBVIOUS
<1>5. Fits(w)
  BY <1>1, <1>3, <1>4, Zenon
<1>6. Walks(w, x, N)
  <2>1. ASSUME NEW k \in 0..N
        PROVE  w[k] = IF k = 0 THEN rson[Root(text_buf[x])] ELSE Turn(x, w[k - 1])
    BY <1>5, <2>1 DEF Fits, Turn
  <2>2. w[0] = rson[Root(text_buf[x])]
    BY <2>1
  <2>3. ASSUME NEW k \in 1..N PROVE w[k] = Turn(x, w[k - 1])
    BY <2>1
  <2>4. QED
    BY <2>2, <2>3 DEF Walks
<1>7. QED
  BY <1>4, <1>6

\* There are ranks no greater than the number of nodes: the rank of a node is
\* the number of nodes that are not ranked lower.
LEMMA RanksBounded ==
  ASSUME Linked(lson, rson, dad, Keys), NEW h \in [RLinks -> Nat], Ranked(h, dad)
  PROVE  \E g \in [RLinks -> Nat] : Ranked(g, dad) /\ \A w \in RLinks : g[w] <= N
<1> DEFINE Lower(w) == { y \in Nodes : dad[y] # NIL /\ h[y] < h[w] }
           g == [w \in RLinks |-> IF w \in Nodes THEN 1 + Cardinality(Lower(w)) ELSE 0]
<1>1. IsFiniteSet(Nodes) /\ Cardinality(Nodes) = N
  BY FS_Interval DEF Nodes
<1>2. ASSUME NEW w \in Nodes
      PROVE  /\ IsFiniteSet(Lower(w)) /\ Cardinality(Lower(w)) \in Nat
             /\ Cardinality(Lower(w)) < N
  <2>1. h[w] \in Nat
    BY LinkKinds
  <2>2. Lower(w) \in SUBSET Nodes /\ w \notin Lower(w)
    BY <2>1
  <2> HIDE DEF Lower
  <2>3. /\ IsFiniteSet(Lower(w)) /\ Cardinality(Lower(w)) <= N
        /\ N = Cardinality(Lower(w)) => Nodes = Lower(w)
    BY <1>1, <2>2, FS_Subset
  <2>4. Cardinality(Lower(w)) \in Nat
    BY <2>3, FS_CardinalityType
  <2>5. QED
    BY <2>2, <2>3, <2>4
<1>3. /\ \A w \in Nodes : g[w] = 1 + Cardinality(Lower(w))
      /\ \A w \in RLinks : w \notin Nodes => g[w] = 0
  BY LinkKinds
<1>4. g \in [RLinks -> Nat] /\ \A w \in RLinks : g[w] <= N
  <2>1. \A w \in RLinks : g[w] \in Nat /\ g[w] <= N
    <3> HIDE DEF Lower, g
    <3>1. QED
      BY <1>2, <1>3
  <2>2. QED
    BY <2>1
<1>5. ASSUME NEW x \in Nodes, dad[x] # NIL PROVE g[dad[x]] < g[x]
  <2>1. /\ h[dad[x]] < h[x] /\ h[x] \in Nat
        /\ dad[x] \in Roots \/ (dad[x] \in Nodes /\ dad[dad[x]] # NIL)
    BY <1>5, LinkKinds DEF Ranked, Linked, UpLinks, Live
  <2>2. CASE dad[x] \in Roots
    <3>1. g[dad[x]] = 0
      BY <1>3, <2>2, LinkKinds
    <3> HIDE DEF Lower, g
    <3>2. QED
      BY <1>2, <1>3, <3>1
  <2>3. CASE dad[x] \in Nodes /\ dad[dad[x]] # NIL
    <3>1. PICK w \in Nodes : w = dad[x]
      BY <2>3
    <3>2. h[w] \in Nat /\ h[w] < h[x] /\ dad[w] # NIL
      BY <2>1, <2>3, <3>1, LinkKinds
    <3>3. \A y \in Nodes : h[y] \in Nat
      BY LinkKinds
    <3>4. Lower(w) \in SUBSET Lower(x) /\ w \in Lower(x) /\ w \notin Lower(w)
      BY <2>1, <3>2, <3>3
    <3> HIDE DEF Lower, g
    <3>5. /\ Cardinality(Lower(w)) <= Cardinality(Lower(x))
          /\ Cardinality(Lower(x)) = Cardinality(Lower(w)) => Lower(x) = Lower(w)
      BY <1>2, <3>4, FS_Subset
    <3>6. Cardinality(Lower(w)) < Cardinality(Lower(x))
      BY <1>2, <3>4, <3>5
    <3>7. QED
      BY <1>2, <1>3, <3>1, <3>6
  <2>4. QED
    BY <2>1, <2>2, <2>3
<1> HIDE DEF g
<1>6. QED
  BY <1>4, <1>5 DEF Ranked

\* A search for a string that is in a tree in order finds it.
LEMMA SearchFinds ==
  ASSUME TypeOK, Linked(lson, rson, dad, Keys),
         NEW h \in [RLinks -> Nat], Ranked(h, dad),
         NEW lo \in [Nodes -> Links], NEW hi \in [Nodes -> Links],
         Ordered(lo, hi, lson, rson, dad),
         NEW x \in Nodes, dad[x] # NIL
  PROVE  WalkOf(x)[N] = x
<1>1. PICK g \in [RLinks -> Nat] : Ranked(g, dad) /\ \A w \in RLinks : g[w] <= N
  BY RanksBounded
<1>2. PICK f : f = WalkOf(x)
  OBVIOUS
<1>3. Walks(f, x, N) /\ N \in Nat
  BY <1>2, WalkOfWalks
<1>4. g[x] <= N /\ Within(x, x, lo, hi)
  BY <1>1, LinkKinds DEF Ordered
<1>5. PICK k \in 0..N : f[k] = x
  BY <1>1, <1>3, <1>4, WalkPasses
<1>6. N \in k..N
  BY <1>3
<1>7. f[N] = f[k]
  BY <1>3, <1>5, <1>6, WalkStays
<1>8. QED
  BY <1>2, <1>5, <1>7

-----------------------------------------------------------------------------
(* What changes the trees keeps them in order.                             *)

\* Strings with the same bytes are before and behind the same others.
LEMMA SameSides ==
  ASSUME NEW x \in Nodes, NEW y \in Nodes, NEW z \in Nodes,
         \A j \in 1 .. F-1 : text_buf[x + j] = text_buf[y + j]
  PROVE  /\ Before(x, z) => Before(y, z)
         /\ Before(z, x) => Before(z, y)
<1>1. ASSUME Before(x, z) PROVE Before(y, z)
  <2>1. PICK k \in 1 .. F-1 :
          /\ \A j \in 1 .. k-1 : text_buf[x + j] = text_buf[z + j]
          /\ text_buf[x + k] < text_buf[z + k]
    BY <1>1 DEF Before
  <2>2. \A j \in 1 .. k-1 : text_buf[y + j] = text_buf[z + j]
    BY <2>1
  <2>3. text_buf[y + k] < text_buf[z + k]
    BY <2>1
  <2>4. QED
    BY <2>2, <2>3 DEF Before
<1>2. ASSUME Before(z, x) PROVE Before(z, y)
  <2>1. PICK k \in 1 .. F-1 :
          /\ \A j \in 1 .. k-1 : text_buf[z + j] = text_buf[x + j]
          /\ text_buf[z + k] < text_buf[x + k]
    BY <1>2 DEF Before
  <2>2. \A j \in 1 .. k-1 : text_buf[z + j] = text_buf[y + j]
    BY <2>1
  <2>3. text_buf[z + k] < text_buf[y + k]
    BY <2>1
  <2>4. QED
    BY <2>2, <2>3 DEF Before
<1>3. QED
  BY <1>1, <1>2

\* Of two strings that differ behind the first byte, one comes first.
LEMMA DifferSides ==
  ASSUME TypeOK, NEW x \in Nodes, NEW y \in Nodes, NEW m \in 0 .. F-1,
         Differ(x, y, m), text_buf[x] = text_buf[y]
  PROVE  Before(x, y) \/ Before(y, x)
<1>1. PICK j \in 0..m : text_buf[x + j] # text_buf[y + j]
  BY DEF Differ
<1>2. j # 0
  BY <1>1 DEF Nodes
<1>3. j \in 1 .. F-1
  BY <1>2
<1>4. /\ FirstDifference(x, y) \in 1..F /\ Compare(x, y) \in Int
      /\ FirstDifference(x, y) # F
  BY <1>1, <1>3, CompareTells
<1>5. Compare(x, y) # 0
  BY <1>4, CompareTells
<1>6. QED
  BY <1>4, <1>5, CompareTells

\* A tree with a string in it has one at its root.
LEMMA TreeBegins ==
  ASSUME TypeOK, Linked(lson, rson, dad, Keys),
         NEW g \in [RLinks -> Nat], Ranked(g, dad),
         NEW lo \in [Nodes -> Links], NEW hi \in [Nodes -> Links],
         Ordered(lo, hi, lson, rson, dad),
         NEW z \in Nodes, dad[z] # NIL
  PROVE  rson[Root(text_buf[z])] # NIL
<1>1. PICK m \in Nat : m = g[z]
  BY LinkKinds
<1>2. PICK f : Walks(f, z, m)
  BY WalkExists
<1>3. Within(z, z, lo, hi) /\ g[z] <= m
  BY <1>1 DEF Ordered
<1>4. PICK k \in 0..m : f[k] = z
  BY <1>2, <1>3, WalkPasses
<1>5. f[0] = rson[Root(text_buf[z])]
  BY <1>2 DEF Walks
<1>6. f[0] = NIL => f[k] = NIL
  <2>1. 0 \in 0..m /\ k \in 0..m
    BY <1>1
  <2>2. QED
    BY <1>2, <2>1, WalkStays
<1>7. z # NIL
  BY LinkKinds
<1>8. QED
  BY <1>4, <1>5, <1>6, <1>7

\* newInsertNode at an empty link: the bounds of the new leaf.
LEMMA LeafOrder ==
  ASSUME TypeOK, Linked(lson, rson, dad, Keys),
         NEW lo \in [Nodes -> Links], NEW hi \in [Nodes -> Links],
         Ordered(lo, hi, lson, rson, dad),
         NEW n \in Nodes, dad[n] = NIL, lson[n] = NIL, rson[n] = NIL,
         NEW w \in RLinks, Live(w, dad), Keys[w] = Keys[n], LeafAt(n, w),
         w \in Nodes =>
           /\ Within(n, w, lo, hi)
           /\ rson'[w] = n => Before(w, n)
           /\ lson'[w] = n => Before(n, w)
  PROVE  \E lo2 \in [Nodes -> Links], hi2 \in [Nodes -> Links] :
           Ordered(lo2, hi2, lson', rson', dad')
<1> DEFINE above == IF w \in Nodes THEN w ELSE NIL
           l == IF rson'[w] = n THEN above ELSE lo[w]
           u == IF rson'[w] = n THEN (IF w \in Nodes THEN hi[w] ELSE NIL) ELSE w
           lo2 == [lo EXCEPT ![n] = l]
           hi2 == [hi EXCEPT ![n] = u]
<1>0. /\ lson \in [Links -> Links] /\ rson \in [RLinks -> Links]
      /\ dad \in [Links -> RLinks]
      /\ \/ rson[w] = NIL /\ rson' = [rson EXCEPT ![w] = n] /\ lson' = lson
         \/ /\ w \in Nodes /\ lson[w] = NIL
            /\ rson' = rson /\ lson' = [lson EXCEPT ![w] = n]
      /\ dad' = [dad EXCEPT ![n] = w]
  BY LinkKinds DEF TypeOK, LeafAt
<1>1. w # n /\ w # NIL /\ n # NIL /\ (w \in Nodes => dad[w] # NIL)
  BY LinkKinds DEF Live
<1>2. dad'[n] = w /\ \A x \in Nodes : x # n => dad'[x] = dad[x]
  BY <1>0, LinkKinds
<1>3. \A v \in RLinks : Live(v, dad) => rson[v] # n
  BY <1>0, LinkKinds DEF Linked, DownLinks, Live
<1>4. \A v \in Nodes : dad[v] # NIL => lson[v] # n
  BY <1>0, LinkKinds DEF Linked, DownLinks, Live
<1>5. \/ /\ rson[w] = NIL /\ rson'[w] = n /\ lson' = lson
         /\ \A v \in RLinks : v # w => rson'[v] = rson[v]
      \/ /\ w \in Nodes /\ lson[w] = NIL /\ lson'[w] = n /\ rson' = rson
         /\ rson'[w] # n
         /\ \A v \in Nodes : v # w => lson'[v] = lson[v]
  BY <1>0, <1>3, LinkKinds
<1>6. l \in Links /\ u \in Links
  BY <1>5, LinkKinds
<1>7. /\ lo2 \in [Nodes -> Links] /\ hi2 \in [Nodes -> Links]
      /\ lo2[n] = l /\ hi2[n] = u
      /\ \A x \in Nodes : x # n => lo2[x] = lo[x] /\ hi2[x] = hi[x]
  BY <1>6
<1> HIDE DEF lo2, hi2
<1>8. w \in Nodes => text_buf[w] = text_buf[n]
  BY LinkKinds DEF Keys
<1>9. \A x \in Nodes : dad[x] # NIL =>
        /\ lo[x] \in Nodes => dad[lo[x]] # NIL /\ text_buf[lo[x]] = text_buf[x]
        /\ hi[x] \in Nodes => dad[hi[x]] # NIL /\ text_buf[hi[x]] = text_buf[x]
        /\ Within(x, x, lo, hi)
        /\ lson[x] # NIL => lo[lson[x]] = lo[x] /\ hi[lson[x]] = x
        /\ rson[x] # NIL => lo[rson[x]] = x /\ hi[rson[x]] = hi[x]
  BY DEF Ordered
<1>10. \A v \in Roots : rson[v] # NIL => lo[rson[v]] = NIL /\ hi[rson[v]] = NIL
  BY DEF Ordered
<1>11. \A x \in Nodes : dad'[x] # NIL <=> dad[x] # NIL \/ x = n
  BY <1>1, <1>2
<1>12. ASSUME NEW x \in Nodes, dad'[x] # NIL
       PROVE  /\ lo2[x] \in Nodes => dad'[lo2[x]] # NIL /\ text_buf[lo2[x]] = text_buf[x]
              /\ hi2[x] \in Nodes => dad'[hi2[x]] # NIL /\ text_buf[hi2[x]] = text_buf[x]
              /\ Within(x, x, lo2, hi2)
  <2>1. CASE x = n
    <3>1. CASE rson'[w] = n
      BY <1>1, <1>7, <1>8, <1>9, <1>11, <2>1, <3>1, LinkKinds DEF Within
    <3>2. CASE rson'[w] # n
      <4>1. w \in Nodes /\ lson'[w] = n
        BY <1>5, <3>2
      <4>2. QED
        BY <1>1, <1>7, <1>8, <1>9, <1>11, <2>1, <3>2, <4>1, LinkKinds DEF Within
    <3>3. QED
      BY <3>1, <3>2
  <2>2. CASE x # n
    BY <1>7, <1>9, <1>11, <2>2, <1>12 DEF Within
  <2>3. QED
    BY <2>1, <2>2
<1>13. ASSUME NEW x \in Nodes, dad'[x] # NIL
       PROVE  /\ lson'[x] # NIL => lo2[lson'[x]] = lo2[x] /\ hi2[lson'[x]] = x
              /\ rson'[x] # NIL => lo2[rson'[x]] = x /\ hi2[rson'[x]] = hi2[x]
  <2>0. \A v \in Nodes : lson[v] \in Links /\ rson[v] \in Links /\ v \in RLinks
    BY <1>0, LinkKinds
  <2>1. CASE x = n
    <3>1. lson'[n] = NIL /\ rson'[n] = NIL
      BY <1>1, <1>5, LinkKinds
    <3>2. QED
      BY <2>1, <3>1
  <2>2. CASE x # n
    <3>1. dad[x] # NIL /\ Live(x, dad) /\ lson[x] # n /\ rson[x] # n
      BY <1>3, <1>4, <1>11, <1>13, <2>0, <2>2 DEF Live
    <3>2. lson'[x] = lson[x] \/ (x = w /\ lson'[x] = n /\ rson'[w] # n)
      BY <1>5, <2>0
    <3>3. rson'[x] = rson[x] \/ (x = w /\ rson'[w] = n)
      BY <1>5, <2>0
    <3>4. lson'[x] # NIL => lo2[lson'[x]] = lo2[x] /\ hi2[lson'[x]] = x
      BY <1>7, <1>9, <2>0, <2>2, <3>1, <3>2, LinkKinds
    <3>5. rson'[x] # NIL => lo2[rson'[x]] = x /\ hi2[rson'[x]] = hi2[x]
      BY <1>7, <1>9, <2>0, <2>2, <3>1, <3>3, LinkKinds
    <3>6. QED
      BY <3>4, <3>5
  <2>3. QED
    BY <2>1, <2>2
<1>14. ASSUME NEW v \in Roots, rson'[v] # NIL
       PROVE  lo2[rson'[v]] = NIL /\ hi2[rson'[v]] = NIL
  <2>1. v \in RLinks /\ Live(v, dad) /\ rson[v] \in Links /\ rson[v] # n
    BY <1>0, <1>3, LinkKinds DEF Live
  <2>2. rson'[v] = rson[v] \/ (v = w /\ rson'[w] = n /\ w \notin Nodes)
    BY <1>5, <2>1, LinkKinds
  <2>3. QED
    BY <1>7, <1>10, <1>14, <2>1, <2>2, LinkKinds
<1>15. Ordered(lo2, hi2, lson', rson', dad')
  BY <1>12, <1>13, <1>14 DEF Ordered
<1>16. QED
  BY <1>7, <1>15

\* The family of a string in the trees, as Keys sorts them.
LEMMA Kin ==
  ASSUME TypeOK, NEW h \in [RLinks -> Nat],
         Linked(lson, rson, dad, Keys), Ranked(h, dad),
         NEW x \in Nodes, dad[x] # NIL
  PROVE  /\ dad[x] \in RLinks /\ Live(dad[x], dad) /\ dad[x] # x
         /\ h[dad[x]] < h[x]
         /\ rson[dad[x]] # x => dad[x] \in Nodes /\ lson[dad[x]] = x
         /\ \A z \in {lson[x], rson[x]} \ {NIL} :
              z \in Nodes /\ dad[z] = x /\ z # x
         /\ \A z \in Nodes : dad[z] = x => z = lson[x] \/ z = rson[x]
<1> DEFINE key == Keys
<1>1. Linked(lson, rson, dad, key)
  OBVIOUS
<1> HIDE DEF key
<1>2. QED
  BY <1>1, Family

\* The bounds when y takes the place of x: its own, and y as a bound.
Inherits(b, x, y) ==
  [v \in Nodes |-> IF v = y THEN b[x] ELSE IF b[v] = x THEN y ELSE b[v]]

\* newInsertNode at a full match: the new string has the bytes of the old one.
LEMMA ReplaceOrder ==
  ASSUME TypeOK, NEW h \in [RLinks -> Nat],
         Linked(lson, rson, dad, Keys), Ranked(h, dad),
         NEW lo \in [Nodes -> Links], NEW hi \in [Nodes -> Links],
         Ordered(lo, hi, lson, rson, dad),
         NEW n \in Nodes, dad[n] = NIL,
         NEW x \in Nodes, dad[x] # NIL, Same(x, n), Replaces(n, x)
  PROVE  Ordered(Inherits(lo, x, n), Inherits(hi, x, n), lson', rson', dad')
<1> DEFINE lo2 == Inherits(lo, x, n)
           hi2 == Inherits(hi, x, n)
           w == dad[x]
<1>0. /\ lson \in [Links -> Links] /\ rson \in [RLinks -> Links]
      /\ dad \in [Links -> RLinks]
      /\ \A v \in Nodes : lson[v] \in Links /\ rson[v] \in Links /\ v \in RLinks
      /\ \A v \in Nodes : lo[v] \in Links /\ hi[v] \in Links
  BY LinkKinds DEF TypeOK
<1>1. /\ text_buf[x] = text_buf[n] /\ Keys[x] = Keys[n]
      /\ \A j \in 1 .. F-1 : text_buf[x + j] = text_buf[n + j]
  <2>1. \A j \in 0 .. F-1 : text_buf[x + j] = text_buf[n + j]
    BY DEF Same
  <2>2. text_buf[x + 0] = text_buf[n + 0]
    BY <2>1
  <2>3. text_buf[x] = text_buf[n]
    BY <2>2 DEF Nodes
  <2>4. QED
    BY <2>1, <2>3, LinkKinds DEF Keys
<1>2. /\ w \in RLinks /\ Live(w, dad) /\ w # x
      /\ rson[w] # x => w \in Nodes /\ lson[w] = x
      /\ \A y \in {lson[x], rson[x]} \ {NIL} : y \in Nodes /\ dad[y] = x
      /\ n # x /\ x # NIL /\ n # NIL /\ w # NIL
  <2>1. /\ w \in RLinks /\ Live(w, dad) /\ w # x
        /\ rson[w] # x => w \in Nodes /\ lson[w] = x
        /\ \A y \in {lson[x], rson[x]} \ {NIL} : y \in Nodes /\ dad[y] = x
    BY Kin
  <2>2. QED
    BY <2>1, LinkKinds DEF Live
<1>3. \A y \in Nodes :
        dad'[y] = IF y = x THEN NIL ELSE IF y = n THEN w
                  ELSE IF y = lson[x] \/ y = rson[x] THEN n ELSE dad[y]
  BY <1>1, ReplaceIs
<1>4. \A v \in RLinks :
        rson'[v] = IF v = n THEN rson[x]
                   ELSE IF v = w /\ rson[w] = x THEN n ELSE rson[v]
  BY <1>1, ReplaceIs
<1>5. \A v \in Nodes :
        lson'[v] = IF v = n THEN lson[x]
                   ELSE IF v = w /\ rson[w] # x THEN n ELSE lson[v]
  BY <1>1, ReplaceIs
<1>6. /\ \A v \in RLinks : Live(v, dad) /\ rson[v] # NIL => dad[rson[v]] = v
      /\ \A v \in Nodes : Live(v, dad) /\ lson[v] # NIL => dad[lson[v]] = v
      /\ \A v \in Nodes : dad[v] # NIL => Live(v, dad)
      /\ \A v \in Roots : v \in RLinks /\ Live(v, dad) /\ v \notin Nodes /\ rson[v] \in Links
  BY <1>0, LinkKinds DEF Linked, DownLinks, Live
<1>7. /\ lo2[n] = lo[x] /\ hi2[n] = hi[x]
      /\ \A v \in Nodes : v # n =>
           /\ lo2[v] = IF lo[v] = x THEN n ELSE lo[v]
           /\ hi2[v] = IF hi[v] = x THEN n ELSE hi[v]
  BY DEF Inherits
<1> HIDE DEF lo2, hi2, w
<1>8. \A v \in Nodes : dad'[v] # NIL <=> (dad[v] # NIL /\ v # x) \/ v = n
  BY <1>2, <1>3, LinkKinds
<1>9. \A v \in Nodes : dad[v] # NIL =>
        /\ lo[v] \in Nodes => dad[lo[v]] # NIL /\ text_buf[lo[v]] = text_buf[v]
        /\ hi[v] \in Nodes => dad[hi[v]] # NIL /\ text_buf[hi[v]] = text_buf[v]
        /\ Within(v, v, lo, hi)
        /\ lson[v] # NIL => lo[lson[v]] = lo[v] /\ hi[lson[v]] = v
        /\ rson[v] # NIL => lo[rson[v]] = v /\ hi[rson[v]] = hi[v]
  BY DEF Ordered
<1>10. \A v \in Roots : rson[v] # NIL => lo[rson[v]] = NIL /\ hi[rson[v]] = NIL
  BY DEF Ordered
<1>11. lo[x] # x /\ hi[x] # x
  BY <1>9, BeforeStrict DEF Within
<1>12. \A z \in Nodes : (Before(x, z) => Before(n, z)) /\ (Before(z, x) => Before(z, n))
  BY <1>1, SameSides
<1>13. ASSUME NEW v \in Nodes, dad'[v] # NIL
       PROVE  /\ lo2[v] \in Nodes => dad'[lo2[v]] # NIL /\ text_buf[lo2[v]] = text_buf[v]
              /\ hi2[v] \in Nodes => dad'[hi2[v]] # NIL /\ text_buf[hi2[v]] = text_buf[v]
              /\ Within(v, v, lo2, hi2)
  <2>1. CASE v = n
    BY <1>1, <1>7, <1>8, <1>9, <1>11, <1>12, <2>1 DEF Within
  <2>2. CASE v # n
    <3>1. dad[v] # NIL /\ v # x
      BY <1>8, <1>13, <2>2
    <3>2. lo2[v] \in Nodes => dad'[lo2[v]] # NIL /\ text_buf[lo2[v]] = text_buf[v]
      BY <1>1, <1>7, <1>8, <1>9, <2>2, <3>1
    <3>3. hi2[v] \in Nodes => dad'[hi2[v]] # NIL /\ text_buf[hi2[v]] = text_buf[v]
      BY <1>1, <1>7, <1>8, <1>9, <2>2, <3>1
    <3>4. Within(v, v, lo2, hi2)
      BY <1>7, <1>9, <1>12, <2>2, <3>1 DEF Within
    <3>5. QED
      BY <3>2, <3>3, <3>4
  <2>3. QED
    BY <2>1, <2>2
<1>14. ASSUME NEW v \in Nodes, dad'[v] # NIL
       PROVE  /\ lson'[v] # NIL => lo2[lson'[v]] = lo2[v] /\ hi2[lson'[v]] = v
              /\ rson'[v] # NIL => lo2[rson'[v]] = v /\ hi2[rson'[v]] = hi2[v]
  <2>1. CASE v = n
    <3>1. lson'[v] = lson[x] /\ rson'[v] = rson[x]
      BY <1>0, <1>4, <1>5, <2>1
    <3>2. \A y \in {lson[x], rson[x]} \ {NIL} : y \in Nodes /\ y # n
      BY <1>2
    <3>3. QED
      BY <1>7, <1>9, <1>11, <2>1, <3>1, <3>2
  <2>2. CASE v # n
    <3>1. dad[v] # NIL /\ v # x /\ Live(v, dad) /\ lson[v] \in Links /\ rson[v] \in Links
      BY <1>0, <1>6, <1>8, <1>14, <2>2
    <3>2. /\ lson[v] # NIL => lson[v] \in Nodes /\ lson[v] # n
          /\ rson[v] # NIL => rson[v] \in Nodes /\ rson[v] # n
      BY <1>0, <1>6, <3>1, LinkKinds
    <3>3. lson'[v] # NIL => lo2[lson'[v]] = lo2[v] /\ hi2[lson'[v]] = v
      <4>1. CASE v = w /\ rson[w] # x
        BY <1>2, <1>5, <1>7, <1>9, <1>11, <2>2, <3>1, <4>1
      <4>2. CASE ~ (v = w /\ rson[w] # x)
        BY <1>5, <1>7, <1>9, <2>2, <3>1, <3>2, <4>2
      <4>3. QED
        BY <4>1, <4>2
    <3>4. rson'[v] # NIL => lo2[rson'[v]] = v /\ hi2[rson'[v]] = hi2[v]
      <4>1. CASE v = w /\ rson[w] = x
        BY <1>0, <1>2, <1>4, <1>7, <1>9, <1>11, <2>2, <3>1, <4>1
      <4>2. CASE ~ (v = w /\ rson[w] = x)
        BY <1>0, <1>4, <1>7, <1>9, <2>2, <3>1, <3>2, <4>2
      <4>3. QED
        BY <4>1, <4>2
    <3>5. QED
      BY <3>3, <3>4
  <2>3. QED
    BY <2>1, <2>2
<1>15. ASSUME NEW v \in Roots, rson'[v] # NIL
       PROVE  lo2[rson'[v]] = NIL /\ hi2[rson'[v]] = NIL
  <2>1. v # n /\ v \in RLinks /\ (rson[v] # NIL => rson[v] \in Nodes /\ rson[v] # n)
    BY <1>6, LinkKinds
  <2>2. CASE v = w /\ rson[w] = x
    BY <1>2, <1>4, <1>7, <1>10, <2>1, <2>2
  <2>3. CASE ~ (v = w /\ rson[w] = x)
    BY <1>2, <1>4, <1>7, <1>10, <1>15, <2>1, <2>3
  <2>4. QED
    BY <2>2, <2>3
<1>16. Ordered(lo2, hi2, lson', rson', dad')
  BY <1>13, <1>14, <1>15 DEF Ordered
<1>17. QED
  BY <1>16 DEF lo2, hi2

\* The bounds when x leaves the trees: what it bounded, its own bound does.
Leaves(b, x) == [v \in Nodes |-> IF b[v] = x THEN b[x] ELSE b[v]]

\* newDeleteNode of a string with one child or none.
LEMMA NarrowOrder ==
  ASSUME TypeOK, NEW h \in [RLinks -> Nat],
         Linked(lson, rson, dad, Keys), Ranked(h, dad),
         NEW lo \in [Nodes -> Links], NEW hi \in [Nodes -> Links],
         Ordered(lo, hi, lson, rson, dad),
         NEW x \in Nodes, dad[x] # NIL, NEW y,
         (rson[x] = NIL /\ y = lson[x]) \/ (lson[x] = NIL /\ y = rson[x]),
         TakesPlace(x, y, lson, rson, [dad EXCEPT ![y] = dad[x]])
  PROVE  Ordered(Leaves(lo, x), Leaves(hi, x), lson', rson', dad')
<1> DEFINE lo2 == Leaves(lo, x)
           hi2 == Leaves(hi, x)
           w == dad[x]
<1>0. /\ lson \in [Links -> Links] /\ rson \in [RLinks -> Links]
      /\ dad \in [Links -> RLinks]
      /\ \A v \in Nodes : lson[v] \in Links /\ rson[v] \in Links /\ v \in RLinks
      /\ \A v \in Nodes : lo[v] \in Links /\ hi[v] \in Links
  BY LinkKinds DEF TypeOK
<1>2. /\ w \in RLinks /\ Live(w, dad) /\ w # x /\ x # NIL /\ w # NIL
      /\ rson[w] # x => w \in Nodes /\ lson[w] = x
      /\ y # NIL => y \in Nodes /\ dad[y] = x /\ y # x
  <2>1. /\ w \in RLinks /\ Live(w, dad) /\ w # x
        /\ rson[w] # x => w \in Nodes /\ lson[w] = x
        /\ \A z \in {lson[x], rson[x]} \ {NIL} : z \in Nodes /\ dad[z] = x /\ z # x
    BY Kin
  <2>2. QED
    BY <2>1, LinkKinds DEF Live
<1>3. \A z \in Nodes :
        dad'[z] = IF z = x THEN NIL ELSE IF z = y THEN w ELSE dad[z]
  BY NarrowIs
<1>4. \A v \in RLinks :
        rson'[v] = IF v = w /\ rson[w] = x THEN y ELSE rson[v]
  BY NarrowIs
<1>5. \A v \in Nodes :
        lson'[v] = IF v = w /\ rson[w] # x THEN y ELSE lson[v]
  BY NarrowIs
<1>6. /\ \A v \in RLinks : Live(v, dad) /\ rson[v] # NIL => dad[rson[v]] = v
      /\ \A v \in Nodes : Live(v, dad) /\ lson[v] # NIL => dad[lson[v]] = v
      /\ \A v \in Nodes : dad[v] # NIL => Live(v, dad)
      /\ \A v \in Roots : v \in RLinks /\ Live(v, dad) /\ v \notin Nodes /\ rson[v] \in Links
  BY <1>0, LinkKinds DEF Linked, DownLinks, Live
<1>7. \A v \in Nodes :
        /\ lo2[v] = IF lo[v] = x THEN lo[x] ELSE lo[v]
        /\ hi2[v] = IF hi[v] = x THEN hi[x] ELSE hi[v]
  BY DEF Leaves
<1> HIDE DEF lo2, hi2, w
<1>8. \A v \in Nodes : dad'[v] # NIL <=> dad[v] # NIL /\ v # x
  BY <1>2, <1>3, LinkKinds
<1>9. \A v \in Nodes : dad[v] # NIL =>
        /\ lo[v] \in Nodes => dad[lo[v]] # NIL /\ text_buf[lo[v]] = text_buf[v]
        /\ hi[v] \in Nodes => dad[hi[v]] # NIL /\ text_buf[hi[v]] = text_buf[v]
        /\ Within(v, v, lo, hi)
        /\ lson[v] # NIL => lo[lson[v]] = lo[v] /\ hi[lson[v]] = v
        /\ rson[v] # NIL => lo[rson[v]] = v /\ hi[rson[v]] = hi[v]
  BY DEF Ordered
<1>10. \A v \in Roots : rson[v] # NIL => lo[rson[v]] = NIL /\ hi[rson[v]] = NIL
  BY DEF Ordered
<1>11. lo[x] # x /\ hi[x] # x
  BY <1>9, BeforeStrict DEF Within
<1>13. ASSUME NEW v \in Nodes, dad'[v] # NIL
       PROVE  /\ lo2[v] \in Nodes => dad'[lo2[v]] # NIL /\ text_buf[lo2[v]] = text_buf[v]
              /\ hi2[v] \in Nodes => dad'[hi2[v]] # NIL /\ text_buf[hi2[v]] = text_buf[v]
              /\ Within(v, v, lo2, hi2)
  <2>1. dad[v] # NIL /\ v # x
    BY <1>8, <1>13
  <2>2. lo2[v] \in Nodes => dad'[lo2[v]] # NIL /\ text_buf[lo2[v]] = text_buf[v]
    BY <1>7, <1>8, <1>9, <1>11, <2>1
  <2>3. hi2[v] \in Nodes => dad'[hi2[v]] # NIL /\ text_buf[hi2[v]] = text_buf[v]
    BY <1>7, <1>8, <1>9, <1>11, <2>1
  <2>4. lo2[v] \in Nodes => Before(lo2[v], v)
    <3>1. lo[v] = x /\ lo[x] \in Nodes => Before(lo[x], x) /\ Before(x, v)
      BY <1>9, <2>1 DEF Within
    <3>2. lo[v] = x /\ lo[x] \in Nodes => Before(lo[x], v)
      BY <3>1, BeforeStrict
    <3>3. QED
      BY <1>7, <1>9, <2>1, <3>2 DEF Within
  <2>5. hi2[v] \in Nodes => Before(v, hi2[v])
    <3>1. hi[v] = x /\ hi[x] \in Nodes => Before(v, x) /\ Before(x, hi[x])
      BY <1>9, <2>1 DEF Within
    <3>2. hi[v] = x /\ hi[x] \in Nodes => Before(v, hi[x])
      BY <3>1, BeforeStrict
    <3>3. QED
      BY <1>7, <1>9, <2>1, <3>2 DEF Within
  <2>6. QED
    BY <2>2, <2>3, <2>4, <2>5 DEF Within
<1>14. ASSUME NEW v \in Nodes, dad'[v] # NIL
       PROVE  /\ lson'[v] # NIL => lo2[lson'[v]] = lo2[v] /\ hi2[lson'[v]] = v
              /\ rson'[v] # NIL => lo2[rson'[v]] = v /\ hi2[rson'[v]] = hi2[v]
  <2>1. dad[v] # NIL /\ v # x /\ Live(v, dad) /\ lson[v] \in Links /\ rson[v] \in Links
    BY <1>0, <1>6, <1>8, <1>14
  <2>2. /\ lson[v] # NIL => lson[v] \in Nodes
        /\ rson[v] # NIL => rson[v] \in Nodes
    BY <2>1, LinkKinds
  <2>3. y # NIL =>
          /\ y = lson[x] => lo[y] = lo[x] /\ hi[y] = x
          /\ y = rson[x] => lo[y] = x /\ hi[y] = hi[x]
    BY <1>9
  <2>4. y # NIL => lo2[y] = lo[x] /\ hi2[y] = hi[x]
    BY <1>2, <1>7, <1>11, <2>3
  <2>5. lson'[v] # NIL => lo2[lson'[v]] = lo2[v] /\ hi2[lson'[v]] = v
    <3>1. CASE v = w /\ rson[w] # x
      BY <1>2, <1>5, <1>7, <1>9, <1>11, <2>1, <2>4, <3>1
    <3>2. CASE ~ (v = w /\ rson[w] # x)
      BY <1>5, <1>7, <1>9, <2>1, <2>2, <3>2
    <3>3. QED
      BY <3>1, <3>2
  <2>6. rson'[v] # NIL => lo2[rson'[v]] = v /\ hi2[rson'[v]] = hi2[v]
    <3>1. CASE v = w /\ rson[w] = x
      BY <1>0, <1>2, <1>4, <1>7, <1>9, <1>11, <2>1, <2>4, <3>1
    <3>2. CASE ~ (v = w /\ rson[w] = x)
      BY <1>0, <1>4, <1>7, <1>9, <2>1, <2>2, <3>2
    <3>3. QED
      BY <3>1, <3>2
  <2>7. QED
    BY <2>5, <2>6
<1>15. ASSUME NEW v \in Roots, rson'[v] # NIL
       PROVE  lo2[rson'[v]] = NIL /\ hi2[rson'[v]] = NIL
  <2>1. v \in RLinks /\ (rson[v] # NIL => rson[v] \in Nodes)
    BY <1>6, LinkKinds
  <2>2. CASE v = w /\ rson[w] = x
    <3>1. lo[x] = NIL /\ hi[x] = NIL /\ rson'[v] = y
      BY <1>2, <1>4, <1>10, <2>1, <2>2
    <3>2. /\ y = lson[x] => lo[y] = lo[x] /\ hi[y] = x
          /\ y = rson[x] => lo[y] = x /\ hi[y] = hi[x]
      BY <1>9, <1>15, <3>1
    <3>3. QED
      BY <1>2, <1>7, <1>11, <1>15, <3>1, <3>2
  <2>3. CASE ~ (v = w /\ rson[w] = x)
    BY <1>2, <1>4, <1>7, <1>10, <1>15, <2>1, <2>3
  <2>4. QED
    BY <2>2, <2>3
<1>16. Ordered(lo2, hi2, lson', rson', dad')
  BY <1>13, <1>14, <1>15 DEF Ordered
<1>17. QED
  BY <1>16 DEF lo2, hi2

\* The strings in the trees differ, once they have the same first byte.
Distinct ==
  \A x, y \in Nodes :
    dad[x] # NIL /\ dad[y] # NIL /\ x # y /\ text_buf[x] = text_buf[y] =>
      Before(x, y) \/ Before(y, x)

\* The string at the end of the right links, below the left side of x, is the
\* last one before x.
LEMMA PredecessorLast ==
  ASSUME TypeOK, NEW h \in [RLinks -> Nat],
         Linked(lson, rson, dad, Keys), Ranked(h, dad),
         NEW lo \in [Nodes -> Links], NEW hi \in [Nodes -> Links],
         Ordered(lo, hi, lson, rson, dad), Distinct,
         NEW x \in Nodes, dad[x] # NIL,
         NEW y \in Nodes, dad[y] # NIL, hi[y] = x, rson[y] = NIL,
         NEW v \in Nodes, dad[v] # NIL, hi[v] = x, v # y
  PROVE  Before(v, y)
<1>1. /\ text_buf[x] = text_buf[y] /\ text_buf[x] = text_buf[v]
      /\ Before(v, x) /\ Within(y, y, lo, hi)
  BY DEF Ordered, Within
<1>2. SUFFICES ASSUME Before(y, v) PROVE FALSE
  BY <1>1 DEF Distinct
<1>3. Within(v, y, lo, hi)
  <2>1. lo[y] \in Nodes => Before(lo[y], y)
    BY <1>1 DEF Within
  <2>2. lo[y] \in Nodes => Before(lo[y], v)
    BY <1>2, <2>1, BeforeStrict
  <2>3. QED
    BY <1>1, <2>2 DEF Within
<1>4. Keys[y] = Keys[v]
  BY <1>1, LinkKinds DEF Keys
<1>5. Before(y, v) => rson[y] # NIL
  BY <1>3, <1>4, ChildThere
<1>6. QED
  BY <1>2, <1>5

\* The last string before x takes the place of x.
LEMMA MoveOrder ==
  ASSUME TypeOK, NEW h \in [RLinks -> Nat],
         Linked(lson, rson, dad, Keys), Ranked(h, dad),
         NEW lo \in [Nodes -> Links], NEW hi \in [Nodes -> Links],
         Ordered(lo, hi, lson, rson, dad), Distinct,
         NEW x \in Nodes, dad[x] # NIL,
         NEW y \in Nodes, dad[y] # NIL, hi[y] = x, rson[y] = NIL,
         lo[x] \in Nodes => Before(lo[x], y),
         \/ dad[y] = x
         \/ dad[y] \in Nodes /\ rson[dad[y]] = y /\ h[x] < h[dad[y]],
         \A v \in Nodes : dad'[v] # NIL <=> dad[v] # NIL /\ v # x,
         \A v \in RLinks : v # x =>
           rson'[v] = IF v = y THEN rson[x]
                      ELSE IF v = dad[x] /\ rson[dad[x]] = x THEN y
                      ELSE IF v = dad[y] THEN lson[y] ELSE rson[v],
         \A v \in Nodes : v # x =>
           lson'[v] = IF v = y THEN (IF dad[y] = x THEN lson[y] ELSE lson[x])
                      ELSE IF v = dad[x] /\ rson[dad[x]] # x THEN y
                      ELSE lson[v]
  PROVE  Ordered(Inherits(lo, x, y), Inherits(hi, x, y), lson', rson', dad')
<1> DEFINE lo2 == Inherits(lo, x, y)
           hi2 == Inherits(hi, x, y)
           w == dad[x]
           u == dad[y]
<1>0. /\ lson \in [Links -> Links] /\ rson \in [RLinks -> Links]
      /\ dad \in [Links -> RLinks]
      /\ \A v \in Nodes : lson[v] \in Links /\ rson[v] \in Links /\ v \in RLinks
      /\ \A v \in Nodes : lo[v] \in Links /\ hi[v] \in Links
  BY LinkKinds DEF TypeOK
<1>2. /\ w \in RLinks /\ Live(w, dad) /\ w # x /\ x # NIL /\ w # NIL /\ y # NIL
      /\ rson[w] # x => w \in Nodes /\ lson[w] = x
      /\ h[w] < h[x]
  <2>1. /\ w \in RLinks /\ Live(w, dad) /\ w # x /\ h[w] < h[x]
        /\ rson[w] # x => w \in Nodes /\ lson[w] = x
    BY Kin
  <2>2. QED
    BY <2>1, LinkKinds DEF Live
<1>3. u = x \/ (u \in Nodes /\ rson[u] = y /\ h[x] < h[u])
  OBVIOUS
<1>4. \A v \in RLinks : v # x =>
        rson'[v] = IF v = y THEN rson[x]
                   ELSE IF v = w /\ rson[w] = x THEN y
                   ELSE IF v = u THEN lson[y] ELSE rson[v]
  OBVIOUS
<1>5. \A v \in Nodes : v # x =>
        lson'[v] = IF v = y THEN (IF u = x THEN lson[y] ELSE lson[x])
                   ELSE IF v = w /\ rson[w] # x THEN y ELSE lson[v]
  OBVIOUS
<1>6. /\ \A v \in RLinks : Live(v, dad) /\ rson[v] # NIL => dad[rson[v]] = v
      /\ \A v \in Nodes : Live(v, dad) /\ lson[v] # NIL =>
           dad[lson[v]] = v /\ lson[v] # rson[v]
      /\ \A v \in Nodes : dad[v] # NIL => Live(v, dad)
      /\ \A v \in Roots : v \in RLinks /\ Live(v, dad) /\ v \notin Nodes /\ rson[v] \in Links
  BY <1>0, LinkKinds DEF Linked, DownLinks, Live
<1>7. /\ lo2[y] = lo[x] /\ hi2[y] = hi[x]
      /\ \A v \in Nodes : v # y =>
           /\ lo2[v] = IF lo[v] = x THEN y ELSE lo[v]
           /\ hi2[v] = IF hi[v] = x THEN y ELSE hi[v]
  BY DEF Inherits
<1>70. dad[y] = u /\ dad[x] = w
  OBVIOUS
<1>71. y = lson[x] \/ y = rson[x] \/ u # x
  <2>1. \A z \in Nodes : dad[z] = x => z = lson[x] \/ z = rson[x]
    BY Kin
  <2>2. QED
    BY <2>1
<1> HIDE DEF lo2, hi2, w, u
<1>8. \A v \in Nodes : dad'[v] # NIL <=> dad[v] # NIL /\ v # x
  OBVIOUS
<1>9. \A v \in Nodes : dad[v] # NIL =>
        /\ lo[v] \in Nodes => dad[lo[v]] # NIL /\ text_buf[lo[v]] = text_buf[v]
        /\ hi[v] \in Nodes => dad[hi[v]] # NIL /\ text_buf[hi[v]] = text_buf[v]
        /\ Within(v, v, lo, hi)
        /\ lson[v] # NIL => lo[lson[v]] = lo[v] /\ hi[lson[v]] = v
        /\ rson[v] # NIL => lo[rson[v]] = v /\ hi[rson[v]] = hi[v]
  BY DEF Ordered
<1>10. \A v \in Roots : rson[v] # NIL => lo[rson[v]] = NIL /\ hi[rson[v]] = NIL
  BY DEF Ordered
<1>11. lo[x] # x /\ hi[x] # x /\ y # x /\ hi[y] = x /\ Before(y, x)
  BY <1>9, BeforeStrict DEF Within
<1>12. /\ y # rson[x] /\ (u = x => y = lson[x]) /\ text_buf[y] = text_buf[x]
       /\ u # w
  <2>1. h[w] \in Nat /\ h[x] \in Nat /\ (u \in Nodes => h[u] \in Nat)
    BY <1>2, LinkKinds
  <2>2. QED
    BY <1>2, <1>3, <1>9, <1>11, <1>71, <2>1
<1>13. ASSUME NEW v \in Nodes, dad'[v] # NIL
       PROVE  /\ lo2[v] \in Nodes => dad'[lo2[v]] # NIL /\ text_buf[lo2[v]] = text_buf[v]
              /\ hi2[v] \in Nodes => dad'[hi2[v]] # NIL /\ text_buf[hi2[v]] = text_buf[v]
              /\ Within(v, v, lo2, hi2)
  <2>0. dad[v] # NIL /\ v # x
    BY <1>8, <1>13
  <2>1. CASE v = y
    <3>1. lo2[v] \in Nodes => dad'[lo2[v]] # NIL /\ text_buf[lo2[v]] = text_buf[v]
      BY <1>7, <1>8, <1>9, <1>11, <1>12, <2>1
    <3>2. hi2[v] \in Nodes => dad'[hi2[v]] # NIL /\ text_buf[hi2[v]] = text_buf[v]
      BY <1>7, <1>8, <1>9, <1>11, <1>12, <2>1
    <3>3. hi[x] \in Nodes => Before(x, hi[x])
      BY <1>9 DEF Within
    <3>4. hi[x] \in Nodes => Before(y, hi[x])
      BY <1>11, <3>3, BeforeStrict
    <3>5. QED
      BY <1>7, <2>1, <3>1, <3>2, <3>4 DEF Within
  <2>2. CASE v # y
    <3>1. lo2[v] \in Nodes => dad'[lo2[v]] # NIL /\ text_buf[lo2[v]] = text_buf[v]
      BY <1>7, <1>8, <1>9, <1>11, <1>12, <2>0, <2>2
    <3>2. hi2[v] \in Nodes => dad'[hi2[v]] # NIL /\ text_buf[hi2[v]] = text_buf[v]
      BY <1>7, <1>8, <1>9, <1>11, <1>12, <2>0, <2>2
    <3>3. lo2[v] \in Nodes => Before(lo2[v], v)
      <4>1. lo[v] = x => Before(x, v)
        BY <1>9, <2>0 DEF Within
      <4>2. lo[v] = x => Before(y, v)
        BY <1>11, <4>1, BeforeStrict
      <4>3. QED
        BY <1>7, <1>9, <2>0, <2>2, <4>2 DEF Within
    <3>4. hi2[v] \in Nodes => Before(v, hi2[v])
      <4>1. hi[v] = x => Before(v, y)
        BY <2>0, <2>2, PredecessorLast
      <4>2. QED
        BY <1>7, <1>9, <2>0, <2>2, <4>1 DEF Within
    <3>5. QED
      BY <3>1, <3>2, <3>3, <3>4 DEF Within
  <2>3. QED
    BY <2>1, <2>2
<1>14. ASSUME NEW v \in Nodes, dad'[v] # NIL
       PROVE  /\ lson'[v] # NIL => lo2[lson'[v]] = lo2[v] /\ hi2[lson'[v]] = v
              /\ rson'[v] # NIL => lo2[rson'[v]] = v /\ hi2[rson'[v]] = hi2[v]
  <2>1. dad[v] # NIL /\ v # x /\ Live(v, dad) /\ lson[v] \in Links /\ rson[v] \in Links
        /\ v \in RLinks
    BY <1>0, <1>6, <1>8, <1>14
  <2>2. \A z \in Nodes : dad[z] # NIL =>
          /\ lson[z] # NIL => lson[z] \in Nodes /\ dad[lson[z]] = z /\ lson[z] # rson[z]
          /\ rson[z] # NIL => rson[z] \in Nodes /\ dad[rson[z]] = z
    BY <1>0, <1>6, LinkKinds
  <2>3. lson[y] # NIL => lson[y] \in Nodes /\ lson[y] # y
          /\ lo[lson[y]] = lo[y] /\ hi[lson[y]] = y
    BY <1>9, <1>11, <2>2
  <2>4. lson'[v] # NIL => lo2[lson'[v]] = lo2[v] /\ hi2[lson'[v]] = v
    <3>1. CASE v = y /\ u = x
      <4>1. lson'[v] = lson[y] /\ lo[y] = lo[x]
        BY <1>2, <1>5, <1>9, <1>12, <2>1, <3>1
      <4>2. QED
        BY <1>7, <1>11, <2>3, <3>1, <4>1
    <3>2. CASE v = y /\ u # x
      <4>1. lson'[v] = lson[x]
        BY <1>5, <2>1, <3>2
      <4>2. lson[x] # NIL => lson[x] \in Nodes /\ lson[x] # y
              /\ lo[lson[x]] = lo[x] /\ hi[lson[x]] = x
        BY <1>9, <1>70, <2>2, <3>2
      <4>3. QED
        BY <1>7, <1>11, <3>2, <4>1, <4>2
    <3>3. CASE v # y /\ v = w /\ rson[w] # x
      <4>1. lson'[v] = y /\ lson[v] = x
        BY <1>2, <1>5, <2>1, <3>3
      <4>2. lo[x] = lo[v] /\ hi[x] = v
        BY <1>2, <1>9, <2>1, <4>1
      <4>3. QED
        BY <1>7, <1>11, <3>3, <4>1, <4>2
    <3>4. CASE v # y /\ ~ (v = w /\ rson[w] # x)
      <4>1. lson'[v] = lson[v]
        BY <1>5, <2>1, <3>4
      <4>2. lson[v] # NIL => lson[v] # y
        BY <1>2, <1>3, <1>70, <2>1, <2>2
      <4>3. QED
        BY <1>7, <1>9, <2>1, <2>2, <3>4, <4>1, <4>2
    <3>5. QED
      BY <3>1, <3>2, <3>3, <3>4
  <2>5. rson'[v] # NIL => lo2[rson'[v]] = v /\ hi2[rson'[v]] = hi2[v]
    <3>1. CASE v = y
      <4>1. rson'[v] = rson[x]
        BY <1>4, <2>1, <3>1
      <4>2. rson[x] # NIL => rson[x] \in Nodes /\ lo[rson[x]] = x /\ hi[rson[x]] = hi[x]
        BY <1>9, <2>2
      <4>3. QED
        BY <1>7, <1>11, <1>12, <3>1, <4>1, <4>2
    <3>2. CASE v # y /\ v = w /\ rson[w] = x
      <4>1. rson'[v] = y /\ lo[x] = v /\ hi[x] = hi[v]
        BY <1>2, <1>4, <1>9, <2>1, <3>2
      <4>2. QED
        BY <1>7, <1>11, <3>2, <4>1
    <3>3. CASE v # y /\ ~ (v = w /\ rson[w] = x) /\ v = u
      <4>1. rson'[v] = lson[y] /\ rson[v] = y
        BY <1>3, <1>4, <2>1, <3>3
      <4>2. lo[y] = v /\ hi[v] = x
        BY <1>2, <1>9, <1>11, <2>1, <4>1
      <4>3. QED
        BY <1>7, <1>11, <2>1, <2>3, <3>3, <4>1, <4>2
    <3>4. CASE v # y /\ ~ (v = w /\ rson[w] = x) /\ v # u
      <4>1. rson'[v] = rson[v]
        BY <1>4, <2>1, <3>4
      <4>2. rson[v] # NIL => rson[v] # y
        BY <1>70, <2>1, <2>2, <3>4
      <4>3. QED
        BY <1>7, <1>9, <2>1, <2>2, <3>4, <4>1, <4>2
    <3>5. QED
      BY <3>1, <3>2, <3>3, <3>4
  <2>6. QED
    BY <2>4, <2>5
<1>15. ASSUME NEW v \in Roots, rson'[v] # NIL
       PROVE  lo2[rson'[v]] = NIL /\ hi2[rson'[v]] = NIL
  <2>1. /\ v # y /\ v # x /\ v # u /\ v \in RLinks
        /\ rson[v] # NIL => rson[v] \in Nodes /\ dad[rson[v]] = v
    BY <1>3, <1>6, LinkKinds
  <2>2. CASE v = w /\ rson[w] = x
    <3>1. lo[x] = NIL /\ hi[x] = NIL /\ rson'[v] = y
      BY <1>2, <1>4, <1>10, <2>1, <2>2
    <3>2. QED
      BY <1>7, <3>1
  <2>3. CASE ~ (v = w /\ rson[w] = x)
    <3>1. rson'[v] = rson[v]
      BY <1>4, <2>1, <2>3
    <3>2. rson[v] # y /\ rson[v] \in Nodes
      BY <1>15, <1>70, <2>1, <3>1
    <3>3. QED
      BY <1>2, <1>7, <1>10, <1>15, <3>1, <3>2
  <2>4. QED
    BY <2>2, <2>3
<1>16. Ordered(lo2, hi2, lson', rson', dad')
  BY <1>13, <1>14, <1>15 DEF Ordered
<1>17. QED
  BY <1>16 DEF lo2, hi2

-----------------------------------------------------------------------------
(* The invariant.                                                          *)

(***************************************************************************)
(* The node is inserted where it belongs: its string is on the side of p   *)
(* the walk goes to, and every string of a tree that does not belong below *)
(* the child the walk comes to is told apart from the node's by a byte     *)
(* that has been compared.                                                 *)
(***************************************************************************)
Parted(lo, hi) ==
  pc = "insert" =>
    /\ match_length < F
    /\ p \in Nodes =>
         /\ Within(node, p, lo, hi)
         /\ cmp >= 0 => Before(p, node)
         /\ cmp < 0 => Before(node, p)
    /\ \A z \in Nodes : dad[z] # NIL =>
         \/ Child # NIL /\ Within(z, Child, lo, hi)
         \/ Differ(z, node, match_length)

\* Nothing turns left on the walk of DeleteNode: it comes to the last string
\* before s.
Descended(lo, hi) ==
  pc = "descend" => hi[q] = s /\ (lo[s] \in Nodes => Before(lo[s], q))

(***************************************************************************)
(* The trees are in order.  No string is in them twice, or its copies      *)
(* would not be found.                                                     *)
(***************************************************************************)
OrderInv ==
  /\ Distinct
  /\ \E lo \in [Nodes -> Links], hi \in [Nodes -> Links] :
       /\ Ordered(lo, hi, lson, rson, dad)
       /\ Parted(lo, hi)
       /\ Descended(lo, hi)

-----------------------------------------------------------------------------
(* Each action keeps it.                                                   *)

\* While no byte is overwritten, the order of the strings stays.
LEMMA OrderStays ==
  ASSUME text_buf' = text_buf
  PROVE  /\ \A x, y : Before(x, y)' <=> Before(x, y)
         /\ \A x, y, m : Differ(x, y, m)' <=> Differ(x, y, m)
<1>1. ASSUME NEW x, NEW y PROVE Before(x, y)' <=> Before(x, y)
  BY DEF Before
<1>2. ASSUME NEW x, NEW y, NEW m PROVE Differ(x, y, m)' <=> Differ(x, y, m)
  BY DEF Differ
<1>3. QED
  BY <1>1, <1>2

\* An insertion or a deletion is over.
LEMMA OrderSettles ==
  ASSUME text_buf' = text_buf, pc' \notin {"insert", "descend"},
         NEW lo \in [Nodes -> Links], NEW hi \in [Nodes -> Links],
         Ordered(lo, hi, lson', rson', dad'),
         \A x, y \in Nodes :
           dad'[x] # NIL /\ dad'[y] # NIL /\ x # y /\ text_buf[x] = text_buf[y] =>
             Before(x, y) \/ Before(y, x)
  PROVE  OrderInv'
<1>1. \A x, y : Before(x, y)' <=> Before(x, y)
  BY OrderStays
<1>2. Distinct'
  BY <1>1 DEF Distinct, NIL, Nodes
<1>3. Ordered(lo, hi, lson, rson, dad)'
  BY <1>1 DEF Ordered, Within, NIL, Nodes, Roots, Root
<1>4. Parted(lo, hi)' /\ Descended(lo, hi)'
  BY DEF Parted, Descended
<1>5. QED
  BY <1>2, <1>3, <1>4 DEF OrderInv

\* What is known where InsertNode stands.
LEMMA InsertHere ==
  ASSUME ScanInv, TreeInv, pc = "insert"
  PROVE  /\ TypeOK /\ Linked(lson, rson, dad, Keys)
         /\ node \in Nodes /\ p \in RLinks /\ ret \in {"prime", "encode", "shift"}
         /\ dad[node] = NIL /\ lson[node] = NIL /\ rson[node] = NIL
         /\ Live(p, dad) /\ Keys[p] = Keys[node] /\ (p \in Roots => cmp >= 0)
         /\ p \in Nodes \/ p \in Roots
         /\ cmp \in Int /\ match_length \in 0..F
         /\ Child # NIL =>
              /\ Child \in Nodes /\ text_buf[Child] = text_buf[node]
              /\ dad[Child] = p /\ dad[Child] # NIL
<1>1. /\ TypeOK /\ Linked(lson, rson, dad, Keys)
      /\ node \in Nodes /\ p \in RLinks /\ ret \in {"prime", "encode", "shift"}
      /\ dad[node] = NIL /\ lson[node] = NIL /\ rson[node] = NIL
      /\ Live(p, dad) /\ Keys[p] = Keys[node] /\ (p \in Roots => cmp >= 0)
      /\ p \in Nodes \/ p \in Roots
      /\ match_length \in 0..F
  BY DEF ScanInv, TypeOK, TreeInv, Inserting, Live
<1>2. cmp \in Int
  BY <1>1, ByteSizes DEF TypeOK
<1>3. ASSUME Child # NIL
      PROVE  /\ Child \in Nodes /\ text_buf[Child] = text_buf[node]
             /\ dad[Child] = p /\ dad[Child] # NIL
  <2>1. Child \in Nodes /\ text_buf[Child] = text_buf[node]
    BY <1>3, ChildInWindow
  <2>2. dad[Child] = p
    BY <1>1, <1>3 DEF Child, Linked, DownLinks
  <2>3. p # NIL
    BY <1>1, LinkKinds
  <2>4. QED
    BY <2>1, <2>2, <2>3
<1>4. QED
  BY <1>1, <1>2, <1>3

\* The walk of newInsertNode ends at an empty link.
LEMMA OrderLeafStep ==
  ASSUME ScanInv, TreeInv, OrderInv, InsertLeaf
  PROVE  OrderInv'
<1>1. /\ pc = "insert" /\ Child = NIL /\ text_buf' = text_buf
      /\ dad' = [dad EXCEPT ![node] = p] /\ pc' = ret
  BY DEF InsertLeaf, scanVars
<1>2. /\ TypeOK /\ Linked(lson, rson, dad, Keys)
      /\ node \in Nodes /\ p \in RLinks /\ ret \in {"prime", "encode", "shift"}
      /\ dad[node] = NIL /\ lson[node] = NIL /\ rson[node] = NIL
      /\ Live(p, dad) /\ Keys[p] = Keys[node] /\ (p \in Roots => cmp >= 0)
      /\ p \in Nodes \/ p \in Roots
      /\ cmp \in Int /\ match_length \in 0..F
  BY <1>1, InsertHere
<1>3. PICK lo \in [Nodes -> Links], hi \in [Nodes -> Links] :
        Ordered(lo, hi, lson, rson, dad) /\ Parted(lo, hi)
  BY DEF OrderInv
<1>4. /\ match_length < F
      /\ p \in Nodes =>
           /\ Within(node, p, lo, hi)
           /\ cmp >= 0 => Before(p, node)
           /\ cmp < 0 => Before(node, p)
      /\ \A z \in Nodes : dad[z] # NIL => Differ(z, node, match_length)
  BY <1>1, <1>3 DEF Parted
<1>5. LeafAt(node, p)
  <2>1. CASE cmp >= 0
    BY <1>1, <2>1 DEF InsertLeaf, Child, LeafAt
  <2>2. CASE ~ (cmp >= 0)
    BY <1>1, <1>2, <2>2 DEF InsertLeaf, Child, LeafAt
  <2>3. QED
    BY <2>1, <2>2
<1>6. p \in Nodes =>
        /\ rson'[p] = node => Before(p, node)
        /\ lson'[p] = node => Before(node, p)
  <2>1. SUFFICES ASSUME p \in Nodes
                 PROVE  /\ rson'[p] = node => Before(p, node)
                        /\ lson'[p] = node => Before(node, p)
    OBVIOUS
  <2>2. rson[p] # node /\ lson[p] # node
    BY <1>2, <2>1, LinkKinds DEF Linked, DownLinks, Live
  <2>3. CASE cmp >= 0
    BY <1>4, <2>1, <2>2, <2>3 DEF InsertLeaf
  <2>4. CASE ~ (cmp >= 0)
    BY <1>2, <1>4, <2>1, <2>2, <2>4 DEF InsertLeaf
  <2>5. QED
    BY <2>3, <2>4
<1>7. PICK lo2 \in [Nodes -> Links], hi2 \in [Nodes -> Links] :
        Ordered(lo2, hi2, lson', rson', dad')
  BY <1>2, <1>3, <1>4, <1>5, <1>6, LeafOrder
<1>8. ASSUME NEW x \in Nodes, NEW y \in Nodes, dad'[x] # NIL, dad'[y] # NIL,
             x # y, text_buf[x] = text_buf[y]
      PROVE  Before(x, y) \/ Before(y, x)
  <2>1. \A z \in Nodes : dad'[z] # NIL => dad[z] # NIL \/ z = node
    BY <1>1, <1>2, LinkKinds DEF TypeOK
  <2>2. ASSUME NEW z \in Nodes, dad[z] # NIL, text_buf[z] = text_buf[node]
        PROVE  Before(z, node) \/ Before(node, z)
    <3>1. Differ(z, node, match_length) /\ match_length \in 0 .. F-1
      BY <1>2, <1>4, <2>2
    <3>2. QED
      BY <1>2, <2>2, <3>1, DifferSides
  <2>3. CASE x = node \/ y = node
    BY <1>8, <2>1, <2>2, <2>3
  <2>4. CASE x # node /\ y # node
    BY <1>8, <2>1, <2>4 DEF OrderInv, Distinct
  <2>5. QED
    BY <2>3, <2>4
<1>9. pc' \notin {"insert", "descend"}
  BY <1>1, <1>2
<1>10. QED
  BY <1>1, <1>7, <1>8, <1>9, OrderSettles

\* It comes to the same string, which leaves its place to the new one.
LEMMA OrderReplaceStep ==
  ASSUME ScanInv, TreeInv, OrderInv, InsertReplace
  PROVE  OrderInv'
<1>1. /\ pc = "insert" /\ Child # NIL /\ text_buf' = text_buf /\ pc' = ret
      /\ FirstDifference(node, Child) = F /\ Replaces(node, Child)
  BY DEF InsertReplace, scanVars, Replaces
<1>2. PICK x \in Nodes : x = Child
  BY <1>1, InsertHere
<1>3. /\ TypeOK /\ Linked(lson, rson, dad, Keys) /\ node \in Nodes
      /\ ret \in {"prime", "encode", "shift"} /\ dad[node] = NIL
      /\ text_buf[x] = text_buf[node] /\ dad[x] # NIL /\ Keys[x] = Keys[node]
  <2>1. /\ TypeOK /\ Linked(lson, rson, dad, Keys) /\ node \in Nodes
        /\ ret \in {"prime", "encode", "shift"} /\ dad[node] = NIL
        /\ text_buf[x] = text_buf[node] /\ dad[x] # NIL
    BY <1>1, <1>2, InsertHere
  <2>2. QED
    BY <2>1, LinkKinds DEF Keys
<1>4. PICK lo \in [Nodes -> Links], hi \in [Nodes -> Links] :
        Ordered(lo, hi, lson, rson, dad)
  BY DEF OrderInv
<1>5. PICK h \in [RLinks -> Nat] : Ranked(h, dad)
  BY DEF TreeInv, Trees
<1>6. \A j \in 1 .. F-1 : text_buf[x + j] = text_buf[node + j]
  BY <1>1, <1>2, <1>3, CompareTells
<1>7. Same(x, node)
  <2>1. ASSUME NEW j \in 0 .. F-1 PROVE text_buf[x + j] = text_buf[node + j]
    <3>1. CASE j = 0
      <4>1. x + j = x /\ node + j = node
        BY <1>3, <3>1 DEF Nodes
      <4>2. QED
        BY <1>3, <4>1
    <3>2. CASE j # 0
      BY <1>6, <3>2
    <3>3. QED
      BY <3>1, <3>2
  <2>2. QED
    BY <2>1 DEF Same
<1>8. Ordered(Inherits(lo, x, node), Inherits(hi, x, node), lson', rson', dad')
  <2>1. Replaces(node, x)
    BY <1>1, <1>2
  <2>2. QED
    BY <1>3, <1>4, <1>5, <1>7, <2>1, ReplaceOrder
<1>9. /\ Inherits(lo, x, node) \in [Nodes -> Links]
      /\ Inherits(hi, x, node) \in [Nodes -> Links]
  BY <1>3, LinkKinds DEF Inherits
<1>10. \A z \in Nodes : dad'[z] # NIL => (dad[z] # NIL /\ z # x) \/ z = node
  <2>1. Replaces(node, x)
    BY <1>1, <1>2
  <2>2. \A z \in Nodes :
          dad'[z] = IF z = x THEN NIL ELSE IF z = node THEN dad[x]
                    ELSE IF z = lson[x] \/ z = rson[x] THEN node ELSE dad[z]
    BY <1>3, <1>5, <2>1, ReplaceIs
  <2>3. \A z \in {lson[x], rson[x]} \ {NIL} : dad[z] = x /\ x # NIL
    <3>1. \A z \in {lson[x], rson[x]} \ {NIL} : dad[z] = x
      BY <1>3, <1>5, Family
    <3>2. QED
      BY <3>1, LinkKinds
  <2>4. QED
    BY <2>2, <2>3, LinkKinds
<1>11. ASSUME NEW y \in Nodes, NEW z \in Nodes, dad'[y] # NIL, dad'[z] # NIL,
              y # z, text_buf[y] = text_buf[z]
       PROVE  Before(y, z) \/ Before(z, y)
  <2>1. ASSUME NEW v \in Nodes, dad[v] # NIL, v # x, text_buf[v] = text_buf[node]
        PROVE  Before(v, node) \/ Before(node, v)
    <3>1. Before(v, x) \/ Before(x, v)
      BY <1>3, <2>1 DEF OrderInv, Distinct
    <3>2. QED
      BY <1>3, <1>6, <3>1, SameSides
  <2>2. CASE y = node \/ z = node
    BY <1>10, <1>11, <2>1, <2>2
  <2>3. CASE y # node /\ z # node
    BY <1>10, <1>11, <2>3 DEF OrderInv, Distinct
  <2>4. QED
    BY <2>2, <2>3
<1>12. pc' \notin {"insert", "descend"}
  BY <1>1, <1>3
<1>13. QED
  BY <1>1, <1>8, <1>9, <1>11, <1>12, OrderSettles

\* It goes down past a string that differs: what is on the string's other side
\* differs from the node's by the byte this one does.
LEMMA OrderWalkStep ==
  ASSUME ScanInv, TreeInv, OrderInv, InsertWalk
  PROVE  OrderInv'
<1>1. /\ pc = "insert" /\ Child # NIL
      /\ UNCHANGED <<text_buf, lson, rson, dad, node, pc>>
      /\ FirstDifference(node, Child) < F \/ FirstDifference(node, Child) <= match_length
      /\ p' = Child /\ cmp' = Compare(node, Child)
      /\ match_length' = IF FirstDifference(node, Child) > match_length
                           THEN FirstDifference(node, Child) ELSE match_length
  BY DEF InsertWalk, scanVars, treeVars
<1>2. PICK y \in Nodes : y = Child
  BY <1>1, InsertHere
<1>3. /\ TypeOK /\ Linked(lson, rson, dad, Keys) /\ node \in Nodes
      /\ text_buf[y] = text_buf[node] /\ dad[y] = p /\ dad[y] # NIL
      /\ match_length \in 0..F /\ p \in RLinks /\ cmp \in Int
      /\ p \in Nodes \/ p \in Roots
      /\ p \in Roots => cmp >= 0
  BY <1>1, <1>2, InsertHere
<1>4. PICK lo \in [Nodes -> Links], hi \in [Nodes -> Links] :
        Ordered(lo, hi, lson, rson, dad) /\ Parted(lo, hi)
  BY DEF OrderInv
<1>5. PICK h \in [RLinks -> Nat] : Ranked(h, dad)
  BY DEF TreeInv, Trees
<1>6. /\ match_length < F
      /\ p \in Nodes =>
           /\ Within(node, p, lo, hi)
           /\ cmp >= 0 => Before(p, node)
           /\ cmp < 0 => Before(node, p)
      /\ \A z \in Nodes : dad[z] # NIL =>
           Within(z, y, lo, hi) \/ Differ(z, node, match_length)
  BY <1>1, <1>2, <1>4 DEF Parted
<1>7. PICK k \in 1..F : k = FirstDifference(node, y)
  BY <1>3, CompareTells
<1>8. /\ k < F /\ match_length' \in 0 .. F-1 /\ k <= match_length'
      /\ match_length <= match_length'
      /\ p' = y /\ cmp' = Compare(node, y) /\ cmp' \in Int /\ cmp' # 0
      /\ cmp' < 0 <=> Before(node, y)
      /\ cmp' > 0 <=> Before(y, node)
  <2>1. /\ cmp' = Compare(node, y) /\ cmp' \in Int
        /\ cmp' < 0 <=> Before(node, y)
        /\ cmp' > 0 <=> Before(y, node)
        /\ k < F => cmp' # 0
    BY <1>1, <1>2, <1>3, <1>7, CompareTells
  <2>2. k < F
    BY <1>1, <1>2, <1>3, <1>6, <1>7
  <2>3. QED
    BY <1>1, <1>2, <1>3, <1>6, <1>7, <2>1, <2>2
<1>9. Within(node, y, lo, hi)
  <2>1. CASE cmp >= 0
    <3>1. rson[p] = y
      BY <1>2, <2>1 DEF Child
    <3>2. CASE p \in Nodes
      <4>1. dad[p] # NIL /\ y # NIL
        BY <1>3, <3>2, LinkKinds DEF Linked, UpLinks, Live
      <4>2. lo[y] = p /\ hi[y] = hi[p]
        BY <1>4, <3>1, <3>2, <4>1 DEF Ordered
      <4>3. QED
        BY <1>6, <2>1, <3>2, <4>2 DEF Within
    <3>3. CASE p \in Roots
      <4>1. lo[y] = NIL /\ hi[y] = NIL
        BY <1>4, <3>1, <3>3, LinkKinds DEF Ordered
      <4>2. QED
        BY <4>1, LinkKinds DEF Within
    <3>4. QED
      BY <1>3, <3>2, <3>3
  <2>2. CASE ~ (cmp >= 0)
    <3>1. lson[p] = y /\ p \in Nodes
      BY <1>2, <1>3, <2>2 DEF Child
    <3>2. dad[p] # NIL /\ y # NIL
      BY <1>3, <3>1, LinkKinds DEF Linked, UpLinks, Live
    <3>3. lo[y] = lo[p] /\ hi[y] = p
      BY <1>4, <3>1, <3>2 DEF Ordered
    <3>4. QED
      BY <1>3, <1>6, <2>2, <3>1, <3>3 DEF Within
  <2>3. QED
    BY <2>1, <2>2
<1>10. ASSUME NEW z \in Nodes, NEW a \in 0..F, NEW b \in 0..F, a <= b,
              Differ(z, node, a)
       PROVE  Differ(z, node, b)
  BY <1>10 DEF Differ
<1>11. PICK cy : cy = Child'
  OBVIOUS
<1>12. /\ Before(y, node) => cy = rson[y]
       /\ Before(node, y) => cy = lson[y]
       /\ Before(y, node) \/ Before(node, y)
  BY <1>1, <1>8, <1>11 DEF Child
<1>13. ASSUME NEW z \in Nodes, dad[z] # NIL
       PROVE  \/ cy # NIL /\ Within(z, cy, lo, hi)
              \/ Differ(z, node, match_length')
  <2>1. CASE Differ(z, node, match_length)
    BY <1>3, <1>8, <1>10, <2>1
  <2>2. CASE text_buf[z] # text_buf[node]
    <3>1. text_buf[z + 0] # text_buf[node + 0]
      BY <1>3, <2>2 DEF Nodes
    <3>2. Differ(z, node, 0)
      BY <3>1 DEF Differ
    <3>3. QED
      BY <1>8, <1>10, <3>2
  <2>3. CASE z = y
    <3>1. text_buf[y + k] # text_buf[node + k]
      BY <1>7, <1>8, DifferenceFound
    <3>2. Differ(z, node, k)
      BY <2>3, <3>1 DEF Differ
    <3>3. QED
      BY <1>8, <1>10, <3>2
  <2>4. CASE /\ Within(z, y, lo, hi) /\ text_buf[z] = text_buf[node] /\ z # y
    <3>1. Before(z, y) \/ Before(y, z)
      BY <1>3, <1>13, <2>4 DEF OrderInv, Distinct
    <3>2. Keys[y] = Keys[z]
      BY <1>3, <2>4, LinkKinds DEF Keys
    <3>3. /\ Before(z, y) => lson[y] # NIL
          /\ Before(y, z) => rson[y] # NIL
      BY <1>3, <1>4, <1>5, <1>13, <2>4, <3>2, ChildThere
    <3>4. /\ lson[y] # NIL => lo[lson[y]] = lo[y] /\ hi[lson[y]] = y
          /\ rson[y] # NIL => lo[rson[y]] = y /\ hi[rson[y]] = hi[y]
      BY <1>3, <1>4 DEF Ordered
    <3>5. CASE Before(node, y) /\ Before(z, y)
      BY <1>12, <2>4, <3>3, <3>4, <3>5 DEF Within
    <3>6. CASE Before(y, node) /\ Before(y, z)
      BY <1>12, <2>4, <3>3, <3>4, <3>6 DEF Within
    <3>7. CASE (Before(node, y) /\ Before(y, z)) \/ (Before(z, y) /\ Before(y, node))
      <4>1. Differ(z, node, k)
        BY <1>3, <1>7, <3>7, BeyondDiffers
      <4>2. QED
        BY <1>8, <1>10, <4>1
    <3>8. QED
      BY <1>12, <3>1, <3>5, <3>6, <3>7
  <2>5. QED
    BY <1>6, <1>13, <2>1, <2>2, <2>3, <2>4
<1>14. /\ \A u, v : Before(u, v)' <=> Before(u, v)
       /\ \A u, v, m : Differ(u, v, m)' <=> Differ(u, v, m)
  BY <1>1, OrderStays
<1>15. Parted(lo, hi)'
  <2>1. match_length' < F
    BY <1>8
  <2>2. /\ Within(node, y, lo, hi)
        /\ cmp' >= 0 => Before(y, node)
        /\ cmp' < 0 => Before(node, y)
    BY <1>8, <1>9
  <2>3. p' \in Nodes =>
          /\ Within(node, p, lo, hi)'
          /\ cmp' >= 0 => Before(p, node)'
          /\ cmp' < 0 => Before(node, p)'
    BY <1>1, <1>8, <1>14, <2>2 DEF Within
  <2>4. \A z \in Nodes : dad'[z] # NIL =>
          \/ Child' # NIL /\ Within(z, Child, lo, hi)'
          \/ Differ(z, node, match_length)'
    BY <1>1, <1>11, <1>13, <1>14 DEF Within
  <2>5. QED
    BY <2>1, <2>3, <2>4 DEF Parted
<1>16. Ordered(lo, hi, lson, rson, dad)'
  BY <1>1, <1>4, <1>14 DEF Ordered, Within
<1>17. Distinct' /\ Descended(lo, hi)'
  BY <1>1, <1>14 DEF OrderInv, Distinct, Descended
<1>18. QED
  BY <1>15, <1>16, <1>17 DEF OrderInv

\* A deletion takes one string out of the trees.
LEMMA PredecessorLeaves ==
  ASSUME TypeOK, NEW key, NEW h \in [RLinks -> Nat],
         Linked(lson, rson, dad, key), Ranked(h, dad),
         NEW x \in Nodes, dad[x] # NIL, lson[x] # NIL, rson[x] # NIL,
         NEW y \in Nodes, dad[y] \in Nodes, rson[dad[y]] = y, rson[y] = NIL,
         h[x] < h[dad[y]], key[y] = key[x], Succeeds(x, y)
  PROVE  \A z \in Nodes : dad'[z] # NIL <=> dad[z] # NIL /\ z # x
BY PredecessorLinks

\* Each way a deletion goes on or ends keeps the order.
LEMMA OrderDeleteStep ==
  ASSUME ScanInv, TreeInv, OrderInv, DeleteNode
  PROVE  OrderInv'
<1>1. /\ TypeOK /\ Linked(lson, rson, dad, Keys) /\ s \in Nodes
      /\ UNCHANGED <<text_buf, s>>
      /\ pc \in {"delete", "descend"}
  BY DEF ScanInv, TreeInv, TypeOK, DeleteNode, DeleteAbsent, DeleteNarrow,
         DeleteLeft, DeleteDescend, DeletePredecessor, DeleteFrame, scanVars
<1>2. PICK h \in [RLinks -> Nat] :
         Ranked(h, dad) /\ (pc = "descend" => h[s] < h[dad[q]])
  BY DEF TreeInv, Trees
<1>3. PICK lo \in [Nodes -> Links], hi \in [Nodes -> Links] :
        Ordered(lo, hi, lson, rson, dad) /\ Descended(lo, hi)
  BY DEF OrderInv
<1>4. Distinct
  BY DEF OrderInv
\* s is gone from the trees.
<1>5. ASSUME NEW lo2 \in [Nodes -> Links], NEW hi2 \in [Nodes -> Links],
             Ordered(lo2, hi2, lson', rson', dad'), pc' = "advance",
             \A z \in Nodes : dad'[z] # NIL => dad[z] # NIL
      PROVE  OrderInv'
  <2>1. \A x, y \in Nodes :
          dad'[x] # NIL /\ dad'[y] # NIL /\ x # y /\ text_buf[x] = text_buf[y] =>
            Before(x, y) \/ Before(y, x)
    BY <1>4, <1>5 DEF Distinct
  <2>2. pc' \notin {"insert", "descend"} /\ text_buf' = text_buf
    BY <1>1, <1>5
  <2>3. QED
    BY <1>5, <2>1, <2>2, OrderSettles
<1>6. CASE DeleteAbsent
  <2>1. lson' = lson /\ rson' = rson /\ dad' = dad /\ pc' = "advance"
    BY <1>6 DEF DeleteAbsent, treeVars
  <2>2. QED
    BY <1>3, <1>5, <2>1
<1>7. CASE DeleteNarrow
  <2>1. /\ dad[s] # NIL /\ pc' = "advance"
        /\ TakesPlace(s, q', lson, rson, [dad EXCEPT ![q'] = dad[s]])
        /\ (rson[s] = NIL /\ q' = lson[s]) \/ (lson[s] = NIL /\ q' = rson[s])
    BY <1>7 DEF DeleteNarrow, DeleteBy
  <2>2. Ordered(Leaves(lo, s), Leaves(hi, s), lson', rson', dad')
    BY <1>1, <1>2, <1>3, <2>1, NarrowOrder
  <2>3. Leaves(lo, s) \in [Nodes -> Links] /\ Leaves(hi, s) \in [Nodes -> Links]
    BY <1>1 DEF Leaves
  <2>4. \A z \in Nodes : dad'[z] # NIL <=> dad[z] # NIL /\ z # s
    BY <1>1, <1>2, <2>1, NarrowLinks
  <2>5. QED
    BY <1>5, <2>1, <2>2, <2>3, <2>4
\* The node that takes the place of s in the other cases.
<1>8. ASSUME NEW y \in Nodes
      PROVE  /\ Inherits(lo, s, y) \in [Nodes -> Links]
             /\ Inherits(hi, s, y) \in [Nodes -> Links]
  BY <1>1, LinkKinds DEF Inherits
<1>9. CASE DeleteLeft
  <2>1. /\ dad[s] # NIL /\ pc' = "advance" /\ q' = lson[s] /\ q' # NIL
        /\ rson[s] # NIL /\ rson[q'] = NIL
        /\ LeavesTo(s, q')
    BY <1>9 DEF DeleteLeft, DeleteBy, LeavesTo
  <2>2. PICK y \in Nodes : y = q'
    BY <1>1, <2>1, LinkKinds DEF TypeOK
  <2>3. dad[y] = s /\ dad[y] # NIL
    <3>1. dad[y] = s
      BY <1>1, <1>2, <2>1, <2>2, Family
    <3>2. QED
      BY <1>1, <3>1, LinkKinds
  <2>4. lo[y] = lo[s] /\ hi[y] = s /\ (lo[s] \in Nodes => Before(lo[s], y))
    <3>1. lo[y] = lo[s] /\ hi[y] = s
      BY <1>1, <1>3, <2>1, <2>2 DEF Ordered
    <3>2. Within(y, y, lo, hi)
      BY <1>3, <2>3 DEF Ordered
    <3>3. QED
      BY <3>1, <3>2 DEF Within
  <2>5. LeavesTo(s, y) /\ y = lson[s] /\ y # NIL /\ rson[y] = NIL
    BY <2>1, <2>2
  <2>6. \A z \in Nodes : dad'[z] # NIL <=> dad[z] # NIL /\ z # s
    BY <1>1, <1>2, <2>1, <2>5, LeftLinks
  <2>7. /\ \A v \in RLinks :
             rson'[v] = IF v = y THEN rson[s]
                        ELSE IF v = dad[s] /\ rson[dad[s]] = s THEN y
                        ELSE rson[v]
        /\ \A v \in Nodes :
             lson'[v] = IF v = dad[s] /\ rson[dad[s]] # s THEN y ELSE lson[v]
    BY <1>1, <1>2, <2>1, <2>5, LeftIs
  <2>8. \A v \in RLinks : v # s =>
          rson'[v] = IF v = y THEN rson[s]
                     ELSE IF v = dad[s] /\ rson[dad[s]] = s THEN y
                     ELSE IF v = dad[y] THEN lson[y] ELSE rson[v]
    BY <2>3, <2>7
  <2>9. \A v \in Nodes : v # s =>
          lson'[v] = IF v = y THEN (IF dad[y] = s THEN lson[y] ELSE lson[s])
                     ELSE IF v = dad[s] /\ rson[dad[s]] # s THEN y
                     ELSE lson[v]
    <3>1. y # dad[s]
      BY <1>1, <1>2, <2>1, <2>5, Family
    <3>2. QED
      BY <2>3, <2>7, <3>1
  <2>10. Ordered(Inherits(lo, s, y), Inherits(hi, s, y), lson', rson', dad')
    BY <1>1, <1>2, <1>3, <1>4, <2>1, <2>3, <2>4, <2>5, <2>6, <2>8, <2>9, MoveOrder
  <2>11. QED
    BY <1>5, <1>8, <2>1, <2>6, <2>10
<1>10. CASE DeletePredecessor
  <2>1. /\ pc = "descend" /\ pc' = "advance" /\ rson[q] = NIL
        /\ Succeeds(s, q)
    BY <1>10 DEF DeletePredecessor, DeleteBy, Succeeds
  <2>2. /\ dad[s] # NIL /\ lson[s] # NIL /\ rson[s] # NIL
        /\ q \in Nodes /\ dad[q] \in Nodes /\ rson[dad[q]] = q
        /\ Keys[q] = Keys[s] /\ h[s] < h[dad[q]]
    BY <1>2, <2>1 DEF TreeInv, Descending
  <2>3. hi[q] = s /\ (lo[s] \in Nodes => Before(lo[s], q))
    BY <1>3, <2>1 DEF Descended
  <2>4. dad[q] # NIL /\ dad[q] # s
    <3>1. h[s] \in Nat
      BY <1>1, LinkKinds
    <3>2. QED
      BY <2>2, <3>1, LinkKinds
  <2>5. \A z \in Nodes : dad'[z] # NIL <=> dad[z] # NIL /\ z # s
    BY <1>1, <1>2, <2>1, <2>2, PredecessorLeaves
  <2>6. /\ \A v \in RLinks :
             rson'[v] = IF v = q THEN rson[s]
                        ELSE IF v = dad[s] /\ rson[dad[s]] = s THEN q
                        ELSE IF v = dad[q] THEN lson[q] ELSE rson[v]
        /\ \A v \in Nodes :
             lson'[v] = IF v = q THEN lson[s]
                        ELSE IF v = dad[s] /\ rson[dad[s]] # s THEN q
                        ELSE lson[v]
    BY <1>1, <1>2, <2>1, <2>2, PredecessorIs
  <2>7. \A v \in Nodes : v # s =>
          lson'[v] = IF v = q THEN (IF dad[q] = s THEN lson[q] ELSE lson[s])
                     ELSE IF v = dad[s] /\ rson[dad[s]] # s THEN q
                     ELSE lson[v]
    BY <2>4, <2>6
  <2>8. Ordered(Inherits(lo, s, q), Inherits(hi, s, q), lson', rson', dad')
    BY <1>1, <1>2, <1>3, <1>4, <2>1, <2>2, <2>3, <2>4, <2>5, <2>6, <2>7, MoveOrder
  <2>9. QED
    BY <1>5, <1>8, <2>1, <2>2, <2>5, <2>8
<1>11. CASE DeleteDescend
  <2>1. UNCHANGED <<lson, rson, dad>> /\ pc' = "descend"
    BY <1>11 DEF DeleteDescend, treeVars
  <2>2. PICK u \in Nodes :
          /\ dad[s] # NIL /\ dad[u] # NIL /\ hi[u] = s
          /\ lo[s] \in Nodes => Before(lo[s], u)
          /\ q' = rson[u] /\ q' # NIL
    <3>1. CASE pc = "delete"
      <4>1. /\ dad[s] # NIL /\ rson[s] # NIL /\ lson[s] # NIL
            /\ rson[lson[s]] # NIL /\ q' = rson[lson[s]]
        BY <1>11, <3>1 DEF DeleteDescend
      <4>2. lson[s] \in Nodes /\ dad[lson[s]] = s /\ s # NIL
        <5>1. lson[s] \in Nodes /\ dad[lson[s]] = s
          BY <1>1, <1>2, <4>1, Family
        <5>2. QED
          BY <1>1, <5>1, LinkKinds
      <4>3. lo[lson[s]] = lo[s] /\ hi[lson[s]] = s
        BY <1>1, <1>3, <4>1 DEF Ordered
      <4>4. Within(lson[s], lson[s], lo, hi)
        BY <1>3, <4>2 DEF Ordered
      <4>5. lo[s] \in Nodes => Before(lo[s], lson[s])
        BY <4>3, <4>4 DEF Within
      <4>6. QED
        BY <4>1, <4>2, <4>3, <4>5
    <3>2. CASE pc = "descend"
      <4>1. rson[q] # NIL /\ q' = rson[q]
        BY <1>11, <3>2 DEF DeleteDescend
      <4>2. dad[s] # NIL /\ q \in Nodes /\ dad[q] \in Nodes
        BY <3>2 DEF TreeInv, Descending
      <4>3. dad[q] # NIL
        BY <4>2, LinkKinds
      <4>4. QED
        BY <1>3, <3>2, <4>1, <4>2, <4>3 DEF Descended
    <3>3. QED
      BY <1>1, <3>1, <3>2
  <2>3. PICK y \in Nodes : y = q'
    BY <1>1, <2>2, LinkKinds DEF TypeOK
  <2>4. dad[y] # NIL /\ lo[y] = u /\ hi[y] = hi[u]
    <3>1. dad[y] = u /\ u # NIL
      BY <1>1, <2>2, <2>3, LinkKinds DEF Linked, DownLinks, Live
    <3>2. QED
      BY <1>3, <2>2, <2>3, <3>1 DEF Ordered
  <2>5. lo[s] \in Nodes => Before(lo[s], y)
    <3>1. Within(y, y, lo, hi)
      BY <1>3, <2>4 DEF Ordered
    <3>2. Before(u, y)
      BY <2>4, <3>1 DEF Within
    <3>3. QED
      BY <1>1, <2>2, <3>2, BeforeStrict
  <2>6. \A x, y2 : Before(x, y2)' <=> Before(x, y2)
    BY <1>1, OrderStays
  <2>7. Descended(lo, hi)'
    BY <1>1, <2>2, <2>3, <2>4, <2>5, <2>6 DEF Descended
  <2>8. Ordered(lo, hi, lson, rson, dad)' /\ Distinct' /\ Parted(lo, hi)'
    BY <1>1, <1>3, <1>4, <2>1, <2>6 DEF Ordered, Within, Distinct, Parted
  <2>9. QED
    BY <2>7, <2>8 DEF OrderInv
<1>12. QED
  BY <1>6, <1>7, <1>9, <1>10, <1>11 DEF DeleteNode

\* A call of newInsertNode that is begun: the strings of other trees differ in
\* the first byte, and those of its own tree all belong below the root.
LEMMA OrderCallStep ==
  ASSUME ScanInv, TreeInv, OrderInv, TypeOK',
         NEW x \in Nodes, NEW back, dad[x] = NIL, dad' = dad,
         CallInsert(x, text_buf', back),
         \A y \in Nodes : dad[y] # NIL => text_buf'[y] = text_buf[y],
         \A y, z \in Nodes :
           dad[y] # NIL /\ dad[z] # NIL => (Before(y, z)' <=> Before(y, z))
  PROVE  OrderInv'
<1>1. /\ TypeOK /\ Linked(lson, rson, dad, Keys) /\ Distinct
      /\ rson \in [RLinks -> Links] /\ lson \in [Links -> Links]
  BY DEF ScanInv, TreeInv, OrderInv, TypeOK
<1>2. PICK h \in [RLinks -> Nat] : Ranked(h, dad)
  BY DEF TreeInv, Trees
<1>3. PICK lo \in [Nodes -> Links], hi \in [Nodes -> Links] :
        Ordered(lo, hi, lson, rson, dad)
  BY DEF OrderInv
<1>4. text_buf'[x] \in Byte
  <2>1. text_buf' \in [Positions -> Byte]
    BY DEF TypeOK
  <2>2. x \in Positions
    BY DEF Positions, Nodes
  <2>3. QED
    BY <2>1, <2>2
<1>5. /\ pc' = "insert" /\ node' = x /\ p' = Root(text_buf'[x]) /\ cmp' = 1
      /\ match_length' = 0
      /\ rson' = [rson EXCEPT ![x] = NIL] /\ lson' = [lson EXCEPT ![x] = NIL]
  BY DEF CallInsert
<1>6. p' \in Roots /\ p' \in RLinks /\ p' \notin Nodes /\ p' # x
  <2>1. p' \in Roots
    BY <1>4, <1>5 DEF Roots
  <2>2. QED
    BY <2>1, LinkKinds
<1>7. /\ \A v \in RLinks : v # x => rson'[v] = rson[v]
      /\ \A v \in Nodes : v # x => lson'[v] = lson[v]
  BY <1>1, <1>5, LinkKinds
<1>8. Ordered(lo, hi, lson, rson, dad)'
  <2>1. ASSUME NEW y \in Nodes, dad[y] # NIL
        PROVE  /\ lo[y] \in Nodes =>
                    dad[lo[y]] # NIL /\ text_buf'[lo[y]] = text_buf'[y]
               /\ hi[y] \in Nodes =>
                    dad[hi[y]] # NIL /\ text_buf'[hi[y]] = text_buf'[y]
               /\ Within(y, y, lo, hi)'
               /\ lson'[y] # NIL => lo[lson'[y]] = lo[y] /\ hi[lson'[y]] = y
               /\ rson'[y] # NIL => lo[rson'[y]] = y /\ hi[rson'[y]] = hi[y]
    <3>1. y # x /\ y \in RLinks
      BY <2>1, LinkKinds
    <3>2. lson'[y] = lson[y] /\ rson'[y] = rson[y]
      BY <1>7, <3>1
    <3>3. /\ lo[y] \in Nodes => dad[lo[y]] # NIL /\ text_buf[lo[y]] = text_buf[y]
          /\ hi[y] \in Nodes => dad[hi[y]] # NIL /\ text_buf[hi[y]] = text_buf[y]
          /\ Within(y, y, lo, hi)
          /\ lson[y] # NIL => lo[lson[y]] = lo[y] /\ hi[lson[y]] = y
          /\ rson[y] # NIL => lo[rson[y]] = y /\ hi[rson[y]] = hi[y]
      BY <1>3, <2>1 DEF Ordered
    <3>4. Within(y, y, lo, hi)'
      BY <2>1, <3>3 DEF Within, Nodes
    <3>5. QED
      BY <2>1, <3>2, <3>3, <3>4
  <2>2. ASSUME NEW w \in Roots
        PROVE  rson'[w] # NIL => lo[rson'[w]] = NIL /\ hi[rson'[w]] = NIL
    <3>1. rson'[w] = rson[w]
      BY <1>7, LinkKinds
    <3>2. QED
      BY <1>3, <3>1 DEF Ordered
  <2>3. QED
    BY <2>1, <2>2 DEF Ordered, NIL, Nodes, Roots, Root
<1>9. PICK y : y = rson[Root(text_buf'[x])]
  OBVIOUS
<1>10. Child' = y
  <2>1. Child' = rson'[p']
    BY <1>5 DEF Child
  <2>2. QED
    BY <1>5, <1>6, <1>7, <1>9, <2>1
<1>11. ASSUME NEW z \in Nodes, dad[z] # NIL, text_buf'[z] = text_buf'[x]
       PROVE  y # NIL /\ Within(z, y, lo, hi)'
  <2>1. text_buf[z] = text_buf'[x]
    BY <1>11
  <2>2. y # NIL
    BY <1>1, <1>2, <1>3, <1>9, <1>11, <2>1, TreeBegins
  <2>3. lo[y] = NIL /\ hi[y] = NIL
    BY <1>3, <1>5, <1>6, <1>9, <2>2 DEF Ordered
  <2>4. lo[y] \notin Nodes /\ hi[y] \notin Nodes
    BY <2>3, LinkKinds
  <2>5. QED
    BY <2>2, <2>4 DEF Within, Nodes
<1>12. ASSUME NEW z \in Nodes, text_buf'[z] # text_buf'[x]
       PROVE  Differ(z, node, match_length)'
  <2>1. text_buf'[z + 0] # text_buf'[x + 0] /\ 0 \in 0 .. match_length'
    BY <1>5, <1>12 DEF Nodes
  <2>2. QED
    BY <1>5, <2>1 DEF Differ
<1>13. Parted(lo, hi)'
  <2>1. match_length' < F /\ p' \notin Nodes
    BY <1>5, <1>6
  <2>2. \A z \in Nodes : dad'[z] # NIL =>
          \/ Child' # NIL /\ Within(z, Child, lo, hi)'
          \/ Differ(z, node, match_length)'
    BY <1>10, <1>11, <1>12 DEF Within
  <2>3. QED
    BY <2>1, <2>2 DEF Parted, NIL, Nodes
<1>14. Distinct'
  BY <1>1 DEF Distinct, NIL, Nodes
<1>15. Descended(lo, hi)'
  BY <1>5 DEF Descended
<1>16. QED
  BY <1>8, <1>13, <1>14, <1>15 DEF OrderInv

\* The cell that is overwritten is in no string of the window but the oldest,
\* nor is its copy.
LEMMA StringsKept ==
  ASSUME ScanInv, AdvanceByte,
         NEW x \in Nodes, x = r \/ Behind(x) < N - F, NEW j \in 0 .. F-1
  PROVE  text_buf'[x + j] = text_buf[x + j]
<1>1. /\ r \in Nodes /\ s = Wrap(r + F)
      /\ text_buf' = [v \in Positions |->
                        IF v = s \/ (s < F - 1 /\ v = s + N) THEN c
                                                             ELSE text_buf[v]]
  BY DEF ScanInv, TypeOK, Counters, AdvanceByte
<1>2. x + j # s /\ x + j # s + N
  BY <1>1 DEF Behind, Wrap, Nodes
<1>3. x + j \in Positions
  BY DEF Positions, Nodes
<1>4. QED
  BY <1>1, <1>2, <1>3

\* The window moves on, and the string it uncovers is inserted.
LEMMA OrderAdvanceStep ==
  ASSUME ScanInv, TreeInv, OrderInv, TypeOK', AdvanceByte \/ AdvanceEnd
  PROVE  OrderInv'
<1>1. pc = "advance" /\ r' = Succ(r) /\ dad' = dad
  BY DEF AdvanceByte, AdvanceEnd
<1>2. r' \in Nodes /\ dad[r'] = NIL
  BY <1>1, WindowMoves
<1>3. ASSUME NEW y \in Nodes, dad[y] # NIL, NEW j \in 0 .. F-1
      PROVE  text_buf'[y + j] = text_buf[y + j]
  <2>1. y = r \/ Behind(y) < N - F
    BY <1>1, <1>3 DEF TreeInv, Members, InTree
  <2>2. QED
    BY <2>1, StringsKept DEF AdvanceEnd
<1>4. ASSUME NEW y \in Nodes, dad[y] # NIL PROVE text_buf'[y] = text_buf[y]
  <2>1. 0 \in 0 .. F-1 /\ y + 0 = y
    BY DEF Nodes
  <2>2. text_buf'[y + 0] = text_buf[y + 0]
    BY <1>3, <1>4, <2>1
  <2>3. QED
    BY <2>1, <2>2
<1>5. ASSUME NEW y \in Nodes, NEW z \in Nodes, dad[y] # NIL, dad[z] # NIL
      PROVE  Before(y, z)' <=> Before(y, z)
  <2>1. \A j \in 1 .. F-1 :
          text_buf'[y + j] = text_buf[y + j] /\ text_buf'[z + j] = text_buf[z + j]
    BY <1>3, <1>5
  <2>2. \A k \in 1 .. F-1 : \A j \in 1 .. k-1 : j \in 1 .. F-1
    OBVIOUS
  <2>3. QED
    BY <2>1, <2>2 DEF Before
<1>6. CASE CallInsert(r', text_buf', "shift")
  BY <1>1, <1>2, <1>4, <1>5, <1>6, OrderCallStep
<1>7. CASE AdvanceEnd /\ pc' = "shift" /\ UNCHANGED <<lson, rson>>
  <2>1. text_buf' = text_buf /\ pc' \notin {"insert", "descend"}
    BY <1>7 DEF AdvanceEnd
  <2>2. PICK lo \in [Nodes -> Links], hi \in [Nodes -> Links] :
          Ordered(lo, hi, lson, rson, dad)
    BY DEF OrderInv
  <2>3. Ordered(lo, hi, lson', rson', dad')
    BY <1>1, <1>7, <2>2
  <2>4. Distinct
    BY DEF OrderInv
  <2>5. \A x, y \in Nodes :
          dad'[x] # NIL /\ dad'[y] # NIL /\ x # y /\ text_buf[x] = text_buf[y] =>
            Before(x, y) \/ Before(y, x)
    BY <1>1, <2>4 DEF Distinct
  <2>6. QED
    BY <2>1, <2>3, <2>5, OrderSettles
<1>8. QED
  BY <1>6, <1>7 DEF AdvanceByte, AdvanceEnd

\* The first strings.
LEMMA OrderPrimeStep ==
  ASSUME ScanInv, TreeInv, OrderInv, TypeOK', Prime
  PROVE  OrderInv'
<1>1. /\ pc = "prime" /\ r \in Nodes /\ i \in 1..F+1 /\ r = N - F
      /\ dad' = dad /\ text_buf' = text_buf
  BY DEF ScanInv, TypeOK, Counters, Prime, scanVars
<1>2. \A y \in Nodes : dad[y] # NIL => y \in r - i + 1 .. r - 1
  BY <1>1 DEF TreeInv, Members, InTree
<1>3. \A y, z \in Nodes : Before(y, z)' <=> Before(y, z)
  BY <1>1, OrderStays
<1>4. PICK x \in Nodes, back \in {"prime", "encode"} :
        dad[x] = NIL /\ CallInsert(x, text_buf, back)
  <2>1. r - 1 < r /\ (i <= F => r - i \in Nodes /\ r - i < r - i + 1)
    BY <1>1 DEF Nodes
  <2>2. dad[r] = NIL /\ (i <= F => dad[r - i] = NIL)
    BY <1>1, <1>2, <2>1 DEF Nodes
  <2>3. QED
    BY <1>1, <2>1, <2>2 DEF Prime
<1>5. QED
  BY <1>1, <1>3, <1>4, OrderCallStep

\* The rest of the loop.
LEMMA OrderOtherStep ==
  ASSUME OrderInv, Encode \/ Shift \/ Shifted \/ Flush \/ UNCHANGED vars
  PROVE  OrderInv'
<1>1. CASE UNCHANGED vars
  <2>1. /\ \A x, y : Before(x, y)' <=> Before(x, y)
        /\ \A x, y, m : Differ(x, y, m)' <=> Differ(x, y, m)
    BY <1>1, OrderStays DEF vars
  <2>2. PICK lo \in [Nodes -> Links], hi \in [Nodes -> Links] :
          Ordered(lo, hi, lson, rson, dad) /\ Parted(lo, hi) /\ Descended(lo, hi)
    BY DEF OrderInv
  <2>3. Ordered(lo, hi, lson, rson, dad)'
    BY <1>1, <2>1, <2>2 DEF vars, Ordered, Within
  <2>4. \A z, a : Within(z, a, lo, hi)' <=> Within(z, a, lo, hi)
    BY <2>1 DEF Within
  <2>5. Parted(lo, hi)'
    <3>1. SUFFICES ASSUME pc = "insert" PROVE Parted(lo, hi)'
      BY <1>1 DEF vars, Parted
    <3>2. /\ Child' = Child
          /\ UNCHANGED <<match_length, p, node, cmp, dad>>
      BY <1>1 DEF vars, Child
    <3>3. \A z : /\ Within(z, Child, lo, hi)' <=> Within(z, Child, lo, hi)
                 /\ Differ(z, node, match_length)' <=> Differ(z, node, match_length)
      BY <2>1, <2>4, <3>2 DEF Within
    <3>4. QED
      BY <2>1, <2>2, <2>4, <3>1, <3>2, <3>3 DEF Parted
  <2>6. Descended(lo, hi)'
    BY <1>1, <2>1, <2>2 DEF vars, Descended
  <2>7. Distinct'
    BY <1>1, <2>1 DEF OrderInv, vars, Distinct
  <2>8. QED
    BY <2>3, <2>5, <2>6, <2>7 DEF OrderInv
<1>2. CASE Encode \/ Shift \/ Shifted \/ Flush
  <2>1. /\ UNCHANGED <<text_buf, lson, rson, dad>>
        /\ pc' \notin {"insert", "descend"}
    BY <1>2 DEF Encode, Shift, Shifted, Flush, scanVars, treeVars
  <2>2. PICK lo \in [Nodes -> Links], hi \in [Nodes -> Links] :
          Ordered(lo, hi, lson, rson, dad)
    BY DEF OrderInv
  <2>3. Ordered(lo, hi, lson', rson', dad')
    BY <2>1, <2>2
  <2>4. \A x, y \in Nodes :
          dad'[x] # NIL /\ dad'[y] # NIL /\ x # y /\ text_buf[x] = text_buf[y] =>
            Before(x, y) \/ Before(y, x)
    BY <2>1 DEF OrderInv, Distinct
  <2>5. QED
    BY <2>1, <2>3, <2>4, OrderSettles
<1>3. QED
  BY <1>1, <1>2

\* At the start there are no strings to be in order.
LEMMA InitOrder == Init => OrderInv
<1> SUFFICES ASSUME Init PROVE OrderInv
  OBVIOUS
<1>1. /\ \A x \in Nodes : dad[x] = NIL
      /\ \A w \in Roots : rson[w] = NIL
      /\ pc \in {"done", "prime"}
  BY LinkKinds DEF Init
<1>2. PICK lo \in [Nodes -> Links] : lo = [x \in Nodes |-> NIL]
  BY LinkKinds
<1>3. Ordered(lo, lo, lson, rson, dad)
  BY <1>1 DEF Ordered
<1>4. Distinct /\ Parted(lo, lo) /\ Descended(lo, lo)
  BY <1>1 DEF Distinct, Parted, Descended
<1>5. QED
  BY <1>3, <1>4 DEF OrderInv

-----------------------------------------------------------------------------
(* The invariant holds, and what follows from it.                          *)

\* The inductive invariant of the order: the trees are search trees, and the
\* walk of InsertNode is where the node belongs.
THEOREM OrderInvariant == SafeSpec => []OrderInv
<1>1. Init => OrderInv
  BY InitOrder
<1>2. ScanInv /\ ScanInv' /\ TreeInv /\ OrderInv /\ [Next]_vars => OrderInv'
  <2>1. SUFFICES ASSUME ScanInv, TypeOK', TreeInv, OrderInv, [Next]_vars
                 PROVE  OrderInv'
    BY DEF ScanInv
  <2>2. CASE Prime
    BY <2>1, <2>2, OrderPrimeStep
  <2>3. CASE InsertNode
    BY <2>1, <2>3, OrderLeafStep, OrderReplaceStep, OrderWalkStep DEF InsertNode
  <2>4. CASE DeleteNode
    BY <2>1, <2>4, OrderDeleteStep
  <2>5. CASE AdvanceByte \/ AdvanceEnd
    BY <2>1, <2>5, OrderAdvanceStep
  <2>6. CASE Encode \/ Shift \/ Shifted \/ Flush \/ UNCHANGED vars
    BY <2>1, <2>6, OrderOtherStep
  <2>7. QED
    BY <2>1, <2>2, <2>3, <2>4, <2>5, <2>6 DEF Next
<1>3. QED
  BY <1>1, <1>2, ScanInvariant, TreeInvariant, PTL DEF SafeSpec

\* What the order says of a search.
LEMMA OrderFinds ==
  ASSUME ScanInv, TreeInv, OrderInv
  PROVE  TreesFindable
<1>1. TypeOK /\ Linked(lson, rson, dad, Keys)
  BY DEF ScanInv, TreeInv
<1>2. PICK h \in [RLinks -> Nat] : Ranked(h, dad)
  BY DEF TreeInv, Trees
<1>3. PICK lo \in [Nodes -> Links], hi \in [Nodes -> Links] :
        Ordered(lo, hi, lson, rson, dad)
  BY DEF OrderInv
<1>4. ASSUME NEW x \in Nodes, dad[x] # NIL PROVE WalkOf(x)[N] = x
  BY <1>1, <1>2, <1>3, <1>4, SearchFinds
<1>5. QED
  BY <1>4 DEF TreesFindable, InTree

\* Every string in a tree is found by a search for it, when a unit is coded
\* and when the window moves on: neither InsertNode nor DeleteNode puts one
\* where the comparisons do not lead.
THEOREM TreesFound == Spec => []TreesFindable
<1>1. ScanInv /\ TreeInv /\ OrderInv => TreesFindable
  BY OrderFinds
<1>2. QED
  BY <1>1, ScanInvariant, TreeInvariant, OrderInvariant, PTL DEF Spec

-----------------------------------------------------------------------------
(* The longest match is found, because no string is missing from the trees *)
(* while it is in the window.                                              *)

\* How far the string at x lies behind r; that at r itself is the newest.
Age(x) == IF x = r THEN 0 ELSE Behind(x)

\* The age of the oldest string that may be in the trees for an equal one at
\* x.  Among strings of the file it is x itself, since a newer one takes the
\* place of an older one.  Prime, which goes backwards, puts older strings in
\* the place of newer ones, but none that begins more than F bytes before the
\* file.
Stay(x) == IF Age(x) <= Passed THEN Age(x) ELSE Passed + F

\* A string equal to that at x is in the trees.
StoodFor(x) == \E z \in Nodes : dad[z] # NIL /\ Age(z) <= Stay(x) /\ Same(z, x)

\* So it is for the strings aged from a to b, unless their stand-in may have
\* left the window of m.
Covers(a, b, m) ==
  \A x \in Nodes : Age(x) \in a..b /\ Stay(x) <= m => StoodFor(x)

\* The strings of the window are stood for, but for those Prime has still to
\* insert, and the one at r while it is being inserted.
Covered ==
  /\ pc = "prime" => Covers(1, i - 1, N)
  /\ pc = "insert" /\ ret = "prime" => Covers(1, i - 2, N)
  /\ pc = "insert" /\ ret # "prime" => Covers(1, N - F, N - F)
  /\ pc \in {"encode", "shift", "delete", "descend"} /\ len > 0 =>
       Covers(0, N - F, N - F)
  /\ pc = "advance" => Covers(0, N - F - 1, N - F - 1)

\* Every string of the window differs from that at r when the match does.
NoLonger ==
  match_length < F =>
    \A x \in Nodes : Age(x) \in 1 .. N-F /\ Stay(x) <= N - F =>
      Differ(x, r, match_length)

\* It is so from the insertion of the string at r until the unit is coded.
Longest ==
  pc = "encode" \/ (pc = "shift" /\ i > 0 /\ len > 0) => NoLonger

\* Nothing has been coded while the first strings are inserted, and a unit has
\* at least one byte.
Phases ==
  /\ pc = "prime" \/ (pc = "insert" /\ ret # "shift") => read = len
  /\ \/ pc \in {"shift", "delete", "descend", "advance"}
     \/ pc = "insert" /\ ret = "shift"
     => last > 0

LongestInv == Phases /\ Covered /\ Longest

\* The ages are numbers.
LEMMA AgeType ==
  ASSUME ScanInv, NEW x \in Nodes
  PROVE  Age(x) \in Nat /\ Stay(x) \in Int /\ Passed \in Int /\ (Age(x) = 0 <=> x = r)
<1>1. r \in Nodes /\ read \in Nat /\ len \in 0..F
  BY DEF ScanInv, TypeOK
<1>2. Age(x) \in Nat /\ (Age(x) = 0 <=> x = r)
  BY <1>1 DEF Age, Behind, Nodes
<1>3. Passed \in Int
  BY <1>1 DEF Passed
<1>4. QED
  BY <1>2, <1>3 DEF Stay

\* Until the window moves, the ages and the bytes stay.
LEMMA AgesStay ==
  ASSUME ScanInv, [Next]_vars, ~ AdvanceByte, ~ AdvanceEnd
  PROVE  /\ r' = r /\ len' = len
         /\ \A x \in Nodes : Age(x)' = Age(x) /\ Stay(x)' = Stay(x)
         /\ \A x, y : Same(x, y)' <=> Same(x, y)
         /\ \A x, y, m : Differ(x, y, m)' <=> Differ(x, y, m)
<1>1. Passed' = Passed /\ UNCHANGED <<text_buf, r, len>>
  BY PassedStays
<1>2. \A x \in Nodes : Age(x)' = Age(x)
  BY <1>1 DEF Age, Behind
<1>3. \A x \in Nodes : Stay(x)' = Stay(x)
  BY <1>1, <1>2 DEF Stay
<1>4. \A x, y : Same(x, y)' <=> Same(x, y)
  BY <1>1 DEF Same
<1>5. QED
  BY <1>1, <1>2, <1>3, <1>4, OrderStays

\* The strings that are stood for then depend on the trees alone.
LEMMA CoverStays ==
  ASSUME ScanInv, [Next]_vars, ~ AdvanceByte, ~ AdvanceEnd, NEW a, NEW b, NEW m,
         \A x \in Nodes : Age(x) \in a..b /\ Stay(x) <= m =>
           \E z \in Nodes : dad'[z] # NIL /\ Age(z) <= Stay(x) /\ Same(z, x)
  PROVE  \A x \in Nodes : Age(x)' \in a..b /\ Stay(x)' <= m => StoodFor(x)'
<1>1. SUFFICES ASSUME NEW x \in Nodes, Age(x)' \in a..b, Stay(x)' <= m
               PROVE  StoodFor(x)'
  OBVIOUS
<1>2. /\ \A y \in Nodes : Age(y)' = Age(y) /\ Stay(y)' = Stay(y)
      /\ \A y, z : Same(y, z)' <=> Same(y, z)
  BY AgesStay
<1>3. PICK z \in Nodes : dad'[z] # NIL /\ Age(z) <= Stay(x) /\ Same(z, x)
  BY <1>1, <1>2
<1>4. Age(z)' <= Stay(x)' /\ Same(z, x)'
  BY <1>2, <1>3
<1>5. QED
  BY <1>3, <1>4 DEF StoodFor, NIL, Nodes

\* In particular they stay if the trees do.
LEMMA CoverSame ==
  ASSUME ScanInv, [Next]_vars, ~ AdvanceByte, ~ AdvanceEnd, dad' = dad,
         NEW a, NEW b, NEW m, Covers(a, b, m)
  PROVE  \A x \in Nodes : Age(x)' \in a..b /\ Stay(x)' <= m => StoodFor(x)'
<1>1. \A x \in Nodes : Age(x) \in a..b /\ Stay(x) <= m =>
        \E z \in Nodes : dad'[z] # NIL /\ Age(z) <= Stay(x) /\ Same(z, x)
  BY DEF Covers, StoodFor
<1>2. QED
  BY <1>1, CoverStays

\* Each step keeps the counts.
LEMMA PhasesStep ==
  ASSUME ScanInv, [Next]_vars, Phases
  PROVE  Phases'
<1> USE DEF Phases
<1>1. CASE DeleteNode
  BY <1>1
  DEF DeleteNode, DeleteAbsent, DeleteNarrow, DeleteLeft, DeleteDescend,
      DeletePredecessor, DeleteBy, DeleteFrame, scanVars
<1>2. CASE InsertNode
  BY <1>2 DEF InsertNode, InsertLeaf, InsertWalk, InsertReplace, scanVars,
              ScanInv, TypeOK
<1>3. CASE Prime
  BY <1>3 DEF Prime, CallInsert, scanVars
<1>4. CASE Encode
  <2>1. match_length' > 0
    <3>1. CASE EncodeLiteral
      BY <3>1 DEF EncodeLiteral
    <3>2. CASE EncodePair
      BY <3>2 DEF EncodePair, Clipped, Least, ScanInv, TypeOK
    <3>3. QED
      BY <1>4, <3>1, <3>2 DEF Encode
  <2>2. QED
    BY <1>4, <2>1 DEF Encode
<1>5. CASE AdvanceByte \/ AdvanceEnd
  BY <1>5 DEF AdvanceByte, AdvanceEnd, CallInsert
<1>6. CASE Shift \/ Shifted \/ Flush \/ UNCHANGED vars
  BY <1>6 DEF Shift, Shifted, Flush, scanVars, vars
<1>7. QED
  BY <1>1, <1>2, <1>3, <1>4, <1>5, <1>6 DEF Next

\* What a string stands for, an equal string that is not older does.
LEMMA StandsIn ==
  ASSUME ScanInv, NEW x \in Nodes, NEW n \in Nodes, StoodFor(x),
         dad'[n] # NIL, Age(n) <= Stay(x),
         \A z \in Nodes : dad[z] # NIL => dad'[z] # NIL \/ Same(z, n)
  PROVE  \E z \in Nodes : dad'[z] # NIL /\ Age(z) <= Stay(x) /\ Same(z, x)
<1>1. PICK z \in Nodes : dad[z] # NIL /\ Age(z) <= Stay(x) /\ Same(z, x)
  BY DEF StoodFor
<1>2. CASE dad'[z] # NIL
  BY <1>1, <1>2
<1>3. CASE Same(z, n)
  BY <1>1, <1>3 DEF Same
<1>4. QED
  BY <1>1, <1>2, <1>3

\* An insertion adds the node, at most in the place of an equal string.
LEMMA InsertMembers ==
  ASSUME ScanInv, TreeInv, OrderInv, InsertLeaf \/ InsertReplace
  PROVE  /\ dad'[node] # NIL
         /\ \A z \in Nodes : dad[z] # NIL => dad'[z] # NIL \/ Same(z, node)
<1>1. /\ pc = "insert" /\ TypeOK /\ Linked(lson, rson, dad, Keys)
      /\ node \in Nodes /\ p \in RLinks /\ dad[node] = NIL
      /\ p \in Nodes \/ p \in Roots
  BY InsertHere DEF InsertLeaf, InsertReplace
<1>2. CASE InsertLeaf
  <2>1. dad' = [dad EXCEPT ![node] = p]
    BY <1>2 DEF InsertLeaf
  <2>2. p # NIL
    BY <1>1, LinkKinds
  <2>3. QED
    BY <1>1, <2>1, <2>2, LinkKinds DEF TypeOK
<1>3. CASE InsertReplace
  <2>1. Child # NIL /\ FirstDifference(node, Child) = F /\ Replaces(node, Child)
    BY <1>3 DEF InsertReplace, Replaces
  <2>2. PICK x \in Nodes : x = Child
    BY <1>1, <1>3, <2>1, InsertHere DEF InsertReplace
  <2>3. text_buf[x] = text_buf[node] /\ dad[x] # NIL /\ Keys[x] = Keys[node]
    <3>1. text_buf[x] = text_buf[node] /\ dad[x] # NIL
      BY <1>1, <2>1, <2>2, InsertHere
    <3>2. QED
      BY <1>1, <3>1, LinkKinds DEF Keys
  <2>4. PICK h \in [RLinks -> Nat] : Ranked(h, dad)
    BY DEF TreeInv, Trees
  <2>5. \A z \in Nodes :
          dad'[z] = IF z = x THEN NIL ELSE IF z = node THEN dad[x]
                    ELSE IF z = lson[x] \/ z = rson[x] THEN node ELSE dad[z]
    <3>1. Replaces(node, x)
      BY <2>1, <2>2
    <3>2. QED
      BY <1>1, <2>3, <2>4, <3>1, ReplaceIs
  <2>6. Same(x, node)
    <3>1. \A j \in 1 .. F-1 : text_buf[node + j] = text_buf[x + j]
      BY <1>1, <2>1, <2>2, CompareTells
    <3>2. ASSUME NEW j \in 0 .. F-1 PROVE text_buf[x + j] = text_buf[node + j]
      <4>1. CASE j = 0
        <5>1. x + j = x /\ node + j = node
          BY <1>1, <4>1 DEF Nodes
        <5>2. QED
          BY <2>3, <5>1
      <4>2. CASE j # 0
        BY <3>1, <4>2
      <4>3. QED
        BY <4>1, <4>2
    <3>3. QED
      BY <3>2 DEF Same
  <2>7. node # NIL
    BY <1>1, LinkKinds
  <2>8. QED
    BY <1>1, <2>3, <2>5, <2>6, <2>7
<1>4. QED
  BY <1>2, <1>3

\* A deletion takes s out of the trees, and nothing else.
LEMMA DeleteMembers ==
  ASSUME ScanInv, TreeInv, DeleteNode
  PROVE  IF DeleteDescend THEN dad' = dad /\ pc' = "descend"
         ELSE /\ pc' = "advance"
              /\ \A z \in Nodes : dad'[z] # NIL <=> dad[z] # NIL /\ z # s
<1>1. TypeOK /\ Linked(lson, rson, dad, Keys) /\ s \in Nodes
  BY DEF ScanInv, TreeInv, TypeOK
<1>2. PICK h \in [RLinks -> Nat] :
         Ranked(h, dad) /\ (pc = "descend" => h[s] < h[dad[q]])
  BY DEF TreeInv, Trees
<1>3. CASE DeleteAbsent
  BY <1>3 DEF DeleteAbsent, treeVars, DeleteDescend
<1>4. CASE DeleteNarrow
  <2>1. /\ dad[s] # NIL /\ pc' = "advance"
        /\ TakesPlace(s, q', lson, rson, [dad EXCEPT ![q'] = dad[s]])
        /\ (rson[s] = NIL /\ q' = lson[s]) \/ (lson[s] = NIL /\ q' = rson[s])
    BY <1>4 DEF DeleteNarrow, DeleteBy
  <2>2. \A z \in Nodes : dad'[z] # NIL <=> dad[z] # NIL /\ z # s
    BY <1>1, <1>2, <2>1, NarrowLinks
  <2>3. QED
    BY <2>1, <2>2 DEF DeleteDescend
<1>5. CASE DeleteLeft
  <2>1. /\ dad[s] # NIL /\ pc' = "advance" /\ q' = lson[s] /\ q' # NIL
        /\ rson[s] # NIL /\ rson[q'] = NIL
        /\ LeavesTo(s, q')
    BY <1>5 DEF DeleteLeft, DeleteBy, LeavesTo
  <2>2. PICK y \in Nodes : y = q'
    BY <1>1, <2>1, LinkKinds DEF TypeOK
  <2>3. LeavesTo(s, y) /\ y = lson[s] /\ y # NIL /\ rson[y] = NIL
    BY <2>1, <2>2
  <2>4. \A z \in Nodes : dad'[z] # NIL <=> dad[z] # NIL /\ z # s
    BY <1>1, <1>2, <2>1, <2>3, LeftLinks
  <2>5. QED
    BY <2>1, <2>4 DEF DeleteDescend
<1>6. CASE DeletePredecessor
  <2>1. /\ pc = "descend" /\ pc' = "advance" /\ rson[q] = NIL
        /\ Succeeds(s, q)
    BY <1>6 DEF DeletePredecessor, DeleteBy, Succeeds
  <2>2. /\ dad[s] # NIL /\ lson[s] # NIL /\ rson[s] # NIL
        /\ q \in Nodes /\ dad[q] \in Nodes /\ rson[dad[q]] = q
        /\ Keys[q] = Keys[s] /\ h[s] < h[dad[q]]
    BY <1>2, <2>1 DEF TreeInv, Descending
  <2>3. \A z \in Nodes : dad'[z] # NIL <=> dad[z] # NIL /\ z # s
    BY <1>1, <1>2, <2>1, <2>2, PredecessorLeaves
  <2>4. QED
    BY <2>1, <2>3 DEF DeleteDescend
<1>7. CASE DeleteDescend
  BY <1>7 DEF DeleteDescend, treeVars
<1>8. QED
  BY <1>3, <1>4, <1>5, <1>6, <1>7 DEF DeleteNode

\* The walk of newInsertNode keeps what is stood for, and at its end the node
\* stands for itself; if no string is equal to it, all differ where the walk
\* has looked.
LEMMA LongestInsertStep ==
  ASSUME ScanInv, TreeInv, OrderInv, LongestInv, InsertNode
  PROVE  Covered' /\ Longest'
<1>1. /\ [Next]_vars /\ ~ AdvanceByte /\ ~ AdvanceEnd /\ pc = "insert"
      /\ UNCHANGED <<i, ret, node, len, r>>
  <2>1. [Next]_vars
    BY DEF Next
  <2>2. QED
    BY <2>1 DEF InsertNode, InsertLeaf, InsertWalk, InsertReplace, AdvanceByte,
                AdvanceEnd, scanVars, matchVars
<1>2. /\ r \in Nodes /\ node \in Nodes /\ read \in Nat /\ len \in 0..F
      /\ ret = "prime" => i \in 2..F+1 /\ r = N - F /\ node = r - (i - 1)
      /\ ret # "prime" => node = r
      /\ ret \in {"prime", "encode", "shift"}
  BY <1>1 DEF ScanInv, TypeOK, Counters
<1>3. \A x \in Nodes : Age(x) \in Nat /\ Stay(x) \in Int /\ (Age(x) = 0 <=> x = r)
  BY AgeType
<1>4. CASE InsertWalk
  <2>1. dad' = dad /\ pc' = "insert"
    BY <1>4 DEF InsertWalk, treeVars
  <2>2. ret = "prime" =>
          \A x \in Nodes : Age(x)' \in 1 .. i-2 /\ Stay(x)' <= N => StoodFor(x)'
    BY <1>1, <2>1, CoverSame DEF LongestInv, Covered
  <2>3. ret # "prime" =>
          \A x \in Nodes : Age(x)' \in 1 .. N-F /\ Stay(x)' <= N - F => StoodFor(x)'
    BY <1>1, <2>1, CoverSame DEF LongestInv, Covered
  <2>4. Covered'
    BY <1>1, <2>1, <2>2, <2>3 DEF Covered, Covers
  <2>5. Longest'
    BY <2>1 DEF Longest
  <2>6. QED
    BY <2>4, <2>5
<1>5. CASE InsertLeaf \/ InsertReplace
  <2>1. pc' = ret
    BY <1>5 DEF InsertLeaf, InsertReplace
  <2>2. /\ dad'[node] # NIL
        /\ \A z \in Nodes : dad[z] # NIL => dad'[z] # NIL \/ Same(z, node)
    BY <1>5, InsertMembers
  <2>3. Same(node, node)
    BY DEF Same
  <2>4. CASE ret = "prime"
    <3>1. Passed = 0
      BY <1>1, <1>2, <2>4 DEF LongestInv, Phases, Passed, Deleting
    <3>2. Age(node) = i - 1 /\ Age(node) <= F
      BY <1>2, <2>4 DEF Age, Behind, Nodes
    <3>3. ASSUME NEW x \in Nodes, Age(x) \in 1 .. i-1, Stay(x) <= N
          PROVE  \E z \in Nodes : dad'[z] # NIL /\ Age(z) <= Stay(x) /\ Same(z, x)
      <4>1. Stay(x) = F
        BY <1>3, <3>1, <3>3 DEF Stay
      <4>2. CASE x = node
        BY <1>2, <2>2, <2>3, <3>2, <4>1, <4>2
      <4>3. CASE x # node
        <5>1. Age(x) # i - 1
          BY <1>2, <1>3, <2>4, <3>3, <4>3 DEF Age, Behind, Nodes
        <5>2. Age(x) \in 1 .. i-2
          BY <1>2, <1>3, <2>4, <3>3, <5>1
        <5>3. StoodFor(x)
          BY <1>1, <2>4, <3>3, <5>2 DEF LongestInv, Covered, Covers
        <5>4. QED
          BY <1>2, <2>2, <3>2, <4>1, <5>3, StandsIn
      <4>4. QED
        BY <4>2, <4>3
    <3>4. \A x \in Nodes : Age(x)' \in 1 .. i-1 /\ Stay(x)' <= N => StoodFor(x)'
      BY <1>1, <3>3, CoverStays
    <3>5. QED
      BY <1>1, <2>1, <2>4, <3>4 DEF Covered, Covers, Longest
  <2>5. CASE ret # "prime"
    <3>1. node = r /\ Age(node) = 0
      BY <1>2, <1>3, <2>5
    <3>2. ASSUME NEW x \in Nodes, Age(x) \in 0 .. N-F, Stay(x) <= N - F
          PROVE  \E z \in Nodes : dad'[z] # NIL /\ Age(z) <= Stay(x) /\ Same(z, x)
      <4>1. Age(node) <= Stay(x)
        <5>1. Passed >= 0 /\ F \in Nat
          BY <1>1, <1>2 DEF ScanInv, Supply, Passed, Deleting
        <5>2. QED
          BY <1>3, <3>1, <5>1, AgeType DEF Stay
      <4>2. CASE x = node
        BY <1>2, <2>2, <2>3, <4>1, <4>2
      <4>3. CASE x # node
        <5>1. Age(x) \in 1 .. N-F
          BY <1>3, <3>1, <3>2, <4>3
        <5>2. StoodFor(x)
          BY <1>1, <2>5, <3>2, <5>1 DEF LongestInv, Covered, Covers
        <5>3. QED
          BY <1>2, <2>2, <4>1, <5>2, StandsIn
      <4>4. QED
        BY <4>2, <4>3
    <3>3. \A x \in Nodes : Age(x)' \in 0 .. N-F /\ Stay(x)' <= N - F => StoodFor(x)'
      BY <1>1, <3>2, CoverStays
    <3>4. Covered'
      BY <1>1, <1>2, <2>1, <2>5, <3>3 DEF Covered, Covers
    <3>5. NoLonger'
      <4>1. CASE InsertReplace
        BY <4>1 DEF InsertReplace, NoLonger
      <4>2. CASE InsertLeaf
        <5>1. match_length' = match_length /\ Child = NIL
          BY <4>2 DEF InsertLeaf, matchVars
        <5>2. \A z \in Nodes : dad[z] # NIL => Differ(z, node, match_length)
          BY <1>1, <5>1 DEF OrderInv, Parted
        <5>3. ASSUME match_length < F, NEW x \in Nodes,
                     Age(x) \in 1 .. N-F, Stay(x) <= N - F
              PROVE  Differ(x, r, match_length)
          <6>1. StoodFor(x)
            BY <1>1, <2>5, <5>3 DEF LongestInv, Covered, Covers
          <6>2. PICK z \in Nodes : dad[z] # NIL /\ Same(z, x)
            BY <6>1 DEF StoodFor
          <6>3. PICK j \in 0 .. match_length : text_buf[z + j] # text_buf[r + j]
            BY <3>1, <5>2, <6>2 DEF Differ
          <6>4. j \in 0 .. F-1
            BY <5>3, <6>3 DEF ScanInv, TypeOK
          <6>5. text_buf[z + j] = text_buf[x + j]
            BY <6>2, <6>4 DEF Same
          <6>6. QED
            BY <6>3, <6>5 DEF Differ
        <5>4. /\ \A x \in Nodes : Age(x)' = Age(x) /\ Stay(x)' = Stay(x)
              /\ \A x, y, m : Differ(x, y, m)' <=> Differ(x, y, m)
          BY <1>1, AgesStay
        <5>5. \A x : Differ(x, r, match_length)' <=> Differ(x, r, match_length)
          BY <1>1, <5>1, <5>4
        <5>6. QED
          BY <5>1, <5>3, <5>4, <5>5 DEF NoLonger
      <4>3. QED
        BY <1>5, <4>1, <4>2
    <3>6. QED
      BY <3>4, <3>5 DEF Longest
  <2>6. QED
    BY <2>4, <2>5
<1>6. QED
  BY <1>4, <1>5 DEF InsertNode

\* The strings that begin F bytes or more before the file are all equal.
LEMMA FillersSame ==
  ASSUME ScanInv, pc = "prime", Passed = 0,
         NEW x \in Nodes, Age(x) \in F .. N-F, NEW y \in Nodes, Age(y) = F
  PROVE  Same(x, y)
<1>1. r = N - F /\ len \in 0..F
  BY DEF ScanInv, TypeOK, Counters
<1>2. ASSUME NEW v \in Nodes, Age(v) \in F .. N-F, NEW j \in 0 .. F-1
      PROVE  text_buf[v + j] = FrequentChar
  <2>1. v = r - Age(v) /\ v + j \in 0 .. r-1
    BY <1>1, <1>2 DEF Age, Behind, Nodes
  <2>2. PICK e \in Int : e = v + j - r
    BY <1>1 DEF Nodes
  <2>3. e \in -(N - F) .. len-1 /\ e < 0 /\ Cell(e) = v + j
    BY <1>1, <1>2, <2>1, <2>2 DEF Cell, Wrap, Nodes
  <2>4. text_buf[Cell(e)] = Source(Passed + 1 + e)
    BY <2>3 DEF ScanInv, Window, HoldsText
  <2>5. Source(Passed + 1 + e) = FrequentChar
    BY <2>3 DEF Source
  <2>6. QED
    BY <2>3, <2>4, <2>5
<1>3. \A j \in 0 .. F-1 : text_buf[x + j] = FrequentChar
  BY <1>2
<1>4. \A j \in 0 .. F-1 : text_buf[y + j] = FrequentChar
  BY <1>2
<1>5. QED
  BY <1>3, <1>4 DEF Same

\* When the first strings have been inserted, the last of them stands for all
\* that begin further before the file.
LEMMA LongestPrimeStep ==
  ASSUME ScanInv, LongestInv, Prime
  PROVE  Covered' /\ Longest'
<1>1. /\ [Next]_vars /\ ~ AdvanceByte /\ ~ AdvanceEnd /\ pc = "prime"
      /\ dad' = dad /\ pc' = "insert"
  <2>1. [Next]_vars
    BY DEF Next
  <2>2. QED
    BY <2>1 DEF Prime, CallInsert, AdvanceByte, AdvanceEnd
<1>2. /\ r = N - F /\ r \in Nodes /\ i \in 1..F+1 /\ Passed = 0
      /\ Covers(1, i - 1, N)
  <2>1. /\ r = N - F /\ r \in Nodes /\ i \in 1..F+1 /\ read \in Nat
        /\ read = len /\ ~ Deleting
    <3>1. read = len
      BY <1>1 DEF LongestInv, Phases
    <3>2. QED
      BY <1>1, <3>1 DEF ScanInv, TypeOK, Counters, Deleting
  <2>2. Passed = 0
    <3>1. Passed = read - len - 0
      BY <2>1 DEF Passed
    <3>2. QED
      BY <2>1, <3>1
  <2>3. Covers(1, i - 1, N)
    BY <1>1 DEF LongestInv, Covered
  <2>4. QED
    BY <2>1, <2>2, <2>3
<1>3. Longest'
  BY <1>1 DEF Longest
<1>4. CASE i <= F /\ ret' = "prime" /\ i' = i + 1
  <2>1. \A x \in Nodes : Age(x)' \in 1 .. i-1 /\ Stay(x)' <= N => StoodFor(x)'
    BY <1>1, <1>2, CoverSame
  <2>2. i' - 2 = i - 1
    BY <1>2, <1>4
  <2>3. \A x \in Nodes : Age(x)' \in 1 .. i'-2 /\ Stay(x)' <= N => StoodFor(x)'
    BY <2>1, <2>2
  <2>4. QED
    BY <1>1, <1>3, <1>4, <2>3 DEF Covered, Covers
<1>5. CASE i > F /\ ret' = "encode"
  <2>1. ASSUME NEW x \in Nodes, Age(x) \in 1 .. N-F, Stay(x) <= N - F
        PROVE  \E z \in Nodes : dad'[z] # NIL /\ Age(z) <= Stay(x) /\ Same(z, x)
    <3>1. Age(x) \in Nat /\ Stay(x) = F
      BY <1>2, <2>1, AgeType DEF Stay
    <3>2. CASE Age(x) <= F
      <4>1. Age(x) \in 1 .. i-1 /\ Stay(x) <= N
        BY <1>2, <1>5, <2>1, <3>1, <3>2
      <4>2. QED
        BY <1>1, <1>2, <4>1 DEF Covers, StoodFor
    <3>3. CASE Age(x) > F
      <4>1. PICK y \in Nodes : y = r - F
        BY <1>2 DEF Nodes
      <4>2. Age(y) = F
        BY <1>2, <4>1 DEF Age, Behind, Nodes
      <4>3. Stay(y) = F
        BY <1>2, <4>2 DEF Stay
      <4>4. StoodFor(y)
        BY <1>2, <1>5, <4>2, <4>3 DEF Covers
      <4>5. PICK z \in Nodes : dad[z] # NIL /\ Age(z) <= F /\ Same(z, y)
        BY <4>3, <4>4 DEF StoodFor
      <4>6. Same(x, y)
        BY <1>1, <1>2, <2>1, <3>1, <3>3, <4>2, FillersSame
      <4>7. Same(z, x)
        BY <4>5, <4>6 DEF Same
      <4>8. QED
        BY <1>1, <3>1, <4>5, <4>7
    <3>4. QED
      BY <3>1, <3>2, <3>3
  <2>2. \A x \in Nodes : Age(x)' \in 1 .. N-F /\ Stay(x)' <= N - F => StoodFor(x)'
    BY <1>1, <2>1, CoverStays
  <2>3. QED
    BY <1>1, <1>3, <1>5, <2>2 DEF Covered, Covers
<1>6. QED
  BY <1>4, <1>5 DEF Prime, CallInsert

\* A deletion takes only the string that leaves the window with the byte that
\* comes next.
LEMMA LongestDeleteStep ==
  ASSUME ScanInv, TreeInv, LongestInv, DeleteNode
  PROVE  Covered' /\ Longest'
<1>1. /\ [Next]_vars /\ ~ AdvanceByte /\ ~ AdvanceEnd
      /\ pc \in {"delete", "descend"}
  <2>1. [Next]_vars
    BY DEF Next
  <2>2. QED
    BY <2>1 DEF DeleteNode, DeleteAbsent, DeleteNarrow, DeleteLeft,
                DeleteDescend, DeletePredecessor, AdvanceByte, AdvanceEnd
<1>2. len > 0 /\ s \in Nodes /\ r \in Nodes /\ s = Wrap(r + F)
  BY <1>1 DEF ScanInv, TypeOK, Counters, Deleting
<1>3. Covers(0, N - F, N - F)
  BY <1>1, <1>2 DEF LongestInv, Covered
<1>4. CASE DeleteDescend
  <2>1. dad' = dad /\ pc' = "descend"
    BY <1>4, DeleteMembers
  <2>2. \A x \in Nodes : Age(x)' \in 0 .. N-F /\ Stay(x)' <= N - F => StoodFor(x)'
    BY <1>1, <1>3, <2>1, CoverSame
  <2>3. QED
    BY <2>1, <2>2 DEF Covered, Covers, Longest
<1>5. CASE ~ DeleteDescend
  <2>1. /\ pc' = "advance"
        /\ \A z \in Nodes : dad'[z] # NIL <=> dad[z] # NIL /\ z # s
    BY <1>5, DeleteMembers
  <2>2. ASSUME NEW x \in Nodes, Age(x) \in 0 .. N-F-1, Stay(x) <= N - F - 1
        PROVE  \E z \in Nodes : dad'[z] # NIL /\ Age(z) <= Stay(x) /\ Same(z, x)
    <3>1. Stay(x) \in Int
      BY AgeType
    <3>2. Age(x) \in 0 .. N-F /\ Stay(x) <= N - F
      BY <2>2, <3>1
    <3>3. PICK z \in Nodes : dad[z] # NIL /\ Age(z) <= Stay(x) /\ Same(z, x)
      BY <1>3, <3>2 DEF Covers, StoodFor
    <3>4. Age(z) <= N - F - 1
      BY <2>2, <3>1, <3>3, AgeType
    <3>5. z # s
      BY <1>2, <3>4 DEF Age, Behind, Wrap, Nodes
    <3>6. QED
      BY <2>1, <3>3, <3>5
  <2>3. \A x \in Nodes :
          Age(x)' \in 0 .. N-F-1 /\ Stay(x)' <= N - F - 1 => StoodFor(x)'
    BY <1>1, <2>2, CoverStays
  <2>4. QED
    BY <2>1, <2>3 DEF Covered, Covers, Longest
<1>6. QED
  BY <1>4, <1>5

\* All strings of the window grow older together.
LEMMA AgesAdvance ==
  ASSUME ScanInv, AdvanceByte \/ AdvanceEnd, NEW x \in Nodes
  PROVE  /\ x = r' => Age(x)' = 0 /\ Age(x) = N - 1
         /\ x # r' => Age(x)' = Age(x) + 1 /\ Stay(x)' = Stay(x) + 1
<1>1. /\ r \in Nodes /\ Passed \in Int /\ Passed' = Passed + 1
      /\ r' = Wrap(r + 1)
  BY PassedMoves, AgeType DEF ScanInv, TypeOK
<1>2. r' # r
  BY <1>1 DEF Wrap, Nodes
<1>3. x = r' => Age(x)' = 0 /\ Age(x) = N - 1
  BY <1>1, <1>2, StringsAge DEF Age
<1>4. x # r' => Age(x)' = Age(x) + 1
  <2>1. SUFFICES ASSUME x # r' PROVE Age(x)' = Age(x) + 1
    OBVIOUS
  <2>2. Behind(x)' = IF x = r THEN 1 ELSE Behind(x) + 1
    BY <1>1, <2>1, StringsAge
  <2>3. QED
    BY <2>1, <2>2 DEF Age
<1>5. x # r' => Stay(x)' = Stay(x) + 1
  <2>1. Age(x) \in Nat
    BY AgeType
  <2>2. QED
    BY <1>1, <1>4, <2>1 DEF Stay
<1>6. QED
  BY <1>3, <1>4, <1>5

\* When the window moves on, each string is stood for by the one that did.
LEMMA LongestAdvanceStep ==
  ASSUME ScanInv, LongestInv, AdvanceByte \/ AdvanceEnd
  PROVE  Covered' /\ Longest'
<1>1. /\ pc = "advance" /\ dad' = dad
      /\ \/ pc' = "insert" /\ ret' = "shift"
         \/ pc' = "shift" /\ len' = 0
  BY DEF AdvanceByte, AdvanceEnd, CallInsert
<1>2. r \in Nodes /\ r' \in Nodes
  <2>1. r \in Nodes /\ r' = Wrap(r + 1)
    BY PassedMoves DEF ScanInv, TypeOK
  <2>2. QED
    BY <2>1 DEF Wrap, Nodes
<1>3. ASSUME NEW x \in Nodes, Age(x) <= N - F - 1
      PROVE  \A j \in 0 .. F-1 : text_buf'[x + j] = text_buf[x + j]
  <2>1. x = r \/ Behind(x) < N - F
    BY <1>2, <1>3 DEF Age, Behind, Nodes
  <2>2. QED
    BY <2>1, StringsKept DEF AdvanceEnd
<1>4. ASSUME NEW x \in Nodes, Age(x)' \in 1 .. N-F, Stay(x)' <= N - F
      PROVE  StoodFor(x)'
  <2>1. /\ Age(x) \in Nat /\ Stay(x) \in Int
        /\ x # r' /\ Age(x)' = Age(x) + 1 /\ Stay(x)' = Stay(x) + 1
    BY <1>4, AgesAdvance, AgeType
  <2>2. Age(x) \in 0 .. N-F-1 /\ Stay(x) <= N - F - 1
    BY <1>4, <2>1
  <2>3. PICK z \in Nodes : dad[z] # NIL /\ Age(z) <= Stay(x) /\ Same(z, x)
    BY <1>1, <2>2 DEF LongestInv, Covered, Covers, StoodFor
  <2>4. Age(z) \in Nat /\ Age(z) <= N - F - 1
    BY <2>1, <2>2, <2>3, AgeType
  <2>5. Age(z)' = Age(z) + 1
    <3>1. z # r'
      BY <2>4, AgesAdvance
    <3>2. QED
      BY <3>1, AgesAdvance
  <2>6. Same(z, x)'
    <3>1. \A j \in 0 .. F-1 :
            text_buf'[z + j] = text_buf[z + j] /\ text_buf'[x + j] = text_buf[x + j]
      BY <1>3, <2>2, <2>4
    <3>2. QED
      BY <2>3, <3>1 DEF Same
  <2>7. dad'[z] # NIL /\ Age(z)' <= Stay(x)'
    BY <1>1, <2>1, <2>3, <2>4, <2>5
  <2>8. QED
    BY <2>6, <2>7 DEF StoodFor, NIL, Nodes
<1>5. QED
  BY <1>1, <1>4 DEF Covered, Covers, Longest

\* The rest of the loop leaves the trees and the match alone.
LEMMA LongestOtherStep ==
  ASSUME ScanInv, LongestInv,
         Encode \/ Shift \/ Shifted \/ Flush \/ UNCHANGED vars
  PROVE  Covered' /\ Longest'
<1>1. [Next]_vars /\ ~ AdvanceByte /\ ~ AdvanceEnd /\ dad' = dad
  <2>1. [Next]_vars
    BY DEF Next
  <2>2. i \in Nat
    BY DEF ScanInv, TypeOK
  <2>3. QED
    BY <2>1, <2>2 DEF Encode, Shift, Shifted, Flush, vars, treeVars,
                      AdvanceByte, AdvanceEnd
<1>2. /\ r' = r /\ len' = len /\ len \in 0..F
      /\ \A x \in Nodes : Age(x)' = Age(x) /\ Stay(x)' = Stay(x)
      /\ \A x, y : Same(x, y)' <=> Same(x, y)
      /\ \A x, y, m : Differ(x, y, m)' <=> Differ(x, y, m)
  BY <1>1, AgesStay DEF ScanInv, TypeOK
\* So nothing has to be shown but what is asked.
<1>3. ASSUME NEW a, NEW b, NEW m, Covers(a, b, m)
      PROVE  \A x \in Nodes : Age(x)' \in a..b /\ Stay(x)' <= m => StoodFor(x)'
  BY <1>1, <1>3, CoverSame
<1>4. ASSUME NoLonger, UNCHANGED match_length PROVE NoLonger'
  <2>1. \A x : Differ(x, r, match_length)' <=> Differ(x, r, match_length)
    BY <1>2, <1>4
  <2>2. QED
    BY <1>2, <1>4, <2>1 DEF NoLonger
<1>5. CASE UNCHANGED vars
  <2>1. UNCHANGED <<pc, ret, i, len, match_length>>
    BY <1>5 DEF vars
  <2>2. Covered'
    BY <1>3, <2>1 DEF LongestInv, Covered, Covers
  <2>3. Longest'
    BY <1>4, <2>1 DEF LongestInv, Longest
  <2>4. QED
    BY <2>2, <2>3
<1>6. CASE Encode \/ Shift \/ Shifted \/ Flush
  <2>1. /\ pc \in {"encode", "shift", "flush"}
        /\ pc' \in {"shift", "delete", "encode", "flush", "done"}
        /\ pc' \in {"flush", "done"} \/ len = 0 \/ pc \in {"encode", "shift"}
        /\ pc' = "flush" => len = 0
    BY <1>2, <1>6 DEF Encode, Shift, Shifted, Flush
  <2>2. len > 0 /\ pc' \notin {"flush", "done"} => Covers(0, N - F, N - F)
    BY <2>1 DEF LongestInv, Covered
  <2>3. Covered'
    <3>1. len > 0 /\ pc' \notin {"flush", "done"} =>
            \A x \in Nodes :
              Age(x)' \in 0 .. N-F /\ Stay(x)' <= N - F => StoodFor(x)'
      BY <1>3, <2>2
    <3>2. QED
      BY <1>2, <2>1, <3>1 DEF Covered, Covers
  <2>4. Longest'
    <3>1. CASE Encode
      BY <3>1 DEF Encode, Longest
    <3>2. CASE Shift \/ Flush
      BY <3>2 DEF Shift, Flush, Longest
    <3>3. CASE Shifted
      <4>1. pc = "shift" /\ i >= last /\ match_length' = match_length
        BY <3>3 DEF Shifted, matchVars
      <4>2. i > 0
        BY <4>1 DEF LongestInv, Phases, ScanInv, TypeOK
      <4>3. pc' = "encode" => len > 0
        BY <1>2, <3>3 DEF Shifted
      <4>4. pc' # "shift"
        BY <3>3 DEF Shifted
      <4>5. pc' = "encode" => NoLonger'
        BY <1>4, <4>1, <4>2, <4>3 DEF LongestInv, Longest
      <4>6. QED
        BY <4>4, <4>5 DEF Longest
    <3>4. QED
      BY <1>6, <3>1, <3>2, <3>3
  <2>5. QED
    BY <2>3, <2>4
<1>7. QED
  BY <1>5, <1>6

\* At the start no string has been inserted.
LEMMA InitLongest == Init => LongestInv
<1> SUFFICES ASSUME Init PROVE LongestInv
  OBVIOUS
<1>1. pc \in {"done", "prime"} /\ i = 1 /\ read = len
  BY DEF Init
<1>2. Covers(1, i - 1, N)
  BY <1>1 DEF Covers
<1>3. QED
  BY <1>1, <1>2 DEF LongestInv, Phases, Covered, Longest

\* The inductive invariant of what is found: every string of the window is
\* equal to one in the trees that will be there as long.
THEOREM LongestInvariant == SafeSpec => []LongestInv
<1>1. Init => LongestInv
  BY InitLongest
<1>2. ScanInv /\ TreeInv /\ OrderInv /\ LongestInv /\ [Next]_vars => LongestInv'
  <2>1. SUFFICES ASSUME ScanInv, TreeInv, OrderInv, LongestInv, [Next]_vars
                 PROVE  LongestInv'
    OBVIOUS
  <2>2. Phases'
    BY <2>1, PhasesStep DEF LongestInv
  <2>3. CASE Prime
    BY <2>1, <2>2, <2>3, LongestPrimeStep DEF LongestInv
  <2>4. CASE InsertNode
    BY <2>1, <2>2, <2>4, LongestInsertStep DEF LongestInv
  <2>5. CASE DeleteNode
    BY <2>1, <2>2, <2>5, LongestDeleteStep DEF LongestInv
  <2>6. CASE AdvanceByte \/ AdvanceEnd
    BY <2>1, <2>2, <2>6, LongestAdvanceStep DEF LongestInv
  <2>7. CASE Encode \/ Shift \/ Shifted \/ Flush \/ UNCHANGED vars
    BY <2>1, <2>2, <2>7, LongestOtherStep DEF LongestInv
  <2>8. QED
    BY <2>1, <2>3, <2>4, <2>5, <2>6, <2>7 DEF Next
<1>3. QED
  BY <1>1, <1>2, ScanInvariant, TreeInvariant, OrderInvariant, PTL DEF SafeSpec

\* There is a number that fits the definition of Agreement.
LEMMA AgreementExists ==
  ASSUME NEW x, NEW n \in Nat, Coded \in Int, Behind(x) \in Int
  PROVE  /\ Agreement(x, n) \in 0..n
         /\ \A j \in 1 .. Agreement(x, n) :
              text[Coded + j] = Source(Coded + j - Behind(x))
<1> DEFINE Agrees(k) == text[Coded + k + 1] = Source(Coded + k + 1 - Behind(x))
           S == { k \in Nat : k = n \/ ~ Agrees(k) }
<1>1. PICK k \in S : \A j \in S : k <= j
  <2>1. S \subseteq Nat /\ n \in S
    OBVIOUS
  <2>2. QED
    BY <2>1, LeastNumber
<1>2. k \in 0..n /\ (k < n => ~ Agrees(k))
  BY <1>1
<1>3. \A j \in 0 .. k-1 : Agrees(j)
  BY <1>1, <1>2
<1>4. \A j \in 1..k : text[Coded + j] = Source(Coded + j - Behind(x))
  <2>1. ASSUME NEW j \in 1..k
        PROVE  text[Coded + j] = Source(Coded + j - Behind(x))
    <3>1. PICK e \in 0 .. k-1 : e = j - 1
      BY <1>2
    <3>2. Coded + e + 1 = Coded + j
      BY <1>2, <3>1
    <3>3. Agrees(e)
      BY <1>3
    <3>4. QED
      BY <3>2, <3>3
  <2>2. QED
    BY <2>1
<1>5. Agreement(x, n) = k
  BY <1>2, <1>4, AgreementIs
<1>6. QED
  BY <1>2, <1>4, <1>5

\* What the invariant says of the match, in bytes of the file.
LEMMA LongestShown ==
  ASSUME ScanInv, LongestInv
  PROVE  LongestMatch
<1>1. SUFFICES ASSUME pc = "encode", NEW x \in Nodes, Behind(x) <= N - F,
                      Behind(x) <= Coded \/ Coded + F <= N - F
               PROVE  Agreement(x, len) <= Clipped
  BY DEF LongestMatch
<1>2. /\ ~ Deleting /\ match_length \in 0..F /\ r \in Nodes
      /\ len \in 0..F /\ read \in Nat /\ len <= read
      /\ Coded \in Nat /\ Passed = Coded
  <2>1. /\ ~ Deleting /\ match_length \in 0..F /\ r \in Nodes
        /\ len \in 0..F /\ read \in Nat /\ len <= read
    BY <1>1 DEF ScanInv, TypeOK, Supply, Deleting
  <2>2. QED
    BY <2>1 DEF Coded, Passed
<1>3. Behind(x) \in 1 .. N-F /\ Age(x) = Behind(x) /\ Stay(x) <= N - F
  <2>1. Behind(x) \in 1 .. N-F /\ x # r
    BY <1>1, <1>2 DEF Behind, Nodes
  <2>2. QED
    BY <1>1, <1>2, <2>1 DEF Age, Stay
<1>4. PICK m \in 0..len :
        /\ m = Agreement(x, len)
        /\ \A j \in 1..m : text[Coded + j] = Source(Coded + j - Behind(x))
  BY <1>2, <1>3, AgreementExists
<1>5. CASE match_length >= len
  BY <1>2, <1>4, <1>5 DEF Clipped, Least
<1>6. CASE match_length < len
  <2>1. match_length < F /\ Clipped = match_length
    BY <1>2, <1>6 DEF Clipped, Least
  <2>2. PICK j \in 0 .. match_length : text_buf[x + j] # text_buf[r + j]
    BY <1>1, <1>3, <2>1 DEF LongestInv, Longest, NoLonger, Differ
  <2>3. j \in 0 .. len-1
    BY <1>2, <1>6, <2>2
  <2>4. /\ text_buf[r + j] = Source(Coded + 1 + j)
        /\ text_buf[x + j] = Source(Coded + 1 + j - Behind(x))
    BY <1>1, <1>2, <2>3, WindowCells, StringShown
  <2>5. Source(Coded + 1 + j) = text[Coded + 1 + j]
    BY <1>2, <2>3 DEF Source
  <2>6. ASSUME NEW e \in 1..m, e = j + 1 PROVE FALSE
    <3>1. /\ Coded + e = Coded + 1 + j
          /\ Coded + e - Behind(x) = Coded + 1 + j - Behind(x)
      BY <1>2, <1>3, <2>3, <2>6
    <3>2. text[Coded + e] = Source(Coded + e - Behind(x))
      BY <1>4
    <3>3. text[Coded + 1 + j] = Source(Coded + 1 + j - Behind(x))
      BY <3>1, <3>2
    <3>4. QED
      BY <2>2, <2>4, <2>5, <3>3
  <2>7. j + 1 \notin 1..m
    BY <2>6
  <2>8. m <= match_length
    BY <1>2, <1>4, <2>3, <2>2, <2>7
  <2>9. QED
    BY <1>4, <2>1, <2>8
<1>7. QED
  BY <1>2, <1>5, <1>6

\* Whenever a unit is coded, no string of the window that begins in the file,
\* or that has only just left it behind, agrees with more of the bytes to be
\* coded than the match InsertNode reports.
THEOREM LongestFound == Spec => []LongestMatch
<1>1. ScanInv /\ LongestInv => LongestMatch
  BY LongestShown
<1>2. QED
  BY <1>1, ScanInvariant, LongestInvariant, PTL DEF Spec

=============================================================================
