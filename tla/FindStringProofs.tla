-------------------------- MODULE FindStringProofs --------------------------
(***************************************************************************)
(* Whatever the file, the key and the stop characters, a port whose exit   *)
(* for "not found" does not back up keeps the line as it was; and in a     *)
(* file that suits it, any port appends nothing but the field.             *)
(***************************************************************************)
EXTENDS FindString, SequenceTheorems, WellFoundedInduction, TLAPS

USE JobsAssumption

\* No port deletes a character when there is no such field.
Keeping == \A job \in Jobs : job.port.absent = "nothing"

\* What a port can read.
Readable == Bytes \cup {"nul", "beyond"}

KeepInv ==
  /\ port \in Ports
  /\ port.absent = "nothing"
  /\ disk_buffer \in Seq(Bytes)
  /\ p \in Nat \ {0}
  /\ out \in Seq(Readable)
  /\ LineKept

-----------------------------------------------------------------------------
LEMMA ByteReadable ==
  ASSUME disk_buffer \in Seq(Bytes), NEW i \in Nat \ {0}
  PROVE  Byte(i) \in Readable
<1>1. CASE i <= Len(disk_buffer)
  <2>1. disk_buffer[i] \in Bytes
    BY <1>1
  <2>2. QED
    BY <1>1, <2>1 DEF Byte, Readable
<1>2. CASE ~(i <= Len(disk_buffer))
  BY <1>2 DEF Byte, Readable
<1>3. QED
  BY <1>1, <1>2

\* Appending keeps a prefix.
LEMMA AppendKeeps ==
  ASSUME NEW S, NEW s \in Seq(S), NEW t \in Seq(S), IsPrefix(s, t),
         NEW e \in S
  PROVE  Append(t, e) \in Seq(S) /\ IsPrefix(s, Append(t, e))
<1>1. Len(s) <= Len(t) /\ SubSeq(s, 1, Len(s)) = SubSeq(t, 1, Len(s))
  BY DEF IsPrefix
<1>2. Len(Append(t, e)) = Len(t) + 1
  OBVIOUS
<1>3. SubSeq(Append(t, e), 1, Len(s)) = SubSeq(t, 1, Len(s))
  BY <1>1
<1>4. QED
  BY <1>1, <1>2, <1>3 DEF IsPrefix

LEMMA ByteAppended ==
  ASSUME KeepInv, out' = Append(out, Byte(p))
  PROVE  out' \in Seq(Readable) /\ LineKept'
<1>1. Begun \in Seq(Readable)
  BY DEF Begun, Readable, Bytes, Letters
<1>2. Byte(p) \in Readable
  BY ByteReadable DEF KeepInv
<1>3. Begun' = Begun
  BY DEF Begun
<1>4. QED
  BY <1>1, <1>2, <1>3, AppendKeeps DEF KeepInv, LineKept

LEMMA KeepInitial == ASSUME Keeping PROVE Init => KeepInv
<1> SUFFICES ASSUME Init PROVE KeepInv
  OBVIOUS
<1>1. PICK job \in Jobs : /\ port = job.port
                          /\ end = job.end
                          /\ disk_buffer = job.file
  BY DEF Init
<1>2. port \in Ports /\ port.absent = "nothing" /\ disk_buffer \in Seq(Bytes)
  BY <1>1 DEF Keeping
<1>3. Begun \in Seq(Readable)
  BY DEF Begun, Readable, Bytes, Letters
<1>4. IsPrefix(Begun, Begun)
  BY DEF IsPrefix, Begun
<1>5. p = 1 /\ out = Begun
  BY DEF Init
<1>6. QED
  BY <1>2, <1>3, <1>4, <1>5 DEF KeepInv, LineKept

\* Every action keeps the line or appends a byte to it, and moves on.
LEMMA KeepInductive == KeepInv /\ [Next]_vars => KeepInv'
<1> SUFFICES ASSUME KeepInv, [Next]_vars PROVE KeepInv'
  OBVIOUS
<1>1. port' = port /\ disk_buffer' = disk_buffer
  BY DEF Next, vars, given, FindLoop, Match, NotFound, FindColon, SkipTabs,
         SkipSpaces, CopyRest, StoreLoop, RunPast
<1>2. p' \in Nat \ {0}
  <2>1. p \in Nat \ {0}
    BY DEF KeepInv
  <2>2. \/ p' = p \/ p' = p + 1 \/ p' = p + 2 \/ p' = p + 4
        \/ p' = p + 0
    BY DEF Next, vars, FindLoop, Match, NotFound, FindColon, SkipTabs,
           SkipSpaces, CopyRest, StoreLoop, RunPast
  <2>3. QED
    BY <2>1, <2>2
<1>3. out' = out \/ out' = Append(out, Byte(p))
  BY DEF KeepInv, Next, vars, FindLoop, Match, NotFound, FindColon, SkipTabs,
         SkipSpaces, CopyRest, StoreLoop, RunPast
<1>4. CASE out' = out
  <2>1. out' \in Seq(Readable) /\ LineKept'
    BY <1>4 DEF KeepInv, LineKept, Begun
  <2>2. QED
    BY <1>1, <1>2, <2>1 DEF KeepInv
<1>5. CASE out' = Append(out, Byte(p))
  <2>1. out' \in Seq(Readable) /\ LineKept'
    BY <1>5, ByteAppended
  <2>2. QED
    BY <1>1, <1>2, <2>1 DEF KeepInv
<1>6. QED
  BY <1>3, <1>4, <1>5

\* The calls before find_string have composed part of a line; it is still
\* there when find_string is done, whether or not there is such a field.
THEOREM LineKeptHolds == ASSUME Keeping PROVE Spec => []LineKept
<1>1. Init => KeepInv
  BY KeepInitial
<1>2. KeepInv /\ [Next]_vars => KeepInv'
  BY KeepInductive
<1>3. KeepInv => LineKept
  BY DEF KeepInv
<1>4. QED
  BY <1>1, <1>2, <1>3, PTL DEF Spec

-----------------------------------------------------------------------------
(***************************************************************************)
(* Where the key, the colon and the field are in a file.                   *)
(***************************************************************************)
LEMMA LeastNumber ==
  ASSUME NEW S \in SUBSET Nat, S # {}
  PROVE  \E n \in S : \A m \in S : n <= m
<1>1. PICK n \in S : \A m \in S : ~ (<<m, n>> \in OpToRel(<, Nat))
  BY NatLessThanWellFounded, WFMin
<1>2. ASSUME NEW m \in S PROVE n <= m
  <2>1. ~ (m < n)
    BY <1>1 DEF OpToRel
  <2>2. QED
    BY <2>1
<1>3. QED
  BY <1>2

LEMMA FirstIsLeast ==
  ASSUME NEW S \in SUBSET (Nat \ {0})
  PROVE  \/ S = {} /\ First(S) = 0
         \/ First(S) \in S /\ \A i \in S : First(S) <= i
<1>1. CASE S = {}
  BY <1>1 DEF First
<1>2. CASE S # {}
  <2>1. S \in SUBSET Nat
    OBVIOUS
  <2>2. \E i \in S : \A j \in S : i <= j
    BY <1>2, <2>1, LeastNumber
  <2>3. First(S) = CHOOSE i \in S : \A j \in S : i <= j
    BY <1>2 DEF First
  <2>4. QED
    BY <2>2, <2>3
<1>3. QED
  BY <1>1, <1>2

LEMMA WhereIsFirst ==
  ASSUME NEW file \in Seq(Bytes), NEW S, NEW from \in Nat \ {0}
  PROVE  \/ /\ Where(file, S, from) = 0
            /\ \A i \in from .. Len(file) : file[i] \notin S
         \/ /\ Where(file, S, from) \in from .. Len(file)
            /\ file[Where(file, S, from)] \in S
            /\ \A i \in from .. Where(file, S, from)-1 : file[i] \notin S
<1> DEFINE T == { i \in from .. Len(file) : file[i] \in S }
<1>1. T \in SUBSET (Nat \ {0})
  OBVIOUS
<1>2. Where(file, S, from) = First(T)
  BY DEF Where
<1>3. \/ T = {} /\ First(T) = 0
      \/ First(T) \in T /\ \A i \in T : First(T) <= i
  BY <1>1, FirstIsLeast
<1>4. CASE T = {} /\ First(T) = 0
  BY <1>2, <1>4
<1>5. CASE First(T) \in T /\ \A i \in T : First(T) <= i
  <2>1. PICK w : w = First(T)
    OBVIOUS
  <2>2. w \in from .. Len(file) /\ file[w] \in S
    BY <1>5, <2>1
  <2>3. ASSUME NEW i \in from .. w-1 PROVE file[i] \notin S
    <3>1. i \in from .. Len(file) /\ ~ (w <= i)
      BY <2>2
    <3>2. i \notin T
      BY <1>5, <2>1, <3>1
    <3>3. QED
      BY <3>1, <3>2
  <2>4. QED
    BY <1>2, <2>1, <2>2, <2>3
<1>6. QED
  BY <1>3, <1>4, <1>5

(***************************************************************************)
(* The key at k, the colon at c, the field from s to e; where there is no  *)
(* colon or no field, c and s are behind the file.                         *)
(***************************************************************************)
Layout(k, c, s, e) ==
  /\ k \in 1 .. Len(disk_buffer) /\ k = KeyOf(disk_buffer)
  /\ disk_buffer[k] = "key"
  /\ \A i \in 1 .. k-1 : disk_buffer[i] # "key"
  /\ c \in k+1 .. Len(disk_buffer)+1 /\ c = ColonOrEnd(disk_buffer)
  /\ c <= Len(disk_buffer) => disk_buffer[c] = "colon"
  /\ \A i \in k .. c-1 : disk_buffer[i] # "colon"
  /\ s \in c .. Len(disk_buffer)+1 /\ s = StartOrEnd(disk_buffer)
  /\ StartOf(disk_buffer) = IF s <= Len(disk_buffer) THEN s ELSE 0
  /\ c <= Len(disk_buffer) => c < s
  /\ s <= Len(disk_buffer) => disk_buffer[s] \notin Blanks
  /\ \A i \in c+1 .. s-1 : disk_buffer[i] \in Blanks
  /\ e = LastOf(disk_buffer, end)
  /\ s <= Len(disk_buffer) =>
       /\ e \in s-1 .. Len(disk_buffer)
       /\ \A i \in s .. e : disk_buffer[i] # end
       /\ e < Len(disk_buffer) => disk_buffer[e + 1] \in {end, "nl"}

LEMMA LayoutFound ==
  ASSUME disk_buffer \in Seq(Bytes), end \in Bytes, KeyOf(disk_buffer) # 0
  PROVE  \E k, c, s \in Nat : \E e : Layout(k, c, s, e)
<1>1. PICK k : k = KeyOf(disk_buffer)
  OBVIOUS
<1>2. PICK c : c = ColonOrEnd(disk_buffer)
  OBVIOUS
<1>3. PICK s : s = StartOrEnd(disk_buffer)
  OBVIOUS
<1>4. PICK e : e = LastOf(disk_buffer, end)
  OBVIOUS
<1>5. PICK n \in Nat : n = Len(disk_buffer)
  OBVIOUS
<1>6. /\ k \in 1 .. n
      /\ disk_buffer[k] = "key"
      /\ \A i \in 1 .. k-1 : disk_buffer[i] # "key"
  <2>1. k = Where(disk_buffer, {"key"}, 1)
    BY <1>1 DEF KeyOf
  <2>2. k # 0
    BY <1>1
  <2>3. QED
    BY <2>1, <2>2, <1>5, WhereIsFirst
<1>7. /\ c \in k+1 .. n+1
      /\ c <= n => disk_buffer[c] = "colon" /\ ColonOf(disk_buffer) = c
      /\ c > n => ColonOf(disk_buffer) = 0
      /\ \A i \in k .. c-1 : disk_buffer[i] # "colon"
  <2>1. PICK w : w = ColonOf(disk_buffer)
    OBVIOUS
  <2>2. w = Where(disk_buffer, {"colon"}, k)
    BY <1>1, <2>1 DEF ColonOf
  <2>3. c = IF w = 0 THEN n + 1 ELSE w
    BY <1>2, <1>5, <2>1 DEF ColonOrEnd
  <2>4. \/ /\ w = 0
           /\ \A i \in k .. n : disk_buffer[i] # "colon"
        \/ /\ w \in k .. n
           /\ disk_buffer[w] = "colon"
           /\ \A i \in k .. w-1 : disk_buffer[i] # "colon"
    BY <1>5, <1>6, <2>2, WhereIsFirst
  <2>5. w # k
    BY <1>6, <2>4
  <2>6. QED
    BY <1>6, <2>1, <2>3, <2>4, <2>5
<1>8. /\ s \in c .. n+1
      /\ c <= n => c < s
      /\ s <= n => disk_buffer[s] \notin Blanks
      /\ StartOf(disk_buffer) = IF s <= n THEN s ELSE 0
      /\ \A i \in c+1 .. s-1 : disk_buffer[i] \in Blanks
  <2>1. PICK w : w = StartOf(disk_buffer)
    OBVIOUS
  <2>2. s = IF w = 0 THEN n + 1 ELSE w
    BY <1>3, <1>5, <2>1 DEF StartOrEnd
  <2>3. CASE c <= n
    <3>1. w = Where(disk_buffer, Bytes \ Blanks, c + 1)
      BY <1>6, <1>7, <2>1, <2>3 DEF StartOf
    <3>2. c + 1 \in Nat \ {0}
      BY <1>6, <1>7
    <3>3. \/ /\ w = 0
             /\ \A i \in c+1 .. n : disk_buffer[i] \notin Bytes \ Blanks
          \/ /\ w \in c+1 .. n
             /\ disk_buffer[w] \in Bytes \ Blanks
             /\ \A i \in c+1 .. w-1 : disk_buffer[i] \notin Bytes \ Blanks
      BY <1>5, <3>1, <3>2, WhereIsFirst
    <3>4. \A i \in 1 .. n : disk_buffer[i] \in Bytes
      BY <1>5
    <3>5. s \in c+1 .. n+1 /\ w = IF s <= n THEN s ELSE 0
      BY <1>5, <1>6, <1>7, <2>2, <2>3, <3>3
    <3>6. \A i \in c+1 .. s-1 : disk_buffer[i] \in Blanks
      BY <1>6, <1>7, <2>2, <3>3, <3>4
    <3>7. s <= n => disk_buffer[s] \notin Blanks
      BY <1>6, <1>7, <2>2, <3>3
    <3>8. QED
      BY <1>6, <1>7, <2>1, <3>5, <3>6, <3>7
  <2>4. CASE ~ (c <= n)
    <3>1. w = 0
      BY <1>6, <1>7, <2>1, <2>4 DEF StartOf
    <3>2. QED
      BY <1>6, <1>7, <2>1, <2>2, <2>4, <3>1
  <2>5. QED
    BY <2>3, <2>4
<1>9. s <= n => /\ e \in s-1 .. n
                /\ \A i \in s .. e : disk_buffer[i] # end
                /\ e < n => disk_buffer[e + 1] \in {end, "nl"}
  <2>1. SUFFICES ASSUME s <= n
                 PROVE  /\ e \in s-1 .. n
                        /\ \A i \in s .. e : disk_buffer[i] # end
                        /\ e < n => disk_buffer[e + 1] \in {end, "nl"}
    OBVIOUS
  <2>2. PICK w : w = Where(disk_buffer, {end, "nl"}, StartOf(disk_buffer))
    OBVIOUS
  <2>3. e = IF w = 0 THEN n ELSE w - 1
    BY <1>4, <1>5, <2>2 DEF LastOf
  <2>4. w = Where(disk_buffer, {end, "nl"}, s) /\ s \in Nat \ {0}
    BY <1>6, <1>7, <1>8, <2>1, <2>2
  <2>5. \/ /\ w = 0
           /\ \A i \in s .. n : disk_buffer[i] \notin {end, "nl"}
        \/ /\ w \in s .. n
           /\ disk_buffer[w] \in {end, "nl"}
           /\ \A i \in s .. w-1 : disk_buffer[i] \notin {end, "nl"}
    BY <1>5, <2>4, WhereIsFirst
  <2>6. CASE w = 0
    <3>1. e = n /\ \A i \in s .. n : disk_buffer[i] \notin {end, "nl"}
      BY <2>3, <2>4, <2>5, <2>6
    <3>2. n \in s-1 .. n
      BY <1>5, <2>1, <2>4
    <3>3. QED
      BY <1>5, <3>1, <3>2
  <2>7. CASE w # 0
    <3>1. w \in s .. n /\ e = w - 1 /\ e + 1 = w
      BY <1>5, <2>3, <2>4, <2>5, <2>7
    <3>2. QED
      <4>1. e \in s-1 .. n
        BY <1>5, <2>4, <3>1
      <4>2. \A i \in s .. e : disk_buffer[i] # end
        <5>1. \A i \in s .. w-1 : disk_buffer[i] \notin {end, "nl"}
          BY <2>5, <2>7
        <5>2. QED
          BY <3>1, <5>1
      <4>3. disk_buffer[e + 1] \in {end, "nl"}
        BY <2>4, <2>5, <3>1
      <4>4. QED
        BY <4>1, <4>2, <4>3
  <2>8. QED
    BY <2>6, <2>7
<1>10. Layout(k, c, s, e)
  BY <1>1, <1>2, <1>3, <1>4, <1>5, <1>6, <1>7, <1>8, <1>9 DEF Layout
<1>11. k \in Nat /\ c \in Nat /\ s \in Nat
  BY <1>6, <1>7, <1>8
<1>12. QED
  BY <1>10, <1>11

-----------------------------------------------------------------------------
(***************************************************************************)
(* What such a file is to the port.                                        *)
(***************************************************************************)
Far(c, s, d) ==
  IF s <= Len(disk_buffer) THEN s = c + d ELSE c + d > Size

Within(from, to, S) == \A i \in from .. to : disk_buffer[i] \in S

SkipsTo(from, s) ==
  /\ Within(from, s - 1, port.white)
  /\ s <= Len(disk_buffer) => from <= s /\ disk_buffer[s] \notin port.white

Expected(k, c, s, e) ==
  /\ s > Len(disk_buffer) => Len(disk_buffer) = Size
  /\ port.colon = "inkey" => c = k + 1 /\ SkipsTo(c + 1, s)
  /\ port.colon = "passed" => SkipsTo(k + 4, s)
  /\ port.colon = "assumed" => Within(k + 1, c - 1, port.white) /\ Far(c, s, 2)
  /\ port.colon \in {"checked", "unchecked"} =>
       IF port.skip = "white" THEN SkipsTo(c + 1, s)
       ELSE Far(c, s, IF port.skip = "one" THEN 2 ELSE 1)
  /\ s <= Len(disk_buffer) =>
       /\ \A i \in s .. e : disk_buffer[i] \notin port.stops
       /\ IF e < Len(disk_buffer) THEN disk_buffer[e + 1] \in Stops
          ELSE Len(disk_buffer) = Size \/ "nul" \in port.stops
       /\ port.first = "copied" => s <= e

LEMMA FarFound ==
  ASSUME disk_buffer \in Seq(Bytes), NEW k \in Nat, NEW c \in Nat,
         NEW s \in Nat, NEW e, Layout(k, c, s, e), NEW d \in {1, 2},
         BehindColon(disk_buffer, d)
  PROVE  Far(c, s, d)
<1>1. PICK t : t = StartOf(disk_buffer)
  OBVIOUS
<1>2. /\ c = ColonOrEnd(disk_buffer)
      /\ t = IF s <= Len(disk_buffer) THEN s ELSE 0
      /\ 1 <= s
  BY <1>1 DEF Layout
<1>3. t = c + d \/ (t = 0 /\ c + d > Size)
  BY <1>1, <1>2 DEF BehindColon
<1>4. QED
  BY <1>2, <1>3 DEF Far

LEMMA SkipsFound ==
  ASSUME disk_buffer \in Seq(Bytes), NEW k \in Nat, NEW c \in Nat,
         NEW s \in Nat, NEW e, Layout(k, c, s, e), NEW from \in Nat,
         SkipsFrom(port, disk_buffer, from)
  PROVE  SkipsTo(from, s)
<1>1. /\ s = StartOrEnd(disk_buffer) /\ s # 0
      /\ s <= Len(disk_buffer) => StartOf(disk_buffer) = s
  BY DEF Layout
<1>2. Within(from, s - 1, port.white)
  BY <1>1 DEF SkipsFrom, AllIn, Within
<1>3. s <= Len(disk_buffer) => from <= s /\ disk_buffer[s] \notin port.white
  BY <1>1 DEF SkipsFrom
<1>4. QED
  BY <1>2, <1>3 DEF SkipsTo

LEMMA FileExpected ==
  ASSUME disk_buffer \in Seq(Bytes), port \in Ports, NEW k \in Nat,
         NEW c \in Nat, NEW s \in Nat, NEW e, Layout(k, c, s, e),
         Suits(port, end, disk_buffer)
  PROVE  Expected(k, c, s, e)
<1>1. /\ k = KeyOf(disk_buffer) /\ c = ColonOrEnd(disk_buffer)
      /\ s = StartOrEnd(disk_buffer) /\ e = LastOf(disk_buffer, end)
      /\ StartOf(disk_buffer) = IF s <= Len(disk_buffer) THEN s ELSE 0
      /\ k # 0 /\ s # 0
  BY DEF Layout
<1>2. /\ Spaced(port, disk_buffer)
      /\ StartOf(disk_buffer) = 0 => Len(disk_buffer) = Size
      /\ StartOf(disk_buffer) # 0 => StopsRight(port, disk_buffer, end)
  <2>1. KeyOf(disk_buffer) # 0
    BY <1>1
  <2>2. QED
    BY <2>1 DEF Suits
<1>3. s > Len(disk_buffer) => Len(disk_buffer) = Size
  BY <1>1, <1>2
<1>4. port.colon = "inkey" => c = k + 1 /\ SkipsTo(c + 1, s)
  <2>1. port.colon = "inkey" =>
          c = k + 1 /\ SkipsFrom(port, disk_buffer, c + 1)
    BY <1>1, <1>2 DEF Spaced
  <2>2. QED
    BY <2>1, SkipsFound
<1>5. port.colon = "passed" => SkipsTo(k + 4, s)
  <2>1. port.colon = "passed" => SkipsFrom(port, disk_buffer, k + 4)
    BY <1>1, <1>2 DEF Spaced
  <2>2. QED
    BY <2>1, SkipsFound
<1>6. port.colon = "assumed" => Within(k + 1, c - 1, port.white) /\ Far(c, s, 2)
  <2>1. port.colon = "assumed" =>
           Within(k + 1, c - 1, port.white) /\ BehindColon(disk_buffer, 2)
    BY <1>1, <1>2 DEF Spaced, AllIn, Within
  <2>2. QED
    BY <2>1, FarFound
<1>7. port.colon \in {"checked", "unchecked"} =>
        IF port.skip = "white" THEN SkipsTo(c + 1, s)
        ELSE Far(c, s, IF port.skip = "one" THEN 2 ELSE 1)
  <2>1. SUFFICES ASSUME port.colon \in {"checked", "unchecked"}
                 PROVE  IF port.skip = "white" THEN SkipsTo(c + 1, s)
                          ELSE Far(c, s, IF port.skip = "one" THEN 2 ELSE 1)
    OBVIOUS
  <2>2. IF port.skip = "white" THEN SkipsFrom(port, disk_buffer, c + 1)
        ELSE BehindColon(disk_buffer, IF port.skip = "one" THEN 2 ELSE 1)
    BY <1>1, <1>2, <2>1 DEF Spaced
  <2>3. CASE port.skip = "white"
    <3>1. SkipsFrom(port, disk_buffer, c + 1) /\ c + 1 \in Nat
      BY <2>2, <2>3
    <3>2. SkipsTo(c + 1, s)
      BY <3>1, SkipsFound
    <3>3. QED
      BY <2>3, <3>2
  <2>4. CASE port.skip # "white"
    BY <2>2, <2>4, FarFound
  <2>5. QED
    BY <2>3, <2>4
<1>8. s <= Len(disk_buffer) =>
        /\ \A i \in s .. e : disk_buffer[i] \notin port.stops
        /\ IF e < Len(disk_buffer) THEN disk_buffer[e + 1] \in Stops
           ELSE Len(disk_buffer) = Size \/ "nul" \in port.stops
        /\ port.first = "copied" => s <= e
  <2>1. SUFFICES ASSUME s <= Len(disk_buffer)
        PROVE  /\ \A i \in s .. e : disk_buffer[i] \notin port.stops
               /\ IF e < Len(disk_buffer) THEN disk_buffer[e + 1] \in Stops
                  ELSE Len(disk_buffer) = Size \/ "nul" \in port.stops
               /\ port.first = "copied" => s <= e
    OBVIOUS
  <2>2. StopsRight(port, disk_buffer, end) /\ StartOf(disk_buffer) = s
    BY <1>1, <1>2, <2>1
  <2>3. /\ \A i \in StartOf(disk_buffer) .. LastOf(disk_buffer, end) :
              disk_buffer[i] \notin port.stops
        /\ IF LastOf(disk_buffer, end) < Len(disk_buffer)
             THEN disk_buffer[LastOf(disk_buffer, end) + 1]
                    \in port.stops \cup {end}
             ELSE Len(disk_buffer) = Size \/ "nul" \in port.stops
        /\ port.first = "copied" =>
             StartOf(disk_buffer) <= LastOf(disk_buffer, end)
    BY <2>2 DEF StopsRight
  <2>4. StartOf(disk_buffer) = s /\ LastOf(disk_buffer, end) = e
    BY <1>1, <2>2
  <2>5. QED
    BY <2>3, <2>4 DEF Stops
<1>9. QED
  BY <1>3, <1>4, <1>5, <1>6, <1>7, <1>8 DEF Expected

-----------------------------------------------------------------------------
(***************************************************************************)
(* Where a port is in the file at each label, and what it has appended.    *)
(***************************************************************************)
InLoop(k) ==
  out = Begun /\ (p <= k \/ (p > Size /\ port.colon = "inkey"))

InColon(k, c) ==
  /\ out = Begun /\ port.colon \in {"checked", "unchecked"}
  /\ k < p /\ p <= c

InTabs(k, c, s) ==
  /\ out = Begun
  /\ \/ port.colon = "inkey" /\ c <= Len(disk_buffer) /\ c < p /\ p <= s
     \/ port.colon = "assumed" /\ k < p /\ p <= c

InSpaces(k, c, s) ==
  /\ out = Begun
  /\ \/ /\ port.colon = "passed"
        /\ k + 4 <= p /\ (s <= Len(disk_buffer) => p <= s)
     \/ /\ port.colon \in {"checked", "unchecked"} /\ port.skip = "white"
        /\ c <= Len(disk_buffer) /\ c < p /\ p <= s

InRest(s) ==
  /\ out = Begun /\ port.first = "copied"
  /\ IF s <= Len(disk_buffer) THEN p = s ELSE p > Size

InStore(s, e) ==
  IF s <= Len(disk_buffer)
    THEN s <= p /\ p <= e + 1 /\ Len(out) = 1 + (p - s)
    ELSE p > Size

Reached(k, c, s, e) ==
  /\ pc = "find_loop" => InLoop(k)
  /\ pc = "find_colon" => InColon(k, c)
  /\ pc = "skip_tabs" => InTabs(k, c, s)
  /\ pc = "skip_spaces" => InSpaces(k, c, s)
  /\ pc = "copy_rest" => InRest(s)
  /\ pc = "store_loop" => InStore(s, e)

\* Without the key a port does not leave its loop but for the end.
Searching ==
  /\ pc \in {"find_loop", "done", "lost"}
  /\ pc = "find_loop" => out = Begun

Labels == {"find_loop", "find_colon", "skip_tabs", "skip_spaces",
           "copy_rest", "store_loop", "done", "lost"}

GrabTypes ==
  /\ port \in Ports /\ end \in Bytes /\ disk_buffer \in Seq(Bytes)
  /\ Len(disk_buffer) <= Size
  /\ p \in Nat \ {0}
  /\ out \in Seq(Readable)
  /\ pc \in Labels

GrabInv ==
  /\ GrabTypes
  /\ Suits(port, end, disk_buffer)
  /\ IF KeyOf(disk_buffer) = 0 THEN Searching
     ELSE \A k, c, s \in Nat : \A e :
            Layout(k, c, s, e) => Reached(k, c, s, e)

LEMMA GrabInitial == ASSUME JobsSuit PROVE Init => GrabInv
<1> SUFFICES ASSUME Init PROVE GrabInv
  OBVIOUS
<1>1. PICK job \in Jobs : /\ port = job.port
                          /\ end = job.end
                          /\ disk_buffer = job.file
  BY DEF Init
<1>2. p = 1 /\ out = Begun /\ pc = "find_loop"
  BY DEF Init
<1>3. Begun \in Seq(Readable)
  BY DEF Begun, Readable, Bytes, Letters
<1>4. GrabTypes
  BY <1>1, <1>2, <1>3 DEF GrabTypes, Labels
<1>5. Suits(port, end, disk_buffer)
  BY <1>1 DEF JobsSuit
<1>6. Searching
  BY <1>2 DEF Searching
<1>7. ASSUME NEW k \in Nat, NEW c \in Nat, NEW s \in Nat, NEW e,
             Layout(k, c, s, e)
      PROVE  Reached(k, c, s, e)
  <2>1. k >= 1
    BY <1>7 DEF Layout
  <2>2. InLoop(k)
    BY <1>2, <2>1 DEF InLoop
  <2>3. QED
    BY <1>2, <2>2 DEF Reached
<1>8. QED
  BY <1>4, <1>5, <1>6, <1>7 DEF GrabInv

-----------------------------------------------------------------------------
(***************************************************************************)
(* The steps of a port.  A step that leaves the line alone moves the port  *)
(* to where the field is; one that does not, copies the next byte of it.   *)
(***************************************************************************)
Grabs(s, e) ==
  \/ out' = out
  \/ out = Begun /\ out' = Front(out)
  \/ /\ s <= Len(disk_buffer) /\ s <= p /\ p <= e
     /\ Len(out) = 1 + (p - s)
     /\ out' = Append(out, disk_buffer[p])

LEMMA ByteIs ==
  ASSUME GrabTypes, Byte(p) # "beyond"
  PROVE  /\ p <= Size
         /\ \/ /\ p <= Len(disk_buffer) /\ Byte(p) = disk_buffer[p]
               /\ Byte(p) \in Bytes
            \/ p > Len(disk_buffer) /\ Byte(p) = "nul"
<1>1. /\ disk_buffer \in Seq(Bytes) /\ p \in Nat \ {0} /\ Size \in Nat
      /\ Len(disk_buffer) <= Size
  BY DEF GrabTypes
<1>2. CASE p <= Len(disk_buffer)
  <2>1. Byte(p) = disk_buffer[p]
    BY <1>2 DEF Byte
  <2>2. disk_buffer[p] \in Bytes
    BY <1>1, <1>2
  <2>3. QED
    BY <1>1, <1>2, <2>1, <2>2
<1>3. CASE ~ (p <= Len(disk_buffer))
  <2>1. Byte(p) = IF p <= Size THEN "nul" ELSE "beyond"
    BY <1>3 DEF Byte
  <2>2. QED
    BY <1>1, <1>3, <2>1
<1>4. QED
  BY <1>2, <1>3

LEMMA FindLoopReaches ==
  ASSUME GrabTypes, NEW k \in Nat, NEW c \in Nat, NEW s \in Nat, NEW e,
         Layout(k, c, s, e), Expected(k, c, s, e), Reached(k, c, s, e),
         FindLoop
  PROVE  Reached(k, c, s, e)' /\ Grabs(s, e)
<1>1. /\ pc = "find_loop" /\ pc' = pc /\ p' = p + 1 /\ out' = out
      /\ disk_buffer' = disk_buffer /\ port' = port
      /\ Byte(p) # "beyond" /\ ~ Matches
  BY DEF FindLoop, given
<1>2. PICK n \in Nat : n = Len(disk_buffer)
  BY DEF GrabTypes
<1>3. /\ p \in Nat \ {0} /\ p <= Size /\ Size \in Nat
      /\ p <= n => Byte(p) = disk_buffer[p]
  BY <1>1, <1>2, ByteIs DEF GrabTypes
<1>4. out = Begun /\ p <= k
  BY <1>1, <1>3 DEF Reached, InLoop
<1>5. CASE p < k
  <2>1. p + 1 <= k
    BY <1>3, <1>5
  <2>2. InLoop(k)'
    BY <1>1, <1>4, <2>1 DEF InLoop, Begun
  <2>3. QED
    BY <1>1, <2>2 DEF Reached, Grabs
<1>6. CASE p = k
  <2>1. Byte(p) = "key"
    BY <1>2, <1>3, <1>6 DEF Layout
  <2>2. port.colon = "inkey" /\ Byte(k + 1) # "colon"
    BY <1>1, <1>6, <2>1 DEF Matches
  <2>3. c = k + 1
    BY <2>2 DEF Expected
  <2>4. c > n
    <3>1. c <= n => Byte(c) = disk_buffer[c] /\ disk_buffer[c] = "colon"
      BY <1>2 DEF Layout, Byte
    <3>2. QED
      BY <2>2, <2>3, <3>1
  <2>5. n = Size /\ k = n
    BY <1>2, <2>3, <2>4 DEF Layout, Expected
  <2>6. InLoop(k)'
    BY <1>1, <1>4, <1>6, <2>2, <2>5 DEF InLoop, Begun
  <2>7. QED
    BY <1>1, <2>6 DEF Reached, Grabs
<1>7. QED
  BY <1>3, <1>4, <1>5, <1>6

LEMMA MatchReaches ==
  ASSUME GrabTypes, NEW k \in Nat, NEW c \in Nat, NEW s \in Nat, NEW e,
         Layout(k, c, s, e), Expected(k, c, s, e), Reached(k, c, s, e),
         Match
  PROVE  Reached(k, c, s, e)' /\ Grabs(s, e)
<1>1. /\ pc = "find_loop" /\ Matches /\ out' = out
      /\ disk_buffer' = disk_buffer /\ port' = port
  BY DEF Match, given
<1>2. PICK n \in Nat : n = Len(disk_buffer)
  BY DEF GrabTypes
<1>3. Byte(p) = "key" /\ (port.colon = "inkey" => Byte(p + 1) = "colon")
  BY <1>1 DEF Matches
<1>4. /\ p \in Nat \ {0} /\ p <= n /\ Byte(p) = disk_buffer[p] /\ p <= Size
  BY <1>2, <1>3, ByteIs DEF GrabTypes
<1>5. out = Begun /\ p = k
  <2>1. out = Begun /\ p <= k
    BY <1>1, <1>4, JobsAssumption DEF Reached, InLoop
  <2>2. ~ (p \in 1 .. k-1)
    BY <1>3, <1>4 DEF Layout
  <2>3. QED
    BY <1>4, <2>1, <2>2
<1>6. out' = Begun /\ Begun' = Begun
  BY <1>1, <1>5 DEF Begun
<1>7. port.colon \in {"checked", "unchecked", "assumed", "inkey", "passed"}
  BY DEF GrabTypes, Ports
<1>8. k < c /\ c <= s
  BY DEF Layout
<1>9. CASE port.colon \in {"checked", "unchecked"}
  <2>1. p' = p + 1 /\ pc' = "find_colon"
    BY <1>9 DEF Match
  <2>2. InColon(k, c)'
    BY <1>1, <1>5, <1>6, <1>8, <1>9, <2>1 DEF InColon
  <2>3. QED
    BY <1>1, <2>1, <2>2 DEF Reached, Grabs
<1>10. CASE port.colon = "assumed"
  <2>1. p' = p + 1 /\ pc' = "skip_tabs"
    BY <1>10 DEF Match
  <2>2. InTabs(k, c, s)'
    BY <1>1, <1>5, <1>6, <1>8, <1>10, <2>1 DEF InTabs
  <2>3. QED
    BY <1>1, <2>1, <2>2 DEF Reached, Grabs
<1>11. CASE port.colon = "inkey"
  <2>1. p' = p + 2 /\ pc' = "skip_tabs"
    BY <1>11 DEF Match
  <2>2. c = k + 1
    BY <1>11 DEF Expected
  <2>3. c <= n
    <3>1. c > n => Byte(c) \in {"nul", "beyond"}
      BY <1>2 DEF Byte
    <3>2. Byte(c) = "colon"
      BY <1>3, <1>5, <1>11, <2>2
    <3>3. QED
      BY <1>2, <3>1, <3>2
  <2>4. c < s
    BY <1>2, <2>3 DEF Layout
  <2>5. InTabs(k, c, s)'
    BY <1>1, <1>2, <1>5, <1>6, <1>11, <2>1, <2>2, <2>3, <2>4 DEF InTabs
  <2>6. QED
    BY <1>1, <2>1, <2>5 DEF Reached, Grabs
<1>12. CASE port.colon = "passed"
  <2>1. p' = p + 4 /\ pc' = "skip_spaces"
    BY <1>12 DEF Match
  <2>2. InSpaces(k, c, s)'
    BY <1>1, <1>5, <1>6, <1>12, <2>1 DEF InSpaces, Expected, SkipsTo
  <2>3. QED
    BY <1>1, <2>1, <2>2 DEF Reached, Grabs
<1>13. QED
  BY <1>7, <1>9, <1>10, <1>11, <1>12

LEMMA NotFoundReaches ==
  ASSUME GrabTypes, NEW k \in Nat, NEW c \in Nat, NEW s \in Nat, NEW e,
         Layout(k, c, s, e), Expected(k, c, s, e), Reached(k, c, s, e),
         NotFound
  PROVE  Reached(k, c, s, e)' /\ Grabs(s, e)
<1>1. pc = "find_loop" /\ pc' = "done"
  BY DEF NotFound
<1>2. out = Begun
  BY <1>1 DEF Reached, InLoop
<1>3. out' = out \/ out' = Front(out)
  BY DEF NotFound
<1>4. QED
  BY <1>1, <1>2, <1>3 DEF Reached, Grabs

\* Where the copying begins.
LEMMA StoreBegins ==
  ASSUME GrabTypes, NEW k \in Nat, NEW c \in Nat, NEW s \in Nat, NEW e,
         Layout(k, c, s, e), out' = Begun, disk_buffer' = disk_buffer,
         IF s <= Len(disk_buffer) THEN p' = s ELSE p' > Size
  PROVE  InStore(s, e)'
<1>1. CASE s <= Len(disk_buffer)
  <2>1. e \in s-1 .. Len(disk_buffer) /\ Len(disk_buffer) \in Nat
    BY <1>1 DEF Layout, GrabTypes
  <2>2. Len(out') = 1
    BY DEF Begun
  <2>3. s <= s /\ s <= e + 1 /\ 1 = 1 + (s - s)
    BY <2>1
  <2>4. QED
    BY <1>1, <2>2, <2>3 DEF InStore
<1>2. CASE ~ (s <= Len(disk_buffer))
  BY <1>2 DEF InStore
<1>3. QED
  BY <1>1, <1>2

\* Behind the last byte of a file that ends without the field, nothing is
\* read.
LEMMA FieldAhead ==
  ASSUME GrabTypes, NEW k \in Nat, NEW c \in Nat, NEW s \in Nat, NEW e,
         Layout(k, c, s, e), Expected(k, c, s, e), Byte(p) # "beyond",
         p <= s
  PROVE  /\ p <= Len(disk_buffer)
         /\ Byte(p) = disk_buffer[p]
<1>1. PICK n \in Nat : n = Len(disk_buffer)
  BY DEF GrabTypes
<1>2. /\ p \in Nat \ {0} /\ p <= Size
      /\ p <= n => Byte(p) = disk_buffer[p]
  BY <1>1, ByteIs DEF GrabTypes
<1>3. s <= n \/ (s = n + 1 /\ n = Size)
  <2>1. s > n => n = Size
    BY <1>1 DEF Expected
  <2>2. s <= n + 1
    <3>1. s \in c .. Len(disk_buffer) + 1 /\ c \in k + 1 .. Len(disk_buffer) + 1
      BY DEF Layout
    <3>2. QED
      BY <1>1, <3>1
  <2>3. QED
    BY <2>1, <2>2
<1>4. p <= n
  BY <1>2, <1>3, JobsAssumption
<1>5. QED
  BY <1>1, <1>2, <1>4

LEMMA FindColonReaches ==
  ASSUME GrabTypes, NEW k \in Nat, NEW c \in Nat, NEW s \in Nat, NEW e,
         Layout(k, c, s, e), Expected(k, c, s, e), Reached(k, c, s, e),
         FindColon
  PROVE  Reached(k, c, s, e)' /\ Grabs(s, e)
<1>1. /\ pc = "find_colon" /\ Byte(p) # "beyond" /\ out' = out
      /\ disk_buffer' = disk_buffer /\ port' = port
  BY DEF FindColon, given
<1>2. PICK n \in Nat : n = Len(disk_buffer)
  BY DEF GrabTypes
<1>3. /\ out = Begun /\ k < p /\ p <= c
      /\ port.colon \in {"checked", "unchecked"}
  BY <1>1 DEF Reached, InColon
<1>4. out' = Begun /\ Begun' = Begun
  BY <1>1, <1>3 DEF Begun
<1>5. c <= s /\ p \in Nat
  BY DEF Layout, GrabTypes
<1>6. p <= n /\ Byte(p) = disk_buffer[p]
  BY <1>1, <1>2, <1>3, <1>5, FieldAhead
<1>7. CASE Byte(p) = "colon"
  <2>1. p = c
    <3>1. ~ (p \in k .. c-1)
      BY <1>6, <1>7 DEF Layout
    <3>2. QED
      BY <1>3, <1>5, <3>1
  <2>2. c <= n /\ c < s
    BY <1>2, <1>6, <2>1 DEF Layout
  <2>3. CASE port.skip = "white"
    <3>1. p' = p + 1 /\ pc' = "skip_spaces"
      BY <1>7, <2>3 DEF FindColon
    <3>2. InSpaces(k, c, s)'
      BY <1>1, <1>2, <1>3, <1>4, <2>1, <2>2, <2>3, <3>1 DEF InSpaces
    <3>3. QED
      BY <1>1, <3>1, <3>2 DEF Reached, Grabs
  <2>4. CASE port.skip # "white"
    <3>1. PICK d : d = IF port.skip = "one" THEN 2 ELSE 1
      OBVIOUS
    <3>2. p' = c + d
      BY <1>7, <2>1, <3>1 DEF FindColon
    <3>3. Far(c, s, d)
      BY <1>3, <2>4, <3>1 DEF Expected
    <3>4. IF s <= Len(disk_buffer) THEN p' = s ELSE p' > Size
      BY <3>2, <3>3 DEF Far
    <3>5. CASE port.first = "copied"
      <4>1. pc' = "copy_rest"
        BY <1>7, <2>4, <3>5 DEF FindColon
      <4>2. InRest(s)'
        BY <1>1, <1>4, <3>4, <3>5 DEF InRest
      <4>3. QED
        BY <1>1, <4>1, <4>2 DEF Reached, Grabs
    <3>6. CASE port.first # "copied"
      <4>1. pc' = "store_loop"
        BY <1>7, <2>4, <3>6 DEF FindColon
      <4>2. InStore(s, e)'
        BY <1>1, <1>4, <3>4, StoreBegins
      <4>3. QED
        BY <1>1, <4>1, <4>2 DEF Reached, Grabs
    <3>7. QED
      BY <3>5, <3>6
  <2>5. QED
    BY <2>3, <2>4
<1>8. CASE Byte(p) # "colon"
  <2>1. pc' = "done" \/ (p' = p + 1 /\ pc' = pc)
    BY <1>8 DEF FindColon
  <2>2. CASE pc' = "done"
    BY <1>1, <2>2 DEF Reached, Grabs
  <2>3. CASE p' = p + 1 /\ pc' = pc
    <3>1. p # c
      BY <1>2, <1>6, <1>8 DEF Layout
    <3>2. k < p + 1 /\ p + 1 <= c
      BY <1>3, <1>5, <3>1
    <3>3. InColon(k, c)'
      BY <1>1, <1>3, <1>4, <2>3, <3>2 DEF InColon
    <3>4. QED
      BY <1>1, <2>3, <3>3 DEF Reached, Grabs
  <2>4. QED
    BY <2>1, <2>2, <2>3
<1>9. QED
  BY <1>7, <1>8

LEMMA SkipTabsReaches ==
  ASSUME GrabTypes, NEW k \in Nat, NEW c \in Nat, NEW s \in Nat, NEW e,
         Layout(k, c, s, e), Expected(k, c, s, e), Reached(k, c, s, e),
         SkipTabs
  PROVE  Reached(k, c, s, e)' /\ Grabs(s, e)
<1>1. /\ pc = "skip_tabs" /\ Byte(p) # "beyond" /\ out' = out
      /\ disk_buffer' = disk_buffer /\ port' = port
  BY DEF SkipTabs, given
<1>2. PICK n \in Nat : n = Len(disk_buffer)
  BY DEF GrabTypes
<1>3. /\ out = Begun
      /\ \/ port.colon = "inkey" /\ c <= n /\ c < p /\ p <= s
         \/ port.colon = "assumed" /\ k < p /\ p <= c
  BY <1>1, <1>2 DEF Reached, InTabs
<1>4. out' = Begun /\ Begun' = Begun
  BY <1>1, <1>3 DEF Begun
<1>5. c <= s /\ p \in Nat
  BY DEF Layout, GrabTypes
<1>6. p <= n /\ Byte(p) = disk_buffer[p]
  BY <1>1, <1>2, <1>3, <1>5, FieldAhead
<1>7. CASE Byte(p) \in port.white
  <2>1. p' = p + 1 /\ pc' = pc
    BY <1>7 DEF SkipTabs
  <2>2. port.colon = "inkey" => p + 1 <= s
    <3>1. port.colon = "inkey" => p # s
      BY <1>2, <1>6, <1>7 DEF Expected, SkipsTo
    <3>2. QED
      BY <1>3, <1>5, <3>1
  <2>3. port.colon = "assumed" => p + 1 <= c
    <3>1. p # c
      <4>1. "colon" \notin port.white
        BY DEF GrabTypes, Ports, LowBytes
      <4>2. QED
        BY <1>2, <1>6, <1>7, <4>1 DEF Layout
    <3>2. QED
      BY <1>3, <1>5, <3>1
  <2>4. InTabs(k, c, s)'
    BY <1>1, <1>2, <1>3, <1>4, <1>5, <2>1, <2>2, <2>3 DEF InTabs
  <2>5. QED
    BY <1>1, <2>1, <2>4 DEF Reached, Grabs
<1>8. CASE Byte(p) \notin port.white
  <2>1. pc' = "store_loop"
    BY <1>8 DEF SkipTabs
  <2>2. CASE port.colon = "inkey"
    <3>1. p' = p
      BY <1>5, <1>8, <2>2 DEF SkipTabs
    <3>2. c < p /\ p <= s /\ c <= n
      BY <1>3, <2>2
    <3>3. ~ (p \in c+1 .. s-1)
      <4>1. Within(c + 1, s - 1, port.white)
        BY <2>2 DEF Expected, SkipsTo
      <4>2. QED
        BY <1>6, <1>8, <4>1 DEF Within
    <3>4. p = s
      BY <1>5, <3>2, <3>3
    <3>5. s <= Len(disk_buffer) /\ p' = s
      BY <1>2, <1>6, <3>1, <3>4
    <3>6. InStore(s, e)'
      BY <1>1, <1>4, <3>5, StoreBegins
    <3>7. QED
      BY <1>1, <2>1, <3>6 DEF Reached, Grabs
  <2>3. CASE port.colon = "assumed"
    <3>1. p' = p + 2
      BY <1>8, <2>3 DEF SkipTabs
    <3>2. k < p /\ p <= c
      BY <1>3, <2>3
    <3>3. Within(k + 1, c - 1, port.white) /\ Far(c, s, 2)
      BY <2>3 DEF Expected
    <3>4. ~ (p \in k+1 .. c-1)
      BY <1>6, <1>8, <3>3 DEF Within
    <3>5. p = c
      BY <1>5, <3>2, <3>4
    <3>6. IF s <= Len(disk_buffer) THEN p' = s ELSE p' > Size
      BY <3>1, <3>3, <3>5 DEF Far
    <3>7. InStore(s, e)'
      BY <1>1, <1>4, <3>6, StoreBegins
    <3>8. QED
      BY <1>1, <2>1, <3>7 DEF Reached, Grabs
  <2>4. QED
    BY <1>3, <2>2, <2>3
<1>9. QED
  BY <1>7, <1>8

LEMMA SkipSpacesReaches ==
  ASSUME GrabTypes, NEW k \in Nat, NEW c \in Nat, NEW s \in Nat, NEW e,
         Layout(k, c, s, e), Expected(k, c, s, e), Reached(k, c, s, e),
         SkipSpaces
  PROVE  Reached(k, c, s, e)' /\ Grabs(s, e)
<1>1. /\ pc = "skip_spaces" /\ Byte(p) # "beyond" /\ out' = out
      /\ disk_buffer' = disk_buffer /\ port' = port
  BY DEF SkipSpaces, given
<1>2. PICK n \in Nat : n = Len(disk_buffer)
  BY DEF GrabTypes
<1>3. /\ out = Begun
      /\ \/ port.colon = "passed" /\ k + 4 <= p /\ (s <= n => p <= s)
         \/ /\ port.colon \in {"checked", "unchecked"} /\ port.skip = "white"
            /\ c <= n /\ c < p /\ p <= s
  BY <1>1, <1>2 DEF Reached, InSpaces
<1>4. out' = Begun /\ Begun' = Begun
  BY <1>1, <1>3 DEF Begun
<1>5. /\ c <= s /\ p \in Nat /\ p <= Size /\ s <= n + 1
      /\ s > n => n = Size
  BY <1>1, <1>2, ByteIs DEF Layout, GrabTypes, Expected
<1>6. p <= n /\ Byte(p) = disk_buffer[p] /\ p <= s
  <2>1. p <= s
    BY <1>3, <1>5
  <2>2. QED
    BY <1>1, <1>2, <2>1, FieldAhead
<1>7. CASE Byte(p) \in port.white
  <2>1. p' = p + 1 /\ pc' = pc
    BY <1>7 DEF SkipSpaces
  <2>2. p # s
    <3>1. SUFFICES ASSUME p = s PROVE FALSE
      OBVIOUS
    <3>2. s <= Len(disk_buffer) /\ disk_buffer[s] \in port.white
      BY <1>2, <1>6, <1>7, <3>1
    <3>3. SkipsTo(k + 4, s) \/ SkipsTo(c + 1, s)
      BY <1>3 DEF Expected
    <3>4. QED
      BY <3>2, <3>3 DEF SkipsTo
  <2>3. p + 1 <= s
    BY <1>5, <1>6, <2>2
  <2>4. InSpaces(k, c, s)'
    BY <1>1, <1>2, <1>3, <1>4, <1>5, <2>1, <2>3 DEF InSpaces
  <2>5. QED
    BY <1>1, <2>1, <2>4 DEF Reached, Grabs
<1>8. CASE Byte(p) \notin port.white
  <2>1. p' = p /\ pc' = "store_loop"
    BY <1>8 DEF SkipSpaces
  <2>2. p = s
    <3>1. CASE port.colon = "passed"
      <4>1. Within(k + 4, s - 1, port.white)
        BY <3>1 DEF Expected, SkipsTo
      <4>2. ~ (p \in k+4 .. s-1)
        BY <1>6, <1>8, <4>1 DEF Within
      <4>3. QED
        BY <1>3, <1>5, <1>6, <3>1, <4>2
    <3>2. CASE /\ port.colon \in {"checked", "unchecked"}
               /\ port.skip = "white" /\ c < p
      <4>1. Within(c + 1, s - 1, port.white)
        BY <3>2 DEF Expected, SkipsTo
      <4>2. ~ (p \in c+1 .. s-1)
        BY <1>6, <1>8, <4>1 DEF Within
      <4>3. QED
        BY <1>5, <1>6, <3>2, <4>2
    <3>3. QED
      BY <1>3, <3>1, <3>2
  <2>3. s <= Len(disk_buffer) /\ p' = s
    BY <1>2, <1>6, <2>1, <2>2
  <2>4. InStore(s, e)'
    BY <1>1, <1>4, <2>3, StoreBegins
  <2>5. QED
    BY <1>1, <2>1, <2>4 DEF Reached, Grabs
<1>9. QED
  BY <1>7, <1>8

\* One more byte of the field.
LEMMA StoreGoesOn ==
  ASSUME GrabTypes, NEW k \in Nat, NEW c \in Nat, NEW s \in Nat, NEW e,
         Layout(k, c, s, e), s <= Len(disk_buffer), s <= p, p <= e,
         Len(out) = 1 + (p - s), out' = Append(out, disk_buffer[p]),
         p' = p + 1, disk_buffer' = disk_buffer
  PROVE  InStore(s, e)' /\ Grabs(s, e)
<1>1. PICK n \in Nat : n = Len(disk_buffer)
  BY DEF GrabTypes
<1>2. e \in s-1 .. n /\ p \in Nat
  BY <1>1 DEF Layout, GrabTypes
<1>3. Len(out') = Len(out) + 1
  BY DEF GrabTypes
<1>4. s <= p + 1 /\ p + 1 <= e + 1
  BY <1>2
<1>5. Len(out') = 1 + ((p + 1) - s)
  BY <1>2, <1>3
<1>6. InStore(s, e)'
  BY <1>4, <1>5 DEF InStore
<1>7. QED
  BY <1>6 DEF Grabs

LEMMA CopyRestReaches ==
  ASSUME GrabTypes, NEW k \in Nat, NEW c \in Nat, NEW s \in Nat, NEW e,
         Layout(k, c, s, e), Expected(k, c, s, e), Reached(k, c, s, e),
         CopyRest
  PROVE  Reached(k, c, s, e)' /\ Grabs(s, e)
<1>1. /\ pc = "copy_rest" /\ Byte(p) # "beyond" /\ pc' = "store_loop"
      /\ disk_buffer' = disk_buffer /\ p' = p + 1
      /\ out' = Append(out, Byte(p))
  BY DEF CopyRest, given
<1>2. PICK n \in Nat : n = Len(disk_buffer)
  BY DEF GrabTypes
<1>3. /\ out = Begun /\ port.first = "copied"
      /\ IF s <= n THEN p = s ELSE p > Size
  BY <1>1, <1>2 DEF Reached, InRest
<1>4. /\ p \in Nat /\ p <= Size /\ Size \in Nat
      /\ p <= n => Byte(p) = disk_buffer[p]
  BY <1>1, <1>2, ByteIs DEF GrabTypes
<1>5. s <= n /\ p = s
  BY <1>3, <1>4
<1>6. s <= e
  BY <1>2, <1>3, <1>5 DEF Expected
<1>7. Len(out) = 1 + (p - s)
  <2>1. Len(out) = 1
    BY <1>3 DEF Begun
  <2>2. QED
    BY <1>5, <2>1
<1>8. out' = Append(out, disk_buffer[p])
  BY <1>1, <1>4, <1>5
<1>9. InStore(s, e)' /\ Grabs(s, e)
  BY <1>1, <1>2, <1>5, <1>6, <1>7, <1>8, StoreGoesOn
<1>10. QED
  BY <1>1, <1>9 DEF Reached

LEMMA StoreLoopReaches ==
  ASSUME GrabTypes, NEW k \in Nat, NEW c \in Nat, NEW s \in Nat, NEW e,
         Layout(k, c, s, e), Expected(k, c, s, e), Reached(k, c, s, e),
         StoreLoop
  PROVE  Reached(k, c, s, e)' /\ Grabs(s, e)
<1>1. pc = "store_loop" /\ Byte(p) # "beyond" /\ disk_buffer' = disk_buffer
  BY DEF StoreLoop, given
<1>2. PICK n \in Nat : n = Len(disk_buffer)
  BY DEF GrabTypes
<1>3. IF s <= n THEN s <= p /\ p <= e + 1 /\ Len(out) = 1 + (p - s)
                ELSE p > Size
  BY <1>1, <1>2 DEF Reached, InStore
<1>4. /\ p \in Nat /\ p <= Size /\ Size \in Nat
      /\ \/ p <= n /\ Byte(p) = disk_buffer[p]
         \/ p > n /\ Byte(p) = "nul"
  BY <1>1, <1>2, ByteIs DEF GrabTypes
<1>5. s <= n /\ s <= p /\ p <= e + 1 /\ Len(out) = 1 + (p - s)
  BY <1>3, <1>4
<1>6. e \in s-1 .. n
  BY <1>2, <1>5 DEF Layout
<1>7. CASE Byte(p) \in Stops
  <2>1. pc' = "done" /\ out' = out
    BY <1>7 DEF StoreLoop
  <2>2. QED
    BY <2>1 DEF Reached, Grabs
<1>8. CASE Byte(p) \notin Stops
  <2>1. out' = Append(out, Byte(p)) /\ p' = p + 1 /\ pc' = pc
    BY <1>8 DEF StoreLoop
  <2>2. p <= e
    <3>1. SUFFICES ASSUME p = e + 1 PROVE FALSE
      BY <1>4, <1>5, <1>6
    <3>2. CASE e < n
      <4>1. disk_buffer[e + 1] \in Stops
        BY <1>2, <1>5, <3>2 DEF Expected
      <4>2. Byte(p) = disk_buffer[e + 1]
        BY <1>4, <1>6, <3>1, <3>2
      <4>3. QED
        BY <1>8, <4>1, <4>2
    <3>3. CASE e = n
      <4>1. n = Size \/ "nul" \in port.stops
        BY <1>2, <1>5, <3>3 DEF Expected
      <4>2. p > n /\ Byte(p) = "nul"
        BY <1>4, <3>1, <3>3
      <4>3. QED
        BY <1>4, <1>8, <4>1, <4>2 DEF Stops
    <3>4. QED
      BY <1>6, <3>2, <3>3
  <2>3. out' = Append(out, disk_buffer[p])
    BY <1>4, <1>6, <2>1, <2>2
  <2>4. InStore(s, e)' /\ Grabs(s, e)
    BY <1>1, <1>2, <1>5, <2>1, <2>2, <2>3, StoreGoesOn
  <2>5. QED
    BY <1>1, <2>1, <2>4 DEF Reached
<1>9. QED
  BY <1>7, <1>8

-----------------------------------------------------------------------------
(***************************************************************************)
(* What has been appended, as the line grows.                              *)
(***************************************************************************)
LEMMA NothingFound == SubSeq(Begun, 2, 1) = << >> /\ Front(Begun) = << >>
BY DEF Begun, Front

LEMMA FoundGrows ==
  ASSUME NEW S, NEW line \in Seq(S), NEW b \in S, Len(line) >= 1
  PROVE  SubSeq(Append(line, b), 2, Len(line) + 1)
           = Append(SubSeq(line, 2, Len(line)), b)
<1>1. PICK n \in Nat : n = Len(line)
  OBVIOUS
<1>2. PICK longer : longer = Append(line, b)
  OBVIOUS
<1>3. /\ longer \in Seq(S) /\ Len(longer) = n + 1
      /\ \A i \in 1 .. n : longer[i] = line[i]
      /\ longer[n + 1] = b
  BY <1>1, <1>2, AppendProperties
<1>4. PICK t : t = SubSeq(line, 2, n)
  OBVIOUS
<1>5. t \in Seq(S) /\ Len(t) = n - 1 /\ \A i \in 1 .. n-1 : t[i] = line[i + 1]
  <2>1. \A i \in 2 .. n : line[i] \in S
    BY <1>1
  <2>2. /\ SubSeq(line, 2, n) \in Seq(S)
        /\ Len(SubSeq(line, 2, n)) = IF 2 <= n THEN n - 2 + 1 ELSE 0
        /\ \A i \in 1 .. n-2+1 : SubSeq(line, 2, n)[i] = line[2 + i - 1]
    BY <1>1, <2>1, SubSeqProperties
  <2>3. \A i \in 1 .. n-1 : t[i] = line[2 + i - 1] /\ 2 + i - 1 = i + 1
    BY <1>1, <1>4, <2>2
  <2>4. QED
    BY <1>1, <1>4, <2>2, <2>3
<1>6. PICK u : u = SubSeq(longer, 2, n + 1)
  OBVIOUS
<1>7. u \in Seq(S) /\ Len(u) = n /\ \A i \in 1 .. n : u[i] = longer[i + 1]
  <2>1. \A i \in 2 .. n+1 : longer[i] \in S
    BY <1>1, <1>3
  <2>2. /\ SubSeq(longer, 2, n + 1) \in Seq(S)
        /\ Len(SubSeq(longer, 2, n + 1)) =
             IF 2 <= n + 1 THEN n + 1 - 2 + 1 ELSE 0
        /\ \A i \in 1 .. n+1-2+1 :
             SubSeq(longer, 2, n + 1)[i] = longer[2 + i - 1]
    BY <1>1, <2>1, SubSeqProperties
  <2>3. \A i \in 1 .. n : u[i] = longer[2 + i - 1] /\ 2 + i - 1 = i + 1
    BY <1>1, <1>6, <2>2
  <2>4. QED
    BY <1>1, <1>6, <2>2, <2>3
<1>8. /\ Append(t, b) \in Seq(S) /\ Len(Append(t, b)) = n
      /\ \A i \in 1 .. n-1 : Append(t, b)[i] = t[i]
      /\ Append(t, b)[n] = b
  <2>1. (n - 1) + 1 = n
    BY <1>1
  <2>2. QED
    BY <1>5, <2>1, AppendProperties
<1>9. ASSUME NEW i \in 1 .. n PROVE u[i] = Append(t, b)[i]
  <2>1. u[i] = longer[i + 1]
    BY <1>7
  <2>2. CASE i = n
    BY <1>3, <1>8, <2>1, <2>2
  <2>3. CASE i # n
    <3>1. i \in 1 .. n-1 /\ i + 1 \in 1 .. n
      BY <1>1, <2>3
    <3>2. longer[i + 1] = line[i + 1] /\ Append(t, b)[i] = line[i + 1]
      BY <1>3, <1>5, <1>8, <3>1
    <3>3. QED
      BY <2>1, <3>2
  <2>4. QED
    BY <2>2, <2>3
<1>10. u = Append(t, b)
  BY <1>7, <1>8, <1>9, SeqEqual
<1>11. QED
  BY <1>1, <1>2, <1>4, <1>6, <1>10

\* What is wanted is the field.
LEMMA WantedIs ==
  ASSUME GrabTypes, NEW k \in Nat, NEW c \in Nat, NEW s \in Nat, NEW e,
         Layout(k, c, s, e), s <= Len(disk_buffer)
  PROVE  /\ Wanted \in Seq(Bytes)
         /\ Len(Wanted) = (e - s) + 1
         /\ \A i \in 1 .. (e - s) + 1 : Wanted[i] = disk_buffer[(s + i) - 1]
<1>1. PICK n \in Nat : n = Len(disk_buffer)
  BY DEF GrabTypes
<1>2. e \in s-1 .. n /\ s >= 1
  BY <1>1 DEF Layout
<1>3. StartOf(disk_buffer) = s /\ LastOf(disk_buffer, end) = e
  BY DEF Layout
<1>4. Wanted = SubSeq(disk_buffer, s, e)
  BY <1>2, <1>3 DEF Wanted, Field
<1>5. \A i \in s .. e : disk_buffer[i] \in Bytes
  BY <1>1, <1>2 DEF GrabTypes
<1>6. /\ SubSeq(disk_buffer, s, e) \in Seq(Bytes)
      /\ Len(SubSeq(disk_buffer, s, e)) = IF s <= e THEN e - s + 1 ELSE 0
      /\ \A i \in 1 .. e-s+1 :
           SubSeq(disk_buffer, s, e)[i] = disk_buffer[s + i - 1]
  BY <1>2, <1>5, SubSeqProperties
<1>7. Len(Wanted) = (e - s) + 1
  BY <1>2, <1>4, <1>6
<1>8. ASSUME NEW i \in 1 .. (e - s) + 1
      PROVE  Wanted[i] = disk_buffer[(s + i) - 1]
  BY <1>2, <1>4, <1>6
<1>9. QED
  BY <1>4, <1>6, <1>7, <1>8

\* A step that grabs is a step of the abstract copying, or none.
LEMMA GrabsDelivers ==
  ASSUME GrabTypes, NEW k \in Nat, NEW c \in Nat, NEW s \in Nat, NEW e,
         Layout(k, c, s, e), Grabs(s, e), Wanted' = Wanted
  PROVE  [Copy!Next]_<<Wanted, Found>>
<1>1. CASE out' = out
  BY <1>1 DEF Found, Begun
<1>2. CASE out = Begun /\ out' = Front(out)
  <2>1. Found = SubSeq(Begun, 2, 1)
    BY <1>2 DEF Found, Begun
  <2>2. Found' = SubSeq(<< >>, 2, 0)
    BY <1>2, NothingFound DEF Found, Begun
  <2>3. SubSeq(<< >>, 2, 0) = << >>
    OBVIOUS
  <2>4. QED
    BY <2>1, <2>2, <2>3, NothingFound
<1>3. CASE /\ s <= Len(disk_buffer) /\ s <= p /\ p <= e
           /\ Len(out) = 1 + (p - s)
           /\ out' = Append(out, disk_buffer[p])
  <2>1. PICK n \in Nat : n = Len(disk_buffer)
    BY DEF GrabTypes
  <2>2. /\ e \in s-1 .. n /\ p \in Nat /\ p \in 1 .. n
        /\ disk_buffer[p] \in Readable
    <3>1. e \in s-1 .. n
      BY <1>3, <2>1 DEF Layout
    <3>2. p \in Nat \ {0} /\ p <= n
      BY <1>3, <2>1, <3>1 DEF GrabTypes
    <3>3. disk_buffer[p] \in Bytes
      BY <2>1, <3>2 DEF GrabTypes
    <3>4. QED
      BY <3>1, <3>2, <3>3 DEF Readable
  <2>3. PICK m \in Nat : m = Len(out)
    BY DEF GrabTypes
  <2>4. Found = SubSeq(out, 2, m) /\ Found' = SubSeq(out', 2, m + 1)
    <3>1. Len(out') = m + 1
      BY <1>3, <2>2, <2>3 DEF GrabTypes
    <3>2. QED
      BY <2>3, <3>1 DEF Found, Begun
  <2>5. m = 1 + (p - s) /\ m >= 1
    BY <1>3, <2>2, <2>3
  <2>6. Found' = Append(Found, disk_buffer[p])
    BY <1>3, <2>2, <2>3, <2>4, <2>5, FoundGrows DEF GrabTypes
  <2>7. Len(Found) = p - s
    <3>1. \A i \in 2 .. m : out[i] \in Readable
      BY <2>3 DEF GrabTypes
    <3>2. Len(SubSeq(out, 2, m)) = IF 2 <= m THEN m - 2 + 1 ELSE 0
      BY <2>3, <3>1, SubSeqProperties
    <3>3. QED
      BY <2>2, <2>3, <2>4, <2>5, <3>2
  <2>8. /\ Len(Wanted) = (e - s) + 1
        /\ \A i \in 1 .. (e - s) + 1 : Wanted[i] = disk_buffer[(s + i) - 1]
    BY <1>3, WantedIs
  <2>9. (p - s) + 1 \in 1 .. (e - s) + 1 /\ (s + ((p - s) + 1)) - 1 = p
    BY <1>3, <2>2
  <2>10. Wanted[(p - s) + 1] = disk_buffer[p]
    BY <2>8, <2>9
  <2>11. Len(Found) < Len(Wanted)
    BY <1>3, <2>2, <2>7, <2>8
  <2>12. Found' = Append(Found, Wanted[Len(Found) + 1])
    BY <2>6, <2>7, <2>10
  <2>13. Copy!Deliver
    BY <2>11, <2>12 DEF Copy!Deliver
  <2>14. QED
    BY <2>13 DEF Copy!Next
<1>4. QED
  BY <1>1, <1>2, <1>3 DEF Grabs

-----------------------------------------------------------------------------
(***************************************************************************)
(* GrabInv is kept, and every step of a port is one of the copying.        *)
(***************************************************************************)
LEMMA GivenKept ==
  ASSUME Next
  PROVE  port' = port /\ end' = end /\ disk_buffer' = disk_buffer
BY DEF Next, given, FindLoop, Match, NotFound, FindColon, SkipTabs,
       SkipSpaces, CopyRest, StoreLoop, RunPast

LEMMA LayoutKept ==
  ASSUME NEW k, NEW c, NEW s, NEW e, end' = end, disk_buffer' = disk_buffer
  PROVE  Layout(k, c, s, e)' <=> Layout(k, c, s, e)
BY DEF Layout

LEMMA RunPastReaches ==
  ASSUME NEW k, NEW c, NEW s, NEW e, RunPast
  PROVE  Reached(k, c, s, e)' /\ Grabs(s, e)
BY DEF RunPast, Reached, Grabs

LEMMA NextReaches ==
  ASSUME GrabTypes, NEW k \in Nat, NEW c \in Nat, NEW s \in Nat, NEW e,
         Layout(k, c, s, e), Expected(k, c, s, e), Reached(k, c, s, e),
         Next
  PROVE  Reached(k, c, s, e)' /\ Grabs(s, e)
BY FindLoopReaches, MatchReaches, NotFoundReaches, FindColonReaches,
   SkipTabsReaches, SkipSpacesReaches, CopyRestReaches, StoreLoopReaches,
   RunPastReaches DEF Next

\* Without the key the port does not match.
LEMMA SearchGoesOn ==
  ASSUME GrabTypes, KeyOf(disk_buffer) = 0, Searching, Next
  PROVE  /\ Searching'
         /\ \/ out' = out
            \/ out = Begun /\ out' = Front(out)
<1>1. \A i \in 1 .. Len(disk_buffer) : disk_buffer[i] # "key"
  <2>1. Where(disk_buffer, {"key"}, 1) = 0
    BY DEF KeyOf
  <2>2. QED
    BY <2>1, WhereIsFirst DEF GrabTypes
<1>2. CASE FindLoop
  <2>1. pc = "find_loop" /\ pc' = pc /\ out' = out
    BY <1>2 DEF FindLoop
  <2>2. QED
    BY <2>1 DEF Searching, Begun
<1>3. CASE Match
  <2>1. Byte(p) = "key"
    BY <1>3 DEF Match, Matches
  <2>2. p \in 1 .. Len(disk_buffer) /\ Byte(p) = disk_buffer[p]
    BY <2>1, ByteIs DEF GrabTypes
  <2>3. QED
    BY <1>1, <2>1, <2>2
<1>4. CASE NotFound
  <2>1. pc = "find_loop" /\ pc' = "done" /\ out' \in {out, Front(out)}
    BY <1>4 DEF NotFound
  <2>2. QED
    BY <2>1 DEF Searching
<1>5. CASE RunPast
  <2>1. pc' = "lost" /\ out' = out
    BY <1>5 DEF RunPast
  <2>2. QED
    BY <2>1 DEF Searching
<1>6. CASE FindColon \/ SkipTabs \/ SkipSpaces \/ CopyRest \/ StoreLoop
  BY <1>6 DEF FindColon, SkipTabs, SkipSpaces, CopyRest, StoreLoop, Searching
<1>7. QED
  BY <1>2, <1>3, <1>4, <1>5, <1>6 DEF Next

LEMMA TypesKept ==
  ASSUME GrabTypes, Next,
         \/ out' = out
         \/ out' = Append(out, Byte(p))
         \/ out = Begun /\ out' = Front(out)
  PROVE  GrabTypes'
<1>1. port' = port /\ end' = end /\ disk_buffer' = disk_buffer
  BY GivenKept
<1>2. p' \in Nat \ {0}
  <2>1. p \in Nat \ {0}
    BY DEF GrabTypes
  <2>2. \/ p' = p \/ p' = p + 1 \/ p' = p + 2 \/ p' = p + 4
        \/ p' = p + 0
    BY DEF Next, FindLoop, Match, NotFound, FindColon, SkipTabs,
           SkipSpaces, CopyRest, StoreLoop, RunPast
  <2>3. QED
    BY <2>1, <2>2
<1>3. pc' \in Labels
  BY DEF GrabTypes, Labels, Next, FindLoop, Match, NotFound, FindColon,
         SkipTabs, SkipSpaces, CopyRest, StoreLoop, RunPast
<1>4. out' \in Seq(Readable)
  <2>1. CASE out' = out
    BY <2>1 DEF GrabTypes
  <2>2. CASE out' = Append(out, Byte(p))
    <3>1. out \in Seq(Readable) /\ Byte(p) \in Readable
      BY ByteReadable DEF GrabTypes
    <3>2. QED
      BY <2>2, <3>1
  <2>3. CASE out = Begun /\ out' = Front(out)
    <3>1. out' = << >>
      BY <2>3, NothingFound
    <3>2. QED
      BY <3>1
  <2>4. QED
    BY <2>1, <2>2, <2>3
<1>5. QED
  BY <1>1, <1>2, <1>3, <1>4 DEF GrabTypes

LEMMA GrabInductive ==
  ASSUME GrabInv, Next
  PROVE  GrabInv' /\ [Copy!Next]_<<Wanted, Found>>
<1>1. GrabTypes /\ Suits(port, end, disk_buffer)
  BY DEF GrabInv
<1>2. port' = port /\ end' = end /\ disk_buffer' = disk_buffer
  BY GivenKept
<1>3. Wanted' = Wanted
  BY <1>2 DEF Wanted
<1>4. Suits(port, end, disk_buffer)'
  BY <1>1, <1>2
<1>5. CASE KeyOf(disk_buffer) = 0
  <2>1. /\ Searching'
        /\ \/ out' = out
           \/ out = Begun /\ out' = Front(out)
    BY <1>1, <1>5, SearchGoesOn DEF GrabInv
  <2>2. GrabTypes'
    BY <1>1, <2>1, TypesKept
  <2>3. KeyOf(disk_buffer') = 0
    BY <1>2, <1>5
  <2>4. GrabInv'
    BY <1>4, <2>1, <2>2, <2>3 DEF GrabInv
  <2>5. Found' = Found
    <3>1. CASE out' = out
      BY <3>1 DEF Found, Begun
    <3>2. CASE out = Begun /\ out' = Front(out)
      <4>1. Found = << >>
        BY <3>2, NothingFound DEF Found, Begun
      <4>2. out' = << >>
        BY <3>2, NothingFound
      <4>3. Found' = << >>
        BY <4>2 DEF Found, Begun
      <4>4. QED
        BY <4>1, <4>3
    <3>3. QED
      BY <2>1, <3>1, <3>2
  <2>6. QED
    BY <1>3, <2>4, <2>5
<1>6. CASE KeyOf(disk_buffer) # 0
  <2>1. PICK k \in Nat, c \in Nat, s \in Nat : \E e : Layout(k, c, s, e)
    BY <1>1, <1>6, LayoutFound DEF GrabTypes
  <2>2. PICK e : Layout(k, c, s, e)
    BY <2>1
  <2>3. Expected(k, c, s, e)
    BY <1>1, <2>2, FileExpected DEF GrabTypes
  <2>4. Reached(k, c, s, e)
    BY <1>6, <2>2 DEF GrabInv
  <2>5. Reached(k, c, s, e)' /\ Grabs(s, e)
    BY <1>1, <2>2, <2>3, <2>4, NextReaches
  <2>6. [Copy!Next]_<<Wanted, Found>>
    BY <1>1, <1>3, <2>2, <2>5, GrabsDelivers
  <2>7. GrabTypes'
    <3>1. \/ out' = out
          \/ out' = Append(out, Byte(p))
          \/ out = Begun /\ out' = Front(out)
      <4>1. CASE out' = out \/ (out = Begun /\ out' = Front(out))
        BY <4>1
      <4>2. CASE /\ s <= Len(disk_buffer) /\ p <= e
                 /\ out' = Append(out, disk_buffer[p])
        <5>1. e \in s-1 .. Len(disk_buffer)
          BY <2>2, <4>2 DEF Layout
        <5>2. p <= Len(disk_buffer)
          BY <1>1, <4>2, <5>1 DEF GrabTypes
        <5>3. QED
          BY <4>2, <5>2 DEF Byte
      <4>3. QED
        BY <2>5, <4>1, <4>2 DEF Grabs
    <3>2. QED
      BY <1>1, <3>1, TypesKept
  <2>8. ASSUME NEW kk \in Nat, NEW cc \in Nat, NEW ss \in Nat, NEW ee,
               Layout(kk, cc, ss, ee)'
        PROVE  Reached(kk, cc, ss, ee)'
    <3>1. Layout(kk, cc, ss, ee)
      BY <1>2, <2>8, LayoutKept
    <3>2. kk = k /\ cc = c /\ ss = s /\ ee = e
      BY <2>2, <3>1 DEF Layout
    <3>3. QED
      BY <2>5, <3>2
  <2>9. KeyOf(disk_buffer') # 0
    BY <1>2, <1>6
  <2>10. GrabInv'
    BY <1>4, <2>7, <2>8, <2>9 DEF GrabInv
  <2>11. QED
    BY <2>6, <2>10
<1>7. QED
  BY <1>5, <1>6

LEMMA GrabStutters ==
  ASSUME GrabInv, UNCHANGED vars
  PROVE  GrabInv' /\ UNCHANGED <<Wanted, Found>>
<1>1. /\ port' = port /\ end' = end /\ disk_buffer' = disk_buffer
      /\ p' = p /\ out' = out /\ pc' = pc
  BY DEF vars
<1>2. Wanted' = Wanted /\ Found' = Found
  BY <1>1 DEF Wanted, Found, Begun
<1>3. GrabInv'
  BY <1>1 DEF GrabInv, GrabTypes, Searching, Begun, Layout, Reached, InLoop,
              InColon, InTabs, InSpaces, InRest, InStore
<1>4. QED
  BY <1>2, <1>3

LEMMA NothingYet == ASSUME JobsSuit, Init PROVE Copy!Init
<1>1. GrabTypes
  BY GrabInitial DEF GrabInv
<1>2. Found = << >>
  BY NothingFound DEF Init, Found, Begun
<1>3. Wanted \in Seq(Bytes)
  <2>1. CASE StartOf(disk_buffer) = 0
    BY <2>1 DEF Wanted, Field
  <2>2. CASE StartOf(disk_buffer) # 0
    <3>1. KeyOf(disk_buffer) # 0
      BY <2>2 DEF StartOf, ColonOf
    <3>2. PICK k \in Nat, c \in Nat, s \in Nat : \E e : Layout(k, c, s, e)
      BY <1>1, <3>1, LayoutFound DEF GrabTypes
    <3>3. PICK e : Layout(k, c, s, e)
      BY <3>2
    <3>4. s <= Len(disk_buffer)
      BY <2>2, <3>3 DEF Layout
    <3>5. QED
      BY <1>1, <3>3, <3>4, WantedIs
  <2>3. QED
    BY <2>1, <2>2
<1>4. QED
  BY <1>2, <1>3 DEF Copy!Init

\* Where the file suits the port, whatever it tests and skips, the line gets
\* the bytes of the field, in order, and no others.
THEOREM GrabsField == ASSUME JobsSuit PROVE Spec => FieldGrabbed
<1>1. Init => GrabInv /\ Copy!Init
  BY GrabInitial, NothingYet
<1>2. GrabInv /\ [Next]_vars => GrabInv' /\ [Copy!Next]_<<Wanted, Found>>
  BY GrabInductive, GrabStutters
<1>3. Spec => Copy!Init /\ [][Copy!Next]_<<Wanted, Found>>
  BY <1>1, <1>2, PTL DEF Spec
<1>4. QED
  BY <1>3 DEF FieldGrabbed, Copy!SafeSpec, Copy!vars
=============================================================================
