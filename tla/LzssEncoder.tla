----------------------------- MODULE LzssEncoder ----------------------------
(***************************************************************************)
(* lzss_encode_better, the compressor that ansi_compress runs over the     *)
(* ANSI logo.                                                              *)
(*                                                                         *)
(* text_buf holds the last N bytes of the file, F of them still to be      *)
(* coded, and repeats its first F-1 cells behind its end so that strings   *)
(* can be compared without wrapping.  The strings that start in the window *)
(* are the nodes of binary search trees, one tree per first byte: node x   *)
(* is the string text_buf[x..x+F-1].  Inserting the string at r finds the  *)
(* longest match on the way.  A step of the model is an iteration of a     *)
(* loop of the program; InsertNode and DeleteNode return where pc left.    *)
(***************************************************************************)
EXTENDS LzssWire

CONSTANTS
  FrequentChar,   \* the byte text_buf is cleared with
  Texts           \* the files

ASSUME FileAssumption ==
  /\ FrequentChar \in Byte
  /\ Texts \subseteq Seq(Byte)

VARIABLES
  text,             \* the file being compressed
  read,             \* how many bytes of it getc has returned
  c,                \* what getc returned last
  text_buf,         \* the ring buffer, with its first F-1 cells repeated
  lson, rson, dad,  \* the search trees
  match_position,
  match_length,
  node, p, cmp,     \* InsertNode: the node, the one it is compared with, how
  q,                \* DeleteNode: the node that takes the place of s
  s, r,             \* the cell the next byte replaces; the string to code
  len,              \* bytes in text_buf still to be coded
  last,             \* last_match_length
  i,                \* counts the loops of the main function
  code,             \* code_buf[0 .. code_buf_ptr-1]
  mask,             \* the flag of the next unit
  outfile,          \* the bytes written to the logo
  pc,               \* the loop the program is in
  ret               \* the loop InsertNode returns to

treeVars == <<lson, rson, dad>>
matchVars == <<match_position, match_length, node, p, cmp>>
codeVars == <<code, mask, outfile>>
scanVars == <<read, c, text_buf, s, r, len>>
vars == <<text, read, c, text_buf, lson, rson, dad, match_position,
          match_length, node, p, cmp, q, s, r, len, last, i, code, mask,
          outfile, pc, ret>>

-----------------------------------------------------------------------------
EOF == ByteValues               \* what getc returns at the end
NIL == N                        \* binary_search_index: no node
Root(b) == N + 1 + b            \* the tree of the strings that begin with b

Nodes == 0 .. N-1
Links == 0 .. N                 \* the domain of lson and dad
Roots == { Root(b) : b \in Byte }
RLinks == 0 .. N + ByteValues   \* the domain of rson, roots included
Positions == 0 .. N+F-2         \* the domain of text_buf

Least(a, b) == IF a < b THEN a ELSE b

\* Definitions named Bug_... are variants of the definition that follows them
\* with a mistake in it.  They are used to see that the properties notice.
Bug_SuccUnmasked(x) == x + 1

\* (x + 1) & (N - 1)
Succ(x) == (x + 1) % N

\* The comparison loop of InsertNode: where it stops, looking at 1 .. F-1 ...
FirstDifference(x, y) ==
  CHOOSE k \in 1..F :
    /\ \A j \in 1 .. k-1 : text_buf[x + j] = text_buf[y + j]
    /\ k < F => text_buf[x + k] # text_buf[y + k]

\* ... and the sign it leaves in cmp.
Compare(x, y) ==
  LET k == FirstDifference(x, y)
  IN  IF k = F THEN 0 ELSE text_buf[x + k] - text_buf[y + k]

-----------------------------------------------------------------------------
\* The call of InsertNode for the string at x of the buffer tb.
CallInsert(x, tb, back) ==
  /\ node' = x
  /\ p' = Root(tb[x])
  /\ cmp' = 1
  /\ rson' = [rson EXCEPT ![x] = NIL]
  /\ lson' = [lson EXCEPT ![x] = NIL]
  /\ match_length' = 0
  /\ pc' = "insert"
  /\ ret' = back

\* The child of p the walk turns to.
Child == IF cmp >= 0 THEN rson[p] ELSE lson[p]

\* The walk falls off the tree: the node becomes a leaf there.
InsertLeaf ==
  /\ pc = "insert"
  /\ Child = NIL
  /\ IF cmp >= 0
       THEN /\ rson' = [rson EXCEPT ![p] = node]
            /\ UNCHANGED lson
       ELSE /\ lson' = [lson EXCEPT ![p] = node]
            /\ UNCHANGED rson
  /\ dad' = [dad EXCEPT ![node] = p]
  /\ pc' = ret
  /\ UNCHANGED <<text, scanVars, matchVars, q, last, i, codeVars, ret>>

\* The last match is kept, longest or not.
Bug_InsertWalkLast ==
  /\ pc = "insert"
  /\ Child # NIL
  /\ LET k == FirstDifference(node, Child)
     IN  /\ k < F \/ k <= match_length
         /\ p' = Child
         /\ cmp' = Compare(node, Child)
         /\ match_length' = k
         /\ match_position' = Child
  /\ UNCHANGED <<text, scanVars, treeVars, node, q, last, i, codeVars, pc, ret>>

\* The walk goes down to a string that is not the whole match.
InsertWalk ==
  /\ pc = "insert"
  /\ Child # NIL
  /\ LET k == FirstDifference(node, Child)
     IN  /\ k < F \/ k <= match_length
         /\ p' = Child
         /\ cmp' = Compare(node, Child)
         /\ match_length' = IF k > match_length THEN k ELSE match_length
         /\ match_position' = IF k > match_length THEN Child
                                                  ELSE match_position
  /\ UNCHANGED <<text, scanVars, treeVars, node, q, last, i, codeVars, pc, ret>>

\* x is left with the link to its parent.
Bug_TakesPlaceKeepDad(x, y, ls, rs, d) ==
  /\ rson' = IF rs[d[x]] = x THEN [rs EXCEPT ![d[x]] = y] ELSE rs
  /\ lson' = IF rs[d[x]] = x THEN ls ELSE [ls EXCEPT ![d[x]] = y]
  /\ dad' = d

\* y takes the place of x under the parent of x, in the given pointers, as at
\* the end of both InsertNode and DeleteNode.
TakesPlace(x, y, ls, rs, d) ==
  /\ rson' = IF rs[d[x]] = x THEN [rs EXCEPT ![d[x]] = y] ELSE rs
  /\ lson' = IF rs[d[x]] = x THEN ls ELSE [ls EXCEPT ![d[x]] = y]
  /\ dad' = [d EXCEPT ![x] = NIL]

\* The children change sides.
Bug_InsertReplaceSwapped ==
  /\ pc = "insert"
  /\ Child # NIL
  /\ FirstDifference(node, Child) = F
  /\ F > match_length
  /\ match_position' = Child
  /\ match_length' = F
  /\ p' = Child
  /\ cmp' = 0
  /\ LET x == Child
     IN  TakesPlace(x, node,
                    [lson EXCEPT ![node] = rson[x]],
                    [rson EXCEPT ![node] = lson[x]],
                    [dad EXCEPT ![node] = dad[x],
                                ![lson[x]] = node,
                                ![rson[x]] = node])
  /\ pc' = ret
  /\ UNCHANGED <<text, scanVars, node, q, last, i, codeVars, ret>>

\* The strings agree in all F bytes: the node replaces the older one, which
\* would be deleted sooner.
InsertReplace ==
  /\ pc = "insert"
  /\ Child # NIL
  /\ FirstDifference(node, Child) = F
  /\ F > match_length
  /\ match_position' = Child
  /\ match_length' = F
  /\ p' = Child
  /\ cmp' = 0
  /\ LET x == Child
     IN  TakesPlace(x, node,
                    [lson EXCEPT ![node] = lson[x]],
                    [rson EXCEPT ![node] = rson[x]],
                    [dad EXCEPT ![node] = dad[x],
                                ![lson[x]] = node,
                                ![rson[x]] = node])
  /\ pc' = ret
  /\ UNCHANGED <<text, scanVars, node, q, last, i, codeVars, ret>>

-----------------------------------------------------------------------------
\* DeleteNode(s).  y, already out of its old place, takes that of s.
DeleteBy(y, ls, rs, d) ==
  /\ TakesPlace(s, y, ls, rs, [d EXCEPT ![y] = d[s]])
  /\ pc' = "advance"

DeleteFrame ==
  UNCHANGED <<text, scanVars, matchVars, last, i, codeVars, ret>>

\* s is not in a tree: it never was, or a newer string replaced it.
DeleteAbsent ==
  /\ pc = "delete"
  /\ dad[s] = NIL
  /\ pc' = "advance"
  /\ UNCHANGED <<treeVars, q>> /\ DeleteFrame

\* s has one child or none.
DeleteNarrow ==
  /\ pc = "delete"
  /\ dad[s] # NIL
  /\ rson[s] = NIL \/ lson[s] = NIL
  /\ q' = IF rson[s] = NIL THEN lson[s] ELSE rson[s]
  /\ DeleteBy(q', lson, rson, dad)
  /\ DeleteFrame

\* s has two children.  The left one takes its place if it has no right child.
DeleteLeft ==
  /\ pc = "delete"
  /\ dad[s] # NIL
  /\ rson[s] # NIL /\ lson[s] # NIL
  /\ rson[lson[s]] = NIL
  /\ q' = lson[s]
  /\ DeleteBy(q', lson, [rson EXCEPT ![q'] = rson[s]],
              [dad EXCEPT ![rson[s]] = q'])
  /\ DeleteFrame

\* The walk does not leave the first node.
Bug_DescendStuck ==
  /\ \/ /\ pc = "delete"
        /\ dad[s] # NIL
        /\ rson[s] # NIL /\ lson[s] # NIL
        /\ rson[lson[s]] # NIL
        /\ q' = rson[lson[s]]
     \/ /\ pc = "descend"
        /\ rson[q] # NIL
        /\ q' = q
  /\ pc' = "descend"
  /\ UNCHANGED treeVars /\ DeleteFrame

\* Otherwise the walk goes down to the right ...
DeleteDescend ==
  /\ \/ /\ pc = "delete"
        /\ dad[s] # NIL
        /\ rson[s] # NIL /\ lson[s] # NIL
        /\ rson[lson[s]] # NIL
        /\ q' = rson[lson[s]]
     \/ /\ pc = "descend"
        /\ rson[q] # NIL
        /\ q' = rson[q]
  /\ pc' = "descend"
  /\ UNCHANGED treeVars /\ DeleteFrame

\* ... to the predecessor of s, which leaves its child in its own place.
DeletePredecessor ==
  /\ pc = "descend"
  /\ rson[q] = NIL
  /\ LET rs == [rson EXCEPT ![dad[q]] = lson[q]]
         d1 == [dad EXCEPT ![lson[q]] = dad[q]]
         d2 == [d1 EXCEPT ![lson[s]] = q]
     IN  DeleteBy(q, [lson EXCEPT ![q] = lson[s]],
                  [rs EXCEPT ![q] = rs[s]],
                  [d2 EXCEPT ![rs[s]] = q])
  /\ UNCHANGED q
  /\ DeleteFrame

-----------------------------------------------------------------------------
\* The state when the first F bytes have been read into the end of the buffer.
Init ==
  /\ text \in Texts
  /\ read = Least(F, Len(text))
  /\ len = read
  /\ c = IF len < F THEN EOF ELSE text[F]
  /\ text_buf = [x \in Positions |->
                   IF x < N - F THEN FrequentChar
                   ELSE IF x < N - F + len THEN text[x - (N - F) + 1] ELSE 0]
  /\ lson = [x \in Links |-> 0]
  /\ rson = [x \in RLinks |-> IF x \in Roots THEN NIL ELSE 0]
  /\ dad = [x \in Links |-> IF x \in Nodes THEN NIL ELSE 0]
  /\ match_position = 0 /\ match_length = 0
  /\ node = 0 /\ p = 0 /\ cmp = 0 /\ q = 0
  /\ s = 0
  /\ r = N - F
  /\ last = 0
  /\ i = 1
  /\ code = <<0>>
  /\ mask = 1
  /\ outfile = << >>
  /\ pc = IF len = 0 THEN "done" ELSE "prime"
  /\ ret = "prime"

\* The strings before r are inserted, the nearest first, and then that at r.
Prime ==
  /\ pc = "prime"
  /\ \/ /\ i <= F
        /\ CallInsert(r - i, text_buf, "prime")
        /\ i' = i + 1
     \/ /\ i > F
        /\ CallInsert(r, text_buf, "encode")
        /\ UNCHANGED i
  /\ UNCHANGED <<text, scanVars, dad, match_position, q, last, codeVars>>

-----------------------------------------------------------------------------
\* The match is not cut at the end of the text.
Bug_ClippedNot == match_length

\* The match found may reach beyond the end of the text.
Clipped == Least(match_length, len)

\* code_buf_ptr is not reset after a group.
Bug_EmitNoReset(flag, bytes) ==
  LET buf == [code EXCEPT ![1] = @ + flag * mask] \o bytes
  IN  IF 2 * mask = ByteValues
        THEN /\ outfile' = outfile \o buf
             /\ code' = [buf EXCEPT ![1] = 0]
             /\ mask' = 1
        ELSE /\ code' = buf
             /\ mask' = 2 * mask
             /\ UNCHANGED outfile

\* A unit of code is added; the eighth one completes the group.
Emit(flag, bytes) ==
  LET buf == [code EXCEPT ![1] = @ + flag * mask] \o bytes
  IN  IF 2 * mask = ByteValues
        THEN /\ outfile' = outfile \o buf
             /\ code' = <<0>>
             /\ mask' = 1
        ELSE /\ code' = buf
             /\ mask' = 2 * mask
             /\ UNCHANGED outfile

\* Not long enough a match: one byte is sent.
EncodeLiteral ==
  /\ Clipped <= Threshold
  /\ match_length' = 1
  /\ Emit(1, <<text_buf[r]>>)

EncodePair ==
  /\ Clipped > Threshold
  /\ match_length' = Clipped
  /\ Emit(0, PairBytes(match_position, Clipped))

Encode ==
  /\ pc = "encode"
  /\ EncodeLiteral \/ EncodePair
  /\ last' = match_length'
  /\ i' = 0
  /\ pc' = "shift"
  /\ UNCHANGED <<text, scanVars, treeVars, match_position, node, p, cmp, q,
                 ret>>

-----------------------------------------------------------------------------
\* The oldest string is not deleted.
Bug_ShiftNoDelete ==
  /\ pc = "shift"
  /\ i < last
  /\ IF read < Len(text)
       THEN /\ c' = text[read + 1]
            /\ read' = read + 1
       ELSE /\ c' = EOF
            /\ UNCHANGED read
  /\ pc' = "advance"
  /\ UNCHANGED <<text, text_buf, treeVars, matchVars, q, s, r, len, last, i,
                 codeVars, ret>>

\* The window moves on by the bytes just coded.  Each time a byte is asked of
\* the file and the oldest string is deleted ...
Shift ==
  /\ pc = "shift"
  /\ i < last
  /\ IF read < Len(text)
       THEN /\ c' = text[read + 1]
            /\ read' = read + 1
       ELSE /\ c' = EOF
            /\ UNCHANGED read
  /\ pc' = "delete"
  /\ UNCHANGED <<text, text_buf, treeVars, matchVars, q, s, r, len, last, i,
                 codeVars, ret>>

\* One cell too few is repeated behind the end.
Bug_AdvanceMirrorShort ==
  /\ pc = "advance"
  /\ c # EOF
  /\ text_buf' = [x \in Positions |->
                    IF x = s \/ (s < F - 2 /\ x = s + N) THEN c
                                                         ELSE text_buf[x]]
  /\ s' = Succ(s)
  /\ r' = Succ(r)
  /\ i' = i + 1
  /\ CallInsert(r', text_buf', "shift")
  /\ UNCHANGED <<text, read, c, dad, match_position, q, len, last, codeVars>>

\* ... then the byte takes its cell, and the next string is inserted.
AdvanceByte ==
  /\ pc = "advance"
  /\ c # EOF
  /\ text_buf' = [x \in Positions |->
                    IF x = s \/ (s < F - 1 /\ x = s + N) THEN c
                                                         ELSE text_buf[x]]
  /\ s' = Succ(s)
  /\ r' = Succ(r)
  /\ i' = i + 1
  /\ CallInsert(r', text_buf', "shift")
  /\ UNCHANGED <<text, read, c, dad, match_position, q, len, last, codeVars>>

\* At the end of the text the buffer only empties.
AdvanceEnd ==
  /\ pc = "advance"
  /\ c = EOF
  /\ s' = Succ(s)
  /\ r' = Succ(r)
  /\ i' = i + 1
  /\ len' = len - 1
  /\ \/ /\ len' # 0
        /\ CallInsert(r', text_buf, "shift")
     \/ /\ len' = 0
        /\ pc' = "shift"
        /\ UNCHANGED <<lson, rson, match_length, node, p, cmp, ret>>
  /\ UNCHANGED <<text, read, c, text_buf, dad, match_position, q, last,
                 codeVars>>

\* All bytes of the last unit are replaced: the next unit, or the end.
Shifted ==
  /\ pc = "shift"
  /\ i >= last
  /\ pc' = IF len > 0 THEN "encode" ELSE "flush"
  /\ UNCHANGED <<text, scanVars, treeVars, matchVars, q, last, i, codeVars,
                 ret>>

\* The last group is sent with the units it has.
Flush ==
  /\ pc = "flush"
  /\ outfile' = IF Len(code) > 1 THEN outfile \o code ELSE outfile
  /\ pc' = "done"
  /\ UNCHANGED <<text, scanVars, treeVars, matchVars, q, last, i, code, mask,
                 ret>>

-----------------------------------------------------------------------------
InsertNode == InsertLeaf \/ InsertWalk \/ InsertReplace

DeleteNode ==
  \/ DeleteAbsent \/ DeleteNarrow \/ DeleteLeft
  \/ DeleteDescend \/ DeletePredecessor

Next ==
  \/ Prime \/ InsertNode \/ DeleteNode
  \/ Encode \/ Shift \/ AdvanceByte \/ AdvanceEnd \/ Shifted \/ Flush

SafeSpec == Init /\ [][Next]_vars

\* The compressor is one process that runs to its end.
Spec == SafeSpec /\ WF_vars(Next)

-----------------------------------------------------------------------------
TypeOK ==
  /\ text \in Seq(Byte)
  /\ read \in 0 .. Len(text)
  /\ c \in 0 .. EOF
  /\ text_buf \in [Positions -> Byte]
  /\ lson \in [Links -> Links]
  /\ rson \in [RLinks -> Links]
  /\ dad \in [Links -> RLinks]
  /\ match_position \in Nodes
  /\ match_length \in 0..F
  /\ node \in Nodes /\ p \in RLinks
  /\ cmp \in -(ByteValues - 1) .. ByteValues - 1
  /\ q \in Links
  /\ s \in Nodes /\ r \in Nodes
  /\ len \in 0..F
  /\ last \in 0..F
  /\ i \in 0..F+1
  /\ code \in Seq(Byte)
  /\ mask \in 1 .. ByteValues - 1
  /\ outfile \in Seq(Byte)
  /\ pc \in {"prime", "insert", "encode", "shift", "delete", "descend",
             "advance", "flush", "done"}
  /\ ret \in {"prime", "encode", "shift"}

(***************************************************************************)
(* code_buf[8*2+1] holds a group: "eight units require at most 16 bytes".  *)
(* The property relates the flags still to come to the bytes in code_buf.  *)
(***************************************************************************)
UnitsIn(m) == CHOOSE u \in 0 .. ByteBits-1 : 2^u = m

CodeBufFits ==
  LET u == UnitsIn(mask)
  IN  /\ Len(code) <= 2 * ByteBits + 1
      /\ Len(code) \in u + 1 .. 2*u + 1

InTree(x) == dad[x] # NIL

(***************************************************************************)
(* The links of the trees agree: every string in a tree is the child, on   *)
(* exactly one side, of its dad, and a dad of its children, and the root   *)
(* of its tree is that of its first byte.  A root has no left pointer, so  *)
(* only this keeps DeleteNode from writing lson[] out of its bounds.       *)
(***************************************************************************)
LinksAgree ==
  \A x \in Nodes : InTree(x) =>
    /\ dad[x] \in Roots => dad[x] = Root(text_buf[x]) /\ rson[dad[x]] = x
    /\ dad[x] \in Nodes =>
         InTree(dad[x]) /\ ((lson[dad[x]] = x) # (rson[dad[x]] = x))
    /\ \A y \in {lson[x], rson[x]} \ {NIL} : dad[y] = x

\* The node where the walk of InsertNode for the string at x is after k steps.
WalkOf(x) ==
  LET walk[k \in 0..N] ==
        IF k = 0 THEN rson[Root(text_buf[x])]
        ELSE LET y == walk[k-1]
             IN  IF y \in {x, NIL} THEN y
                 ELSE IF Compare(x, y) >= 0 THEN rson[y] ELSE lson[y]
  IN  walk

(***************************************************************************)
(* Every string in a tree is found by a search for it: insertions and      *)
(* deletions keep the trees in order, and nothing overwrites the bytes of  *)
(* a string while it is in one ("Delete old strings and read new bytes").  *)
(***************************************************************************)
TreesFindable ==
  pc \in {"encode", "advance"} =>
    \A x \in Nodes : InTree(x) => WalkOf(x)[N] = x

\* How far the cell x lies behind the string to code.
Behind(x) == IF x < r THEN r - x ELSE r - x + N

\* Byte number k of the file; the buffer starts out as if FrequentChar had
\* come before it.
Source(k) == IF k >= 1 THEN text[k] ELSE FrequentChar

\* The number of bytes of the file coded so far, between two units.
Coded == read - len

(***************************************************************************)
(* text_buf is a window on the file: before r what has been coded, from r  *)
(* on what is still to be coded, and its first F-1 cells are repeated      *)
(* behind its end wherever a string that has to be compared reaches.       *)
(***************************************************************************)
WindowIsText ==
  pc = "encode" =>
    /\ \A x \in Nodes : Behind(x) <= N - F =>
         text_buf[x] = Source(Coded + 1 - Behind(x))
    /\ \A k \in 0 .. len-1 :
         /\ text_buf[(r + k) % N] = text[Coded + 1 + k]
         /\ text_buf[r + k] = text[Coded + 1 + k]

\* How many of the next n bytes of the text agree with the window from x on.
Agreement(x, n) ==
  CHOOSE k \in 0..n :
    /\ \A j \in 1..k : text[Coded + j] = Source(Coded + j - Behind(x))
    /\ k < n => text[Coded + k + 1] # Source(Coded + k + 1 - Behind(x))

(***************************************************************************)
(* When a unit is coded, the match InsertNode reports is one: it starts in *)
(* the window, not in the cells being refilled, and the bytes to be coded  *)
(* agree with it for exactly as many bytes as are reported.                *)
(***************************************************************************)
MatchFound ==
  pc = "encode" /\ Clipped > 0 =>
    /\ Behind(match_position) <= N - F
    /\ Agreement(match_position, len) = Clipped

(***************************************************************************)
(* What InsertNode "returns [is] the longest-match position and length":   *)
(* nothing in the window agrees with more of the bytes to be coded.        *)
(***************************************************************************)
LongestOfWindow ==
  pc = "encode" =>
    \A x \in Nodes : Behind(x) <= N - F => Agreement(x, len) <= Clipped

(***************************************************************************)
(* That holds of the strings that begin in the file: the node that takes   *)
(* the place of an equal one is the nearer one, which leaves later.  Of    *)
(* the strings of FrequentChar that come before the file, the farthest     *)
(* takes the place of the others, because Prime inserts it last, and they  *)
(* are lost when it leaves the window.                                     *)
(***************************************************************************)
LongestMatch ==
  pc = "encode" =>
    \A x \in Nodes :
      Behind(x) <= N - F /\ (Behind(x) <= Coded \/ Coded + F <= N - F) =>
        Agreement(x, len) <= Clipped

(***************************************************************************)
(* The strings in the trees are those of the window: none is left there    *)
(* when its bytes are overwritten.                                         *)
(***************************************************************************)
NoStaleString ==
  \A x \in Nodes : InTree(x) /\ x # r => Behind(x) <= N - F

\* The compressor comes to an end, with the whole file read and coded.
Terminates == <>(pc = "done" /\ read = Len(text) /\ len = 0)

=============================================================================
