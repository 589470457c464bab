------------------------------- MODULE OldLzss ------------------------------
(***************************************************************************)
(* lzss.c, the compressor ansi_compress had before lzss_new.c: the trees   *)
(* of the strings in the ring buffer, the coding of one unit, and Decode.  *)
(*                                                                         *)
(* The globals and the locals of lzss_encode are the fields of one record, *)
(* e; an operator returns what e is after the function of its name.  A     *)
(* node of the trees is a cell of the ring; its string begins there.       *)
(***************************************************************************)
EXTENDS Integers, Sequences

CONSTANTS
  N,              \* cells of the ring
  F,              \* longest match
  THRESHOLD,      \* matches up to here are sent as bytes
  FREQUENT_CHAR   \* what the ring is cleared with

ASSUME RingAssumption ==
  /\ N \in Nat /\ F \in Nat /\ THRESHOLD \in Nat
  /\ THRESHOLD + 1 < F /\ F <= THRESHOLD + 16 /\ 2 * F <= N /\ N <= 4096
  /\ FREQUENT_CHAR \in 0..255

NIL == N

\* The first of 1..F-1 at which two strings of the buffer differ, F if none.
FirstDifference(buf, x, y) ==
  LET RECURSIVE From(_)
      From(i) == IF i = F \/ buf[x + i] # buf[y + i] THEN i ELSE From(i + 1)
  IN From(1)

\* The last lines of InsertNode and DeleteNode: x's parent gets y for x.
Relink(e, x, y) ==
  [(IF e.rson[e.dad[x]] = x THEN [e EXCEPT !.rson[e.dad[x]] = y]
                            ELSE [e EXCEPT !.lson[e.dad[x]] = y])
     EXCEPT !.dad[x] = NIL]

\* r in the place of p, which has the same string.
Replace(e, r, p) ==
  Relink([e EXCEPT !.lson[r] = e.lson[p], !.rson[r] = e.rson[p],
                   !.dad[r] = e.dad[p],
                   !.dad[e.lson[p]] = r, !.dad[e.rson[p]] = r], p, r)

\* The loop of InsertNode, at p with the result of its last comparison.
RECURSIVE Descend(_, _, _, _)
Descend(e, r, p, cmp) ==
  LET child == IF cmp >= 0 THEN e.rson[p] ELSE e.lson[p]
      i == FirstDifference(e.text_buf, r, child)
      best == IF i > e.match_length
              THEN [e EXCEPT !.match_position = child, !.match_length = i] ELSE e
  IN IF child = NIL
       THEN IF cmp >= 0 THEN [e EXCEPT !.rson[p] = r, !.dad[r] = p]
                        ELSE [e EXCEPT !.lson[p] = r, !.dad[r] = p]
     ELSE IF i >= F THEN Replace(best, r, child)
     ELSE Descend(best, r, child, e.text_buf[r + i] - e.text_buf[child + i])

InsertNode(e, r) ==
  Descend([e EXCEPT !.rson[r] = NIL, !.lson[r] = NIL, !.match_length = 0],
          r, N + 1 + e.text_buf[r], 1)

RECURSIVE Rightmost(_, _)
Rightmost(e, q) == IF e.rson[q] = NIL THEN q ELSE Rightmost(e, e.rson[q])

\* Forgets p's right subtree.
Bug_Heir(e, p) == << e, e.lson[p] >>

\* The node that takes p's place when p has two children, moved to the top of
\* p's left subtree, with p's right one below it.
Heir(e, p) ==
  LET q == Rightmost(e, e.lson[p])
      moved == IF q = e.lson[p] THEN e
               ELSE [e EXCEPT !.rson[e.dad[q]] = e.lson[q],
                              !.dad[e.lson[q]] = e.dad[q],
                              !.lson[q] = e.lson[p], !.dad[e.lson[p]] = q]
  IN << [moved EXCEPT !.rson[q] = e.rson[p], !.dad[e.rson[p]] = q], q >>

DeleteNode(e, p) ==
  LET h == IF e.rson[p] = NIL THEN << e, e.lson[p] >>
           ELSE IF e.lson[p] = NIL THEN << e, e.rson[p] >> ELSE Heir(e, p)
  IN IF e.dad[p] = NIL THEN e
     ELSE Relink([h[1] EXCEPT !.dad[h[2]] = e.dad[p]], p, h[2])

\* The strings before the text: they begin k cells before e.r, and then less.
RECURSIVE InsertBefore(_, _)
InsertBefore(e, k) == IF k > F THEN e ELSE InsertBefore(InsertNode(e, e.r - k), k + 1)

\* lzss_encode up to its loop, of a text that is not empty.
Start(text) ==
  LET r == N - F
      len == IF Len(text) < F THEN Len(text) ELSE F
      e == [ lson |-> [x \in 0..N |-> 0],
             rson |-> [x \in 0..(N + 256) |-> IF x > N THEN NIL ELSE 0],
             dad  |-> [x \in 0..N |-> IF x < N THEN NIL ELSE 0],
             text_buf |-> [x \in 0..(N + F - 2) |->
                             IF x < r THEN FREQUENT_CHAR
                             ELSE IF x < r + len THEN text[x - r + 1] ELSE 0],
             match_position |-> 0, match_length |-> 0,
             read |-> len, s |-> 0, r |-> r, len |-> len,
             code |-> << 0 >>, mask |-> 1, out |-> << >> ]
  IN InsertNode(InsertBefore(e, 1), r)

\* A turn of the loops at the end of a unit: with a byte of the file, or
\* without one when it has ended.
Slide(e, text) ==
  LET next == [DeleteNode(e, e.s) EXCEPT !.s = (@ + 1) % N, !.r = (@ + 1) % N]
      c == text[e.read + 1]
      filled == [next EXCEPT !.text_buf =
                   [x \in DOMAIN @ |-> IF x = e.s \/ (e.s < F - 1 /\ x = e.s + N)
                                       THEN c ELSE @[x]],
                   !.read = @ + 1]
      drained == [next EXCEPT !.len = @ - 1]
  IN IF e.read < Len(text) THEN InsertNode(filled, filled.r)
     ELSE IF drained.len # 0 THEN InsertNode(drained, drained.r) ELSE drained

\* The match, which may be spuriously long near the end of the text.
Matched(e) == IF e.match_length > e.len THEN e.len ELSE e.match_length

Bug_Pair(position, length) == << position % 256, length - (THRESHOLD + 1) >>

\* The second byte of a pair holds the rest of the position and the length.
Pair(position, length) ==
  << position % 256, ((position \div 256) % 16) * 16 + length - (THRESHOLD + 1) >>

Sent(e) ==
  IF Matched(e) <= THRESHOLD
  THEN [e EXCEPT !.match_length = 1,
                 !.code = Append([@ EXCEPT ![1] = @ + e.mask], e.text_buf[e.r])]
  ELSE [e EXCEPT !.match_length = Matched(e),
                 !.code = @ \o Pair(e.match_position, Matched(e))]

\* The mask is shifted out of its byte after eight units.
Flushed(e) ==
  IF e.mask = 128 THEN [e EXCEPT !.out = @ \o e.code, !.code = << 0 >>, !.mask = 1]
  ELSE [e EXCEPT !.mask = @ * 2]

RECURSIVE SlideOn(_, _, _)
SlideOn(e, text, n) == IF n = 0 THEN e ELSE SlideOn(Slide(e, text), text, n - 1)

\* The body of the loop: a unit is sent, and the window moves behind it.
Unit(e, text) ==
  LET sent == Flushed(Sent(e)) IN SlideOn(sent, text, sent.match_length)

\* The remaining code.
Rest(e) == IF Len(e.code) > 1 THEN [e EXCEPT !.out = @ \o e.code] ELSE e

-----------------------------------------------------------------------------
(* Decode, a byte at a time: want says which one is read next.             *)

Put(d, c) == [d EXCEPT !.out = Append(@, c), !.text_buf[d.r] = c, !.r = (@ + 1) % N]

RECURSIVE Copy(_, _, _)
Copy(d, from, n) ==
  IF n = 0 THEN d ELSE Copy(Put(d, d.text_buf[from % N]), from + 1, n - 1)

DecodeByte(d, c) ==
  LET flags == IF d.want = "unit" THEN d.flags \div 2 ELSE d.flags
  IN IF d.want = "second"
       THEN Copy([d EXCEPT !.want = "unit"], d.first + (c \div 16) * 256,
                 (c % 16) + THRESHOLD + 1)
     ELSE IF d.want = "unit" /\ (flags \div 256) % 2 = 0
       THEN [d EXCEPT !.flags = c + 65280, !.want = "item"]
     ELSE IF flags % 2 = 1 THEN Put([d EXCEPT !.flags = flags, !.want = "unit"], c)
     ELSE [d EXCEPT !.flags = flags, !.first = c, !.want = "second"]

RECURSIVE DecodeFrom(_, _, _)
DecodeFrom(d, bytes, k) ==
  IF k > Len(bytes) THEN d.out ELSE DecodeFrom(DecodeByte(d, bytes[k]), bytes, k + 1)

\* Only N-F cells of the buffer the encoder used too are cleared.
Decode(bytes, text_buf) ==
  LET d == [ text_buf |-> [x \in DOMAIN text_buf |->
                             IF x < N - F THEN FREQUENT_CHAR ELSE text_buf[x]],
             r |-> N - F, flags |-> 0, want |-> "unit", first |-> 0, out |-> << >> ]
  IN DecodeFrom(d, bytes, 1)

=============================================================================
