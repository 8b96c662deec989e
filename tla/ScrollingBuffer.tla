---------------------------- MODULE ScrollingBuffer ---------------------------
(***************************************************************************)
(* The scrolling buffer (src/util/Container/ScrollingBuffer.hpp): a vector *)
(* used as a ring, whose oldest value may have Padding unused cells before *)
(* it, and whose size can be changed, or made infinite, while it holds     *)
(* data.  It backs the plots, the polynomial regressor and the combiner,   *)
(* and should be the log of the last values that BoundedLog describes.     *)
(*                                                                         *)
(* buf.data is the vector, its cells counted from 0 as in the code.        *)
(***************************************************************************)
EXTENDS Integers, Sequences

CONSTANTS Value,    (* the values                                            *)
          NoValue,  (* what a cell without a value holds                     *)
          Padding,  (* _Padding                                              *)
          Users,    (* what a user of the buffer calls, and with which sizes *)
          MaxData   (* bound: cells of an infinite buffer                    *)

ASSUME BufferAssumption ==
  /\ NoValue \notin Value
  /\ Users \subseteq [ops : SUBSET {"push", "pop", "clear", "resize", "slide",
                                    "window", "narrow"},
                     sizes : SUBSET Nat]
  /\ Padding \in Nat /\ MaxData \in Nat

VARIABLES buf,  (* [infinite, max, start, end, data] *)
          user  (* the user of this buffer           *)

vars == <<buf, user>>

-------------------------------------------------------------------------------
(* Vectors. *)

Cells(n) == [i \in 1 .. n |-> NoValue]

(* erase(begin + i, begin + j), [i, j) counted from 0. *)
Erase(s, i, j) == SubSeq(s, 1, i) \o SubSeq(s, j + 1, Len(s))

(* The cells [i, j). *)
Part(s, i, j) == SubSeq(s, i + 1, j)

Least(x, y) == IF x <= y THEN x ELSE y
Greatest(x, y) == IF x >= y THEN x ELSE y

-------------------------------------------------------------------------------
(* Reading.                                                                    *)

SizeOf(b) ==
  CASE b.start = Padding /\ b.end = Padding -> Len(b.data) - Padding
    [] b.start < b.end                      -> b.end - b.start
    [] OTHER                                -> b.max - (b.start - b.end)

Empty(b) == SizeOf(b) = 0

Capacity(b) == IF b.infinite THEN 0 ELSE b.max - Padding

(* Mutant: the vector's last cell is taken for the last value. *)
BackCell_OfVector(b) == Len(b.data) - 1

(* The cell that at(i) reads. *)
CellOf(b, i) == IF b.start + i >= b.max THEN b.start + i - b.max ELSE b.start + i

Content(b) == [i \in 1 .. SizeOf(b) |-> b.data[CellOf(b, i - 1) + 1]]

(* The cells front() and back() read. *)
FrontCell(b) == b.start
BackCell(b) == IF Len(b.data) < b.max \/ b.end = 0 THEN Len(b.data) - 1
                                                   ELSE b.end - 1

IsScrolled(b) == \/ b.end = 0 /\ ~Empty(b)
                 \/ b.end < b.start
                 \/ b.start # Padding

-------------------------------------------------------------------------------
(* Changing.                                                                   *)

New(k) == [infinite |-> k = 0, max |-> k + Padding, start |-> Padding,
           end |-> IF k = 0 THEN 0 ELSE Padding, data |-> Cells(Padding)]

Cleared(b) == [b EXCEPT !.data = Cells(Padding), !.start = Padding,
                        !.end = IF b.infinite THEN 0 ELSE Padding]

(* Mutant: the oldest value is not given up when the ring is full. *)
Pushed_KeepsStart(b, v) ==
  IF b.infinite
  THEN [b EXCEPT !.data = Append(@, v), !.max = Len(b.data) + 1]
  ELSE IF Len(b.data) < b.max
  THEN [b EXCEPT !.data = Append(@, v), !.end = (@ + 1) % b.max]
  ELSE [b EXCEPT !.data[b.end + 1] = v, !.end = (@ + 1) % b.max]

Pushed(b, v) ==
  IF b.infinite
  THEN [b EXCEPT !.data = Append(@, v), !.max = Len(b.data) + 1]
  ELSE IF Len(b.data) < b.max
  THEN [b EXCEPT !.data = Append(@, v), !.end = (@ + 1) % b.max]
  ELSE [b EXCEPT !.data[b.end + 1] = v,
                 !.start = IF SizeOf(b) >= Capacity(b) THEN (@ + 1) % b.max ELSE @,
                 !.end = (@ + 1) % b.max]

Popped(b) ==
  CASE Empty(b)      -> b
    [] SizeOf(b) = 1 -> Cleared(b)
    [] SizeOf(b) > 1 /\ b.infinite
                     -> [b EXCEPT !.data = Tail(@), !.max = Len(b.data) - 1]
    [] OTHER         -> [b EXCEPT !.start = (@ + 1) % b.max]

(* resize(0): a scrolled buffer is put into the order of insertion. *)
Unbounded(b) ==
  IF ~IsScrolled(b) THEN [b EXCEPT !.infinite = TRUE]
  ELSE LET ahead == b.end > b.start
           last  == IF ahead THEN b.end ELSE b.max
           data  == (IF ahead THEN Part(b.data, b.end, Len(b.data)) ELSE <<>>)
                    \o Part(b.data, Greatest(b.start - Padding, 0), Greatest(b.end, last))
                    \o Part(b.data, 0, Greatest(0, Least(b.end, b.start - Padding)))
       IN [infinite |-> TRUE, max |-> Len(data), start |-> Padding, end |-> 0,
           data |-> data]

(* The steps by which a buffer is made smaller; left is what is still to go. *)
ShrinkStraight(b, k) ==
  LET back == Least(b.max - b.end, b.max - Padding - k)
      left == b.max - Padding - k - back
      max  == b.max - back
  IN [b EXCEPT !.max  = max - left,
               !.end  = IF back > 0 THEN @ % max ELSE @,
               !.data = Erase(@, b.start, b.start + left)]

(* Empty cells between the end and the padding before the start. *)
DropEmpty(b, left) ==
  LET n == Least(Greatest(b.start - Padding - b.end, 0), left) IN
  [b |-> [b EXCEPT !.data = Erase(@, b.end, b.end + n),
                   !.start = @ - n, !.max = @ - n],
   left |-> left - n]

(* Padding that lies at the end of the vector. *)
DropPadding(b, left) ==
  LET n == Least(Greatest(Padding - b.start, 0), left) IN
  IF n = 0 THEN [b |-> b, left |-> left]
  ELSE [b |-> [b EXCEPT !.data = Erase(@, b.end, b.end + n),
                        !.start = @ + n, !.max = @ - n,
                        !.end = @ % (b.max - n)],
        left |-> left - n]

(* The oldest values, up to the end of the vector. *)
DropBack(b, left) ==
  LET n == Least(b.max - b.start - (IF b.end > b.start THEN b.max - b.end ELSE 0),
                 left)
      max == b.max - n
  IN IF n = 0 THEN [b |-> b, left |-> left]
     ELSE [b |-> [b EXCEPT !.data = Erase(@, b.start - Padding, b.start - Padding + n),
                           !.max = max, !.start = @ % max,
                           !.end = (IF @ > max THEN @ - left ELSE @) % max],
           left |-> left - n]

(* And then values from the start of the vector. *)
DropFront(b, left) ==
  IF left = 0 THEN b
  ELSE [b EXCEPT !.data = Erase(@, b.start, Least(b.start + left, b.max - Padding)),
                 !.max = @ - left,
                 !.end = IF @ >= left THEN @ - left ELSE @]

ShrinkScrolled(b, k) ==
  LET s1 == DropEmpty(b, b.max - Padding - k)
      s2 == DropPadding(s1.b, s1.left)
      s3 == DropBack(s2.b, s2.left)
  IN DropFront(s3.b, s3.left)

(* A larger buffer: what lies behind the end moves to the end of the vector. *)
Grown(b, k) ==
  IF ~IsScrolled(b) THEN [b EXCEPT !.max = k + Padding]
  ELSE LET size == k + Padding
           data == SubSeq(b.data \o Cells(size), 1, size)
           tail == Part(data, b.end, b.max)
       IN [b EXCEPT !.data = SubSeq(data, 1, size - Len(tail)) \o tail,
                    !.start = IF b.start >= b.end THEN @ + (size - b.max) ELSE @,
                    !.max = size]

Resized(b, k) ==
  IF k = 0 THEN Unbounded(b)
  ELSE LET c == [b EXCEPT !.infinite = FALSE] IN
       CASE b.max - Padding > k /\ ~IsScrolled(b) -> ShrinkStraight(c, k)
         [] b.max - Padding > k /\ IsScrolled(b)  -> ShrinkScrolled(c, k)
         [] b.max - Padding < k                   -> Grown(c, k)
         [] OTHER                                 -> c

-------------------------------------------------------------------------------

Init == /\ user \in Users
        /\ \E k \in user.sizes : buf = New(k)

PushBack == /\ "push" \in user.ops
            /\ Len(buf.data) < MaxData
            /\ \E v \in Value : buf' = Pushed(buf, v)
            /\ UNCHANGED user

PopFront == /\ "pop" \in user.ops
            /\ buf' = Popped(buf)
            /\ UNCHANGED user

Clear == /\ "clear" \in user.ops
         /\ buf' = Cleared(buf)
         /\ UNCHANGED user

Resize == /\ "resize" \in user.ops
          /\ \E k \in user.sizes : buf' = Resized(buf, k)
          /\ UNCHANGED user

(* The polynomial regressor makes room before it pushes. *)
Slide == /\ "slide" \in user.ops
         /\ Len(buf.data) < MaxData
         /\ \E v \in Value :
              buf' = Pushed(IF SizeOf(buf) = Capacity(buf) THEN Popped(buf) ELSE buf, v)
         /\ UNCHANGED user

(* setWindowSize() of the regressor pops once for every point that the window  *)
(* becomes smaller, and then resizes the buffer.                               *)
Narrowed(b, k) ==
  IF k >= Capacity(b) THEN b
  ELSE LET popped[n \in Nat] == IF n = 0 THEN b ELSE Popped(popped[n - 1])
       IN popped[Capacity(b) - k]

SetWindowSize ==
  /\ "window" \in user.ops
  /\ \E k \in user.sizes :
       /\ "narrow" \in user.ops \/ k >= Capacity(buf)
       /\ buf' = Resized(Narrowed(buf, k), k)
  /\ UNCHANGED user

Next == PushBack \/ PopFront \/ Clear \/ Resize \/ Slide \/ SetWindowSize

Spec == Init /\ [][Next]_vars

-------------------------------------------------------------------------------
(* Correctness.                                                                *)

(* front() and back(), which look at the vector in ways of their own, agree    *)
(* with at() on the first and on the last value.                               *)
EndsAgree == ~Empty(buf) => /\ FrontCell(buf) = CellOf(buf, 0)
                            /\ BackCell(buf) = CellOf(buf, SizeOf(buf) - 1)

(* Through wrapping around, shrinking and growing the buffer is the log of the *)
(* last values, in the order in which they were pushed.                        *)
Log == INSTANCE BoundedLog WITH log <- Content(buf), cap <- Capacity(buf),
                                Size <- UNION {u.sizes : u \in Users}
IsLog == Log!Spec
===============================================================================
