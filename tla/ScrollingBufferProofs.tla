------------------------- MODULE ScrollingBufferProofs ------------------------
(***************************************************************************)
(* Proofs about ScrollingBuffer, for any values and any sizes: front() and *)
(* back() agree with at(), and the buffer implements BoundedLog, if no     *)
(* user both takes values away and changes the size (InOrder).             *)
(*                                                                         *)
(* The invariant is the shape of the ring.  A buffer without a limit is a  *)
(* plain vector; a limited one is filling up to its length, its end being  *)
(* the length of the vector, or round, every cell in use.  While nothing   *)
(* was taken away the ring has its free cells, if any, between the end and *)
(* the start (Uncut), and resize() relies on it: it erases and moves cells *)
(* at places it finds from the two indices alone.  The lemmas say, for     *)
(* each operation and each shape, which cell of the new vector holds the   *)
(* i-th value; the theorems follow from one lemma per action.              *)
(***************************************************************************)
EXTENDS ScrollingBuffer, SequenceTheorems, TLAPS

Cell == Value \cup {NoValue}

Buffer == [infinite : BOOLEAN, max : Nat, start : Nat, end : Nat, data : Seq(Cell)]

(* A buffer without a limit: the vector holds the values and nothing else.     *)
Unlimited(b) == /\ b.infinite
                /\ b.start = 0 /\ b.end = 0 /\ Len(b.data) <= b.max

(* The vector has not reached its length; its last cell is the last value.     *)
Filling(b) == /\ ~b.infinite
              /\ Len(b.data) < b.max /\ b.end = Len(b.data)
              /\ b.start < b.end \/ (b.start = 0 /\ b.end = 0)

(* The vector has its length, and is a ring from now on.                       *)
Round(b) == /\ ~b.infinite
            /\ Len(b.data) = b.max /\ b.start < b.max /\ b.end < b.max

(* Nothing was popped but to make room at once.                                *)
Uncut(b) == \/ Filling(b) /\ b.start = 0
            \/ Round(b) /\ b.end <= b.start

WellFormed(b) == Unlimited(b) \/ Filling(b) \/ Round(b)

-------------------------------------------------------------------------------
(* Sequences and remainders.                                                   *)

(* The next cell of a ring of m cells. *)
LEMMA Successor ==
  ASSUME NEW m \in Nat, NEW x \in Nat, x < m
  PROVE  (x + 1) % m = IF x + 1 = m THEN 0 ELSE x + 1
  OBVIOUS

(* An index that has at most reached the end of the ring. *)
LEMMA Remainder ==
  ASSUME NEW m \in Nat \ {0}, NEW x \in 0 .. m
  PROVE  x % m = IF x = m THEN 0 ELSE x
  OBVIOUS

(* A function on 1 .. n is a sequence of length n. *)
LEMMA FunctionIsSeq ==
  ASSUME NEW S, NEW n \in Nat, NEW f \in [1 .. n -> S]
  PROVE  f \in Seq(S) /\ Len(f) = n
  OBVIOUS

(* The last k elements. *)
LEMMA NewestFacts ==
  ASSUME NEW S, NEW s \in Seq(S), NEW k \in 0 .. Len(s)
  PROVE  /\ Log!Newest(s, k) \in Seq(S)
         /\ Len(Log!Newest(s, k)) = k
         /\ \A i \in 1 .. k : Log!Newest(s, k)[i] = s[Len(s) - k + i]
<1> \A i \in Len(s) - k + 1 .. Len(s) : s[i] \in S
  BY ElementOfSeq
<1> QED
  BY SubSeqProperties, SMTT(20) DEF Log!Newest

(* The types of the fields, without the record. *)
LEMMA Fields ==
  ASSUME NEW b \in Buffer
  PROVE  /\ b.max \in Nat /\ b.start \in Nat /\ b.end \in Nat
         /\ b.data \in Seq(Cell) /\ Len(b.data) \in Nat
  BY DEF Buffer

-------------------------------------------------------------------------------
(* What a buffer contains.                                                     *)

(* size(), for each shape of the buffer. *)
LEMMA Sizes ==
  ASSUME Padding = 0, NEW b \in Buffer, WellFormed(b)
  PROVE  /\ SizeOf(b) \in Nat
         /\ Unlimited(b) => SizeOf(b) = Len(b.data)
         /\ Filling(b) => SizeOf(b) = b.end - b.start
         /\ Round(b) => SizeOf(b) = IF b.start < b.end THEN b.end - b.start
                                    ELSE b.max - (b.start - b.end)
  BY DEF Buffer, WellFormed, Unlimited, Filling, Round, SizeOf

(* at(i) reads inside the vector. *)
LEMMA Cells_InData ==
  ASSUME Padding = 0, NEW b \in Buffer, WellFormed(b),
         NEW i \in 0 .. SizeOf(b) - 1
  PROVE  CellOf(b, i) \in 0 .. Len(b.data) - 1
<1>b. /\ b.max \in Nat /\ b.start \in Nat /\ b.end \in Nat /\ Len(b.data) \in Nat
      /\ SizeOf(b) \in Nat /\ i \in Nat /\ i < SizeOf(b)
  BY Fields, Sizes
<1>1. CASE Unlimited(b)
  <2>1. SizeOf(b) = Len(b.data)
    BY <1>1, Sizes
  <2> QED BY <2>1, <1>1, <1>b DEF Unlimited, CellOf
<1>2. CASE Filling(b)
  <2>1. SizeOf(b) = b.end - b.start
    BY <1>2, Sizes
  <2> QED BY <2>1, <1>2, <1>b DEF Filling, CellOf
<1>3. CASE Round(b)
  <2>1. SizeOf(b) <= b.max
    <3>1. SizeOf(b) = IF b.start < b.end THEN b.end - b.start
                      ELSE b.max - (b.start - b.end)
      BY <1>3, Sizes
    <3> QED BY <3>1, <1>3, <1>b DEF Round
  <2>2. Len(b.data) = b.max /\ b.start < b.max
    BY <1>3 DEF Round
  <2>3. CASE b.start + i >= b.max
    <3>1. CellOf(b, i) = b.start + i - b.max
      BY <2>3 DEF CellOf
    <3> QED BY <3>1, <2>1, <2>2, <2>3, <1>b
  <2>4. CASE ~(b.start + i >= b.max)
    <3>1. CellOf(b, i) = b.start + i
      BY <2>4 DEF CellOf
    <3> QED BY <3>1, <2>2, <2>4, <1>b
  <2> QED BY <2>3, <2>4
<1> QED BY <1>1, <1>2, <1>3 DEF WellFormed

(* The content is a sequence, as long as size() says. *)
LEMMA Contents ==
  ASSUME Padding = 0, NEW b \in Buffer, WellFormed(b)
  PROVE  /\ Content(b) \in Seq(Cell)
         /\ Len(Content(b)) = SizeOf(b)
         /\ \A i \in 1 .. SizeOf(b) : Content(b)[i] = b.data[CellOf(b, i - 1) + 1]
<1>1. SizeOf(b) \in Nat
  BY Sizes
<1>2. ASSUME NEW i \in 1 .. SizeOf(b) PROVE b.data[CellOf(b, i - 1) + 1] \in Cell
  <2>1. i - 1 \in 0 .. SizeOf(b) - 1
    BY <1>1
  <2>2. CellOf(b, i - 1) + 1 \in 1 .. Len(b.data)
    BY <2>1, Cells_InData DEF Buffer
  <2> QED BY <2>2, ElementOfSeq DEF Buffer
<1>3. Content(b) \in [1 .. SizeOf(b) -> Cell]
  BY <1>2 DEF Content
<1>4. Content(b) \in Seq(Cell) /\ Len(Content(b)) = SizeOf(b)
  BY <1>1, <1>3, FunctionIsSeq
<1> QED
  BY <1>4 DEF Content

(* Two buffers with the same values in the same order. *)
LEMMA ContentIs ==
  ASSUME Padding = 0, NEW b \in Buffer, WellFormed(b),
         NEW s \in Seq(Cell), Len(s) = SizeOf(b),
         \A i \in 1 .. SizeOf(b) : b.data[CellOf(b, i - 1) + 1] = s[i]
  PROVE  Content(b) = s
<1> \A i \in 1 .. SizeOf(b) : Content(b)[i] = s[i]
  BY Contents
<1> QED BY Contents, SeqEqual

-------------------------------------------------------------------------------
(* The operations of a buffer whose size is fixed.                             *)

(* clear() empties the buffer and keeps its shape and its capacity. *)
LEMMA ClearStep ==
  ASSUME Padding = 0, NEW b \in Buffer, WellFormed(b)
  PROVE  /\ Cleared(b) \in Buffer /\ WellFormed(Cleared(b))
         /\ Unlimited(b) => Unlimited(Cleared(b))
         /\ Filling(b) \/ Round(b) => Filling(Cleared(b)) /\ Cleared(b).start = 0
         /\ Capacity(Cleared(b)) = Capacity(b)
         /\ SizeOf(Cleared(b)) = 0
         /\ Content(Cleared(b)) = <<>>
<1> DEFINE c == Cleared(b)
<1>0. Cells(0) = <<>>
  BY DEF Cells
<1>1. c = [b EXCEPT !.data = <<>>, !.start = 0, !.end = 0]
  BY <1>0 DEF Cleared
<1>2. /\ c \in Buffer
      /\ c.infinite = b.infinite /\ c.max = b.max /\ c.start = 0 /\ c.end = 0
      /\ c.data = <<>> /\ Len(c.data) = 0
  <2> HIDE DEF c
  <2>1. <<>> \in Seq(Cell) /\ Len(<<>>) = 0 /\ 0 \in Nat
    BY EmptySeq
  <2> QED BY <1>1, <2>1 DEF Buffer
<1> HIDE DEF c
<1>b. b.max \in Nat /\ b.start \in Nat /\ b.end \in Nat /\ Len(b.data) \in Nat
  BY Fields
<1>3. /\ WellFormed(c)
      /\ Unlimited(b) => Unlimited(c)
      /\ Filling(b) \/ Round(b) => Filling(c)
      /\ Capacity(c) = Capacity(b)
  <2>1. Capacity(c) = Capacity(b)
    BY <1>2 DEF Capacity
  <2>2. Filling(b) \/ Round(b) => Filling(c)
    BY <1>2, <1>b DEF Filling, Round
  <2>3. Unlimited(b) => Unlimited(c)
    BY <1>2, <1>b DEF Unlimited
  <2> QED BY <2>1, <2>2, <2>3 DEF WellFormed
<1>4. SizeOf(c) = 0
  BY <1>2 DEF SizeOf
<1>5. Content(c) = <<>>
  <2>1. <<>> \in Seq(Cell) /\ Len(<<>>) = 0
    BY EmptySeq
  <2>2. \A i \in 1 .. SizeOf(c) : c.data[CellOf(c, i - 1) + 1] = <<>>[i]
    BY <1>4
  <2> HIDE DEF c
  <2> QED BY <1>2, <1>3, <1>4, <2>1, <2>2, ContentIs
<1> QED BY <1>2, <1>3, <1>4, <1>5 DEF c

(* The content after a value was appended. *)
LEMMA Longer ==
  ASSUME Padding = 0, NEW b \in Buffer, WellFormed(b), NEW v \in Value
  PROVE  /\ Append(Content(b), v) \in Seq(Cell)
         /\ Len(Append(Content(b), v)) = SizeOf(b) + 1
         /\ \A i \in 1 .. SizeOf(b) :
              Append(Content(b), v)[i] = b.data[CellOf(b, i - 1) + 1]
         /\ Append(Content(b), v)[SizeOf(b) + 1] = v
<1>1. v \in Cell
  BY DEF Cell
<1>2. /\ Content(b) \in Seq(Cell)
      /\ Len(Content(b)) = SizeOf(b)
      /\ \A i \in 1 .. SizeOf(b) : Content(b)[i] = b.data[CellOf(b, i - 1) + 1]
      /\ SizeOf(b) \in Nat
  BY Contents, Sizes
<1> QED BY <1>1, <1>2

(* The vector after push_back() on it. *)
LEMMA AppendedData ==
  ASSUME NEW b \in Buffer, NEW v \in Value
  PROVE  /\ Append(b.data, v) \in Seq(Cell)
         /\ Len(Append(b.data, v)) = Len(b.data) + 1
         /\ \A i \in 1 .. Len(b.data) : Append(b.data, v)[i] = b.data[i]
         /\ Append(b.data, v)[Len(b.data) + 1] = v
<1>1. v \in Cell
  BY DEF Cell
<1> QED BY <1>1, Fields

(* push_back() without a limit: the log only grows. *)
LEMMA PushUnlimited ==
  ASSUME Padding = 0, NEW b \in Buffer, Unlimited(b), NEW v \in Value
  PROVE  /\ Pushed(b, v) \in Buffer /\ Unlimited(Pushed(b, v))
         /\ Capacity(b) = 0 /\ Capacity(Pushed(b, v)) = 0
         /\ Content(Pushed(b, v)) = Append(Content(b), v)
<1> DEFINE c == Pushed(b, v)
           longer == Append(Content(b), v)
<1>b. Len(b.data) \in Nat /\ b.max \in Nat /\ WellFormed(b)
  BY Fields DEF WellFormed
<1>1. c = [b EXCEPT !.data = Append(b.data, v), !.max = Len(b.data) + 1]
  BY DEF Unlimited, Pushed
<1>l. /\ longer \in Seq(Cell)
      /\ Len(longer) = SizeOf(b) + 1
      /\ \A i \in 1 .. SizeOf(b) : longer[i] = b.data[CellOf(b, i - 1) + 1]
      /\ longer[SizeOf(b) + 1] = v
  BY <1>b, Longer
<1> HIDE DEF c, longer
<1>2. /\ c \in Buffer
      /\ c.infinite /\ c.max = Len(b.data) + 1 /\ c.start = 0 /\ c.end = 0
      /\ c.data = Append(b.data, v)
  <2> DEFINE d == Append(b.data, v)
             m == Len(b.data) + 1
  <2>1. /\ d \in Seq(Cell) /\ m \in Nat
        /\ c = [b EXCEPT !.data = d, !.max = m]
        /\ b.infinite /\ b.start = 0 /\ b.end = 0
    BY <1>b, <1>1, AppendedData DEF Unlimited
  <2> HIDE DEF d, m
  <2>2. /\ c \in Buffer
        /\ c.infinite = b.infinite /\ c.max = m
        /\ c.start = b.start /\ c.end = b.end /\ c.data = d
    BY <2>1 DEF Buffer
  <2> QED BY <2>1, <2>2 DEF d, m
<1>3. Len(c.data) = Len(b.data) + 1
  BY <1>2, AppendedData
<1>4. Unlimited(c) /\ WellFormed(c) /\ Capacity(b) = 0 /\ Capacity(c) = 0
  BY <1>b, <1>2, <1>3 DEF Unlimited, WellFormed, Capacity
<1>5. SizeOf(b) = Len(b.data) /\ SizeOf(c) = SizeOf(b) + 1
  BY <1>b, <1>2, <1>3, <1>4, Sizes
<1>6. ASSUME NEW i \in 1 .. SizeOf(c)
      PROVE  c.data[CellOf(c, i - 1) + 1] = longer[i]
  <2>1. CellOf(c, i - 1) = i - 1
    BY <1>b, <1>2, <1>5 DEF CellOf
  <2>2. i \in 1 .. SizeOf(b) => CellOf(b, i - 1) = i - 1
    BY <1>b, <1>5 DEF CellOf, Unlimited
  <2>3. (i - 1) + 1 = i
    BY <1>b, <1>5
  <2>4. CASE i = SizeOf(b) + 1
    BY <2>1, <2>3, <2>4, <1>2, <1>5, <1>l, AppendedData
  <2>5. CASE i # SizeOf(b) + 1
    <3>1. i \in 1 .. SizeOf(b)
      BY <2>5, <1>b, <1>5
    <3> QED BY <3>1, <2>1, <2>2, <2>3, <1>2, <1>5, <1>l, AppendedData
  <2> QED BY <2>4, <2>5
<1>7. Content(c) = longer
  BY <1>2, <1>4, <1>5, <1>6, <1>l, ContentIs
<1> QED BY <1>2, <1>4, <1>7 DEF c, longer

(* push_back() while the vector has not reached its length: nothing is lost. *)
LEMMA PushFilling ==
  ASSUME Padding = 0, NEW b \in Buffer, Filling(b), NEW v \in Value
  PROVE  /\ Pushed(b, v) \in Buffer
         /\ Filling(Pushed(b, v)) \/ Round(Pushed(b, v))
         /\ Uncut(b) => Uncut(Pushed(b, v))
         /\ Capacity(Pushed(b, v)) = Capacity(b)
         /\ SizeOf(b) + 1 <= Capacity(b)
         /\ Content(Pushed(b, v)) = Append(Content(b), v)
<1> DEFINE c == Pushed(b, v)
           longer == Append(Content(b), v)
<1>b. /\ b.max \in Nat /\ b.start \in Nat /\ b.end \in Nat
      /\ Len(b.data) = b.end /\ b.end < b.max /\ ~b.infinite
      /\ b.start < b.end \/ (b.start = 0 /\ b.end = 0)
      /\ WellFormed(b)
  BY Fields DEF WellFormed, Filling
<1>1. c = [b EXCEPT !.data = Append(b.data, v), !.end = (b.end + 1) % b.max]
  BY <1>b DEF Pushed
<1>l. /\ longer \in Seq(Cell)
      /\ Len(longer) = SizeOf(b) + 1
      /\ \A i \in 1 .. SizeOf(b) : longer[i] = b.data[CellOf(b, i - 1) + 1]
      /\ longer[SizeOf(b) + 1] = v
  BY <1>b, Longer
<1> HIDE DEF c, longer
<1>e. (b.end + 1) % b.max = IF b.end + 1 = b.max THEN 0 ELSE b.end + 1
  <2>1. b.max \in Nat /\ b.end \in Nat /\ b.end < b.max
    BY <1>b
  <2> QED BY <2>1, Successor
<1>2. /\ c \in Buffer
      /\ c.infinite = b.infinite /\ c.max = b.max /\ c.start = b.start
      /\ c.end = IF b.end + 1 = b.max THEN 0 ELSE b.end + 1
      /\ c.data = Append(b.data, v)
  <2>1. Append(b.data, v) \in Seq(Cell)
    BY AppendedData
  <2>2. b.end + 1 \in Nat /\ 0 \in Nat
    BY <1>b
  <2> DEFINE e == IF b.end + 1 = b.max THEN 0 ELSE b.end + 1
             d == Append(b.data, v)
  <2>3. /\ e \in Nat /\ d \in Seq(Cell)
        /\ c = [b EXCEPT !.data = d, !.end = e]
    BY <2>1, <2>2, <1>1, <1>e
  <2> HIDE DEF d, e
  <2>4. /\ c \in Buffer
        /\ c.infinite = b.infinite /\ c.max = b.max /\ c.start = b.start
        /\ c.end = e /\ c.data = d
    BY <2>3 DEF Buffer
  <2> QED BY <2>4 DEF d, e
<1>3. Len(c.data) = b.end + 1
  BY <1>2, <1>b, AppendedData
<1>4. /\ Filling(c) \/ Round(c)
      /\ Capacity(b) = b.max /\ Capacity(c) = b.max
  <2>1. CASE b.end + 1 = b.max
    BY <2>1, <1>b, <1>2, <1>3 DEF Filling, Round, Capacity
  <2>2. CASE b.end + 1 # b.max
    BY <2>2, <1>b, <1>2, <1>3 DEF Filling, Round, Capacity
  <2> QED BY <2>1, <2>2
<1>u. Uncut(b) => Uncut(c)
  <2>1. Uncut(b) => b.start = 0
    BY <1>b DEF Uncut, Round
  <2> QED BY <2>1, <1>b, <1>2, <1>4 DEF Uncut, Round
<1>5. SizeOf(b) = b.end - b.start /\ SizeOf(c) = SizeOf(b) + 1
  <2>1. SizeOf(b) = b.end - b.start
    BY <1>b, Sizes
  <2>2. CASE b.end + 1 = b.max
    <3>1. Round(c) /\ WellFormed(c)
      BY <2>2, <1>b, <1>2, <1>3 DEF Round, WellFormed
    <3>2. SizeOf(c) = IF c.start < c.end THEN c.end - c.start
                      ELSE c.max - (c.start - c.end)
      BY <3>1, <1>2, Sizes
    <3> QED BY <2>1, <2>2, <3>2, <1>b, <1>2
  <2>3. CASE b.end + 1 # b.max
    <3>1. Filling(c) /\ WellFormed(c)
      BY <2>3, <1>b, <1>2, <1>3 DEF Filling, WellFormed
    <3>2. SizeOf(c) = c.end - c.start
      BY <3>1, <1>2, Sizes
    <3> QED BY <2>1, <2>3, <3>2, <1>b, <1>2
  <2> QED BY <2>2, <2>3
<1>6. ASSUME NEW i \in 1 .. SizeOf(c)
      PROVE  c.data[CellOf(c, i - 1) + 1] = longer[i]
  <2>1. CellOf(c, i - 1) = b.start + (i - 1) /\ b.start + (i - 1) <= b.end
    <3>1. CellOf(c, i - 1) = IF b.start + (i - 1) >= b.max THEN b.start + (i - 1) - b.max
                             ELSE b.start + (i - 1)
      BY <1>2 DEF CellOf
    <3>2. i \in 1 .. b.end - b.start + 1
      BY <1>5
    <3> QED BY <3>1, <3>2, <1>b
  <2>i. i \in Int /\ SizeOf(b) \in Int /\ b.start + SizeOf(b) = b.end
    BY <1>b, <1>5
  <2>2. CASE i = SizeOf(b) + 1
    <3>1. CellOf(c, i - 1) + 1 = Len(b.data) + 1
      BY <2>i, <2>1, <2>2, <1>b
    <3> QED BY <2>2, <3>1, <1>2, <1>l, AppendedData
  <2>3. CASE i # SizeOf(b) + 1
    <3>1. i \in 1 .. SizeOf(b)
      BY <2>3, <2>i, <1>b, <1>5
    <3>3. CellOf(c, i - 1) + 1 \in 1 .. Len(b.data)
      BY <3>1, <2>i, <2>1, <1>b
    <3>2. CellOf(b, i - 1) = CellOf(c, i - 1)
      BY <1>2 DEF CellOf
    <3> QED BY <3>1, <3>2, <3>3, <1>2, <1>l, AppendedData
  <2> QED BY <2>2, <2>3
<1>7. Content(c) = longer
  <2>1. WellFormed(c) /\ Len(longer) = SizeOf(c)
    BY <1>4, <1>5, <1>l DEF WellFormed
  <2> QED BY <2>1, <1>2, <1>6, <1>l, ContentIs
<1>8. SizeOf(b) + 1 <= Capacity(b)
  BY <1>b, <1>4, <1>5
<1> QED BY <1>2, <1>4, <1>u, <1>7, <1>8 DEF c, longer

(* The ring has room: the start stays.                                         *)
LEMMA PushRoom ==
  ASSUME Padding = 0, NEW b \in Buffer, Round(b), SizeOf(b) < b.max, NEW v \in Value
  PROVE  /\ Pushed(b, v) \in Buffer /\ Round(Pushed(b, v))
         /\ Uncut(b) => Uncut(Pushed(b, v))
         /\ Capacity(Pushed(b, v)) = Capacity(b)
         /\ SizeOf(b) + 1 <= Capacity(b)
         /\ Content(Pushed(b, v)) = Append(Content(b), v)
         /\ b.start # b.end
         /\ Pushed(b, v).start = b.start
         /\ Pushed(b, v).end = IF b.end + 1 = b.max THEN 0 ELSE b.end + 1
<1> DEFINE c == Pushed(b, v)
           longer == Append(Content(b), v)
           e == IF b.end + 1 = b.max THEN 0 ELSE b.end + 1
           d == [b.data EXCEPT ![b.end + 1] = v]
<1>b. /\ b.max \in Nat /\ b.start \in Nat /\ b.end \in Nat
      /\ Len(b.data) = b.max /\ b.end < b.max /\ b.start < b.max /\ ~b.infinite
      /\ WellFormed(b) /\ Capacity(b) = b.max
  BY Fields DEF WellFormed, Round, Capacity
<1>s. /\ SizeOf(b) \in Nat
      /\ SizeOf(b) = IF b.start < b.end THEN b.end - b.start
                     ELSE b.max - (b.start - b.end)
  BY <1>b, Sizes
<1>n. b.start # b.end
  BY <1>b, <1>s
<1>e. (b.end + 1) % b.max = e
  <2>1. b.max \in Nat /\ b.end \in Nat /\ b.end < b.max
    BY <1>b
  <2> QED BY <2>1, Successor
<1>d. /\ d \in Seq(Cell) /\ Len(d) = b.max
      /\ \A j \in 1 .. b.max : d[j] = IF j = b.end + 1 THEN v ELSE b.data[j]
  <2>1. v \in Cell /\ b.data \in Seq(Cell) /\ b.end + 1 \in 1 .. Len(b.data)
    BY <1>b, Fields DEF Cell
  <2> QED BY <2>1, <1>b, ExceptSeq
<1>l. /\ longer \in Seq(Cell)
      /\ Len(longer) = SizeOf(b) + 1
      /\ \A i \in 1 .. SizeOf(b) : longer[i] = b.data[CellOf(b, i - 1) + 1]
      /\ longer[SizeOf(b) + 1] = v
  BY <1>b, Longer
<1>1. c = [b EXCEPT !.data = d, !.end = e]
  <2>1. ~(SizeOf(b) >= Capacity(b)) /\ ~(Len(b.data) < b.max)
    BY <1>b, <1>s
  <2>2. c = [b EXCEPT !.data = d, !.start = b.start, !.end = e]
    BY <2>1, <1>b, <1>e DEF Pushed
  <2> HIDE DEF c, d, e
  <2> QED BY <2>2 DEF Buffer
<1>2. e \in Nat /\ e < b.max
  BY <1>b
<1> HIDE DEF c, d, e, longer
<1>3. /\ c \in Buffer
      /\ c.infinite = b.infinite /\ c.max = b.max
      /\ c.start = b.start /\ c.end = e /\ c.data = d
  BY <1>1, <1>2, <1>d DEF Buffer
<1>4. Round(c) /\ WellFormed(c) /\ Capacity(c) = b.max
  BY <1>b, <1>2, <1>3, <1>d DEF Round, WellFormed, Capacity
<1>u. Uncut(b) => Uncut(c)
  <2>1. Uncut(b) => b.end <= b.start
    BY <1>b DEF Uncut, Filling
  <2>2. Uncut(b) => e <= b.start
    BY <2>1, <1>b, <1>n DEF e
  <2> QED BY <2>2, <1>3, <1>4 DEF Uncut
<1>5. SizeOf(c) = SizeOf(b) + 1
  <2>1. SizeOf(c) = IF b.start < e THEN e - b.start ELSE b.max - (b.start - e)
    BY <1>3, <1>4, Sizes
  <2>2. CASE b.start < b.end
    <3>1. SizeOf(b) = b.end - b.start
      BY <2>2, <1>s
    <3>2. CASE b.end + 1 = b.max
      BY <2>1, <2>2, <3>1, <3>2, <1>b DEF e
    <3>3. CASE b.end + 1 # b.max
      BY <2>1, <2>2, <3>1, <3>3, <1>b DEF e
    <3> QED BY <3>2, <3>3
  <2>3. CASE b.end < b.start
    <3>1. SizeOf(b) = b.max - (b.start - b.end) /\ e = b.end + 1
      BY <2>3, <1>b, <1>s DEF e
    <3> QED BY <2>1, <2>3, <3>1, <1>b
  <2> QED BY <2>2, <2>3, <1>b, <1>n
<1>6. ASSUME NEW i \in 1 .. SizeOf(c)
      PROVE  c.data[CellOf(c, i - 1) + 1] = longer[i]
  <2>i. i \in Int /\ i - 1 \in Int
    BY <1>5, <1>s
  <2>1. CellOf(c, i - 1) = IF b.start + (i - 1) >= b.max THEN b.start + (i - 1) - b.max
                           ELSE b.start + (i - 1)
    BY <1>3 DEF CellOf
  <2>2. CellOf(b, i - 1) = CellOf(c, i - 1)
    BY <1>3 DEF CellOf
  <2>3. CASE i = SizeOf(b) + 1
    <3>1. CellOf(c, i - 1) = b.end
      <4>1. i - 1 = SizeOf(b) /\ SizeOf(b) \in Nat
        BY <2>3, <2>i, <1>s
      <4>2. CASE b.start < b.end
        <5>1. SizeOf(b) = b.end - b.start
          BY <4>2, <1>s
        <5>2. b.start + (i - 1) = b.end /\ ~(b.start + (i - 1) >= b.max)
          BY <4>1, <5>1, <1>b
        <5> QED BY <5>2, <2>1
      <4>3. CASE b.end < b.start
        <5>1. SizeOf(b) = b.max - (b.start - b.end)
          BY <4>3, <1>b, <1>s
        <5>2. b.start + (i - 1) >= b.max /\ b.start + (i - 1) - b.max = b.end
          BY <4>1, <5>1, <1>b
        <5> QED BY <5>2, <2>1
      <4> QED BY <4>2, <4>3, <1>b, <1>n
    <3>2. b.end + 1 \in 1 .. b.max
      BY <1>b
    <3> QED BY <2>3, <3>1, <3>2, <1>3, <1>d, <1>l
  <2>4. CASE i # SizeOf(b) + 1
    <3>1. i \in 1 .. SizeOf(b)
      BY <2>4, <2>i, <1>5, <1>s
    <3>2. CellOf(c, i - 1) + 1 \in 1 .. b.max /\ CellOf(c, i - 1) + 1 # b.end + 1
      <4>1. CASE b.start < b.end
        <5>1. b.start + (i - 1) < b.end
          BY <4>1, <3>1, <1>b, <1>s
        <5> QED BY <5>1, <2>i, <2>1, <1>b, <3>1, <1>s
      <4>2. CASE b.end < b.start
        <5>1. b.start + (i - 1) < b.max + b.end /\ 1 <= i
          BY <4>2, <3>1, <2>i, <1>b, <1>s
        <5>i. /\ b.max \in Nat /\ b.start \in Nat /\ b.end \in Nat
              /\ b.end < b.start /\ b.start < b.max
          BY <4>2, <1>b
        <5>2. CASE b.start + (i - 1) >= b.max
          <6>1. CellOf(c, i - 1) = b.start + (i - 1) - b.max
            BY <5>2, <2>1
          <6>2. b.start + (i - 1) - b.max + 1 \in 1 .. b.end
            BY <5>1, <5>2, <5>i, <2>i
          <6> QED BY <6>1, <6>2, <5>i
        <5>3. CASE ~(b.start + (i - 1) >= b.max)
          <6>1. CellOf(c, i - 1) = b.start + (i - 1)
            BY <5>3, <2>1
          <6>2. b.start + (i - 1) + 1 \in b.end + 2 .. b.max
            BY <5>1, <5>3, <5>i, <2>i
          <6> QED BY <6>1, <6>2, <5>i
        <5> QED BY <5>2, <5>3
      <4> QED BY <4>1, <4>2, <1>b, <1>n
    <3>3. c.data[CellOf(c, i - 1) + 1] = b.data[CellOf(c, i - 1) + 1]
      BY <3>2, <1>3, <1>d
    <3> QED BY <3>1, <3>3, <2>2, <1>l
  <2> QED BY <2>3, <2>4
<1>7. Content(c) = longer
  BY <1>3, <1>4, <1>5, <1>6, <1>l, ContentIs
<1>8. SizeOf(b) + 1 <= Capacity(b)
  BY <1>b, <1>s
<1> QED BY <1>b, <1>3, <1>4, <1>u, <1>7, <1>8, <1>n DEF c, e, longer

(* The ring is full: the oldest value is overwritten, and the start moves on.  *)
LEMMA PushFull ==
  ASSUME Padding = 0, NEW b \in Buffer, Round(b), SizeOf(b) >= b.max, NEW v \in Value
  PROVE  /\ Pushed(b, v) \in Buffer /\ Round(Pushed(b, v)) /\ Uncut(Pushed(b, v))
         /\ Capacity(Pushed(b, v)) = Capacity(b)
         /\ Capacity(b) \in Nat \ {0} /\ SizeOf(b) = Capacity(b)
         /\ Content(Pushed(b, v)) = Log!Newest(Append(Content(b), v), Capacity(b))
<1> DEFINE c == Pushed(b, v)
           longer == Append(Content(b), v)
           e == IF b.end + 1 = b.max THEN 0 ELSE b.end + 1
           d == [b.data EXCEPT ![b.end + 1] = v]
<1>b. /\ b.max \in Nat /\ b.start \in Nat /\ b.end \in Nat
      /\ Len(b.data) = b.max /\ b.end < b.max /\ b.start < b.max /\ ~b.infinite
      /\ WellFormed(b) /\ Capacity(b) = b.max
  BY Fields DEF WellFormed, Round, Capacity
<1>s. b.start = b.end /\ SizeOf(b) = b.max
  <2>1. SizeOf(b) = IF b.start < b.end THEN b.end - b.start
                    ELSE b.max - (b.start - b.end)
    BY <1>b, Sizes
  <2> QED BY <2>1, <1>b
<1>e. (b.end + 1) % b.max = e
  <2>1. b.max \in Nat /\ b.end \in Nat /\ b.end < b.max
    BY <1>b
  <2> QED BY <2>1, Successor
<1>d. /\ d \in Seq(Cell) /\ Len(d) = b.max
      /\ \A j \in 1 .. b.max : d[j] = IF j = b.end + 1 THEN v ELSE b.data[j]
  <2>1. v \in Cell /\ b.data \in Seq(Cell) /\ b.end + 1 \in 1 .. Len(b.data)
    BY <1>b, Fields DEF Cell
  <2> QED BY <2>1, <1>b, ExceptSeq
<1>l. /\ longer \in Seq(Cell)
      /\ Len(longer) = b.max + 1
      /\ \A i \in 1 .. b.max : longer[i] = b.data[CellOf(b, i - 1) + 1]
      /\ longer[b.max + 1] = v
  <2>1. /\ longer \in Seq(Cell)
        /\ Len(longer) = SizeOf(b) + 1
        /\ \A i \in 1 .. SizeOf(b) : longer[i] = b.data[CellOf(b, i - 1) + 1]
        /\ longer[SizeOf(b) + 1] = v
    BY <1>b, Longer
  <2> QED BY <2>1, <1>s
<1>1. c = [b EXCEPT !.data = d, !.start = e, !.end = e]
  <2>1. SizeOf(b) >= Capacity(b) /\ ~(Len(b.data) < b.max)
    BY <1>b, <1>s
  <2> QED BY <2>1, <1>b, <1>e, <1>s DEF Pushed
<1>2. e \in Nat /\ e < b.max
  BY <1>b
<1> HIDE DEF c, d, e, longer
<1>3. /\ c \in Buffer
      /\ c.infinite = b.infinite /\ c.max = b.max
      /\ c.start = e /\ c.end = e /\ c.data = d
  BY <1>1, <1>2, <1>d DEF Buffer
<1>4. Round(c) /\ Uncut(c) /\ WellFormed(c) /\ Capacity(c) = b.max
  BY <1>b, <1>2, <1>3, <1>d DEF Round, Uncut, WellFormed, Capacity
<1>5. SizeOf(c) = b.max
  <2>1. SizeOf(c) = IF e < e THEN e - e ELSE b.max - (e - e)
    BY <1>3, <1>4, Sizes
  <2> QED BY <2>1, <1>2, <1>b
<1>n. /\ Log!Newest(longer, b.max) \in Seq(Cell)
      /\ Len(Log!Newest(longer, b.max)) = b.max
      /\ \A i \in 1 .. b.max : Log!Newest(longer, b.max)[i] = longer[i + 1]
  <2>1. b.max \in 0 .. Len(longer)
    BY <1>b, <1>l
  <2>2. /\ Log!Newest(longer, b.max) \in Seq(Cell)
        /\ Len(Log!Newest(longer, b.max)) = b.max
        /\ \A i \in 1 .. b.max : Log!Newest(longer, b.max)[i]
                                  = longer[Len(longer) - b.max + i]
    BY <2>1, <1>l, NewestFacts
  <2>3. ASSUME NEW i \in 1 .. b.max PROVE Len(longer) - b.max + i = i + 1
    BY <1>b, <1>l
  <2> QED BY <2>2, <2>3
<1>6. ASSUME NEW i \in 1 .. SizeOf(c)
      PROVE  c.data[CellOf(c, i - 1) + 1] = longer[i + 1]
  <2>i. i \in Int /\ i \in 1 .. b.max
    BY <1>5, <1>b
  <2>1. CellOf(c, i - 1) = IF e + (i - 1) >= b.max THEN e + (i - 1) - b.max
                           ELSE e + (i - 1)
    BY <1>3 DEF CellOf
  <2>3. CASE i = b.max
    <3>1. CellOf(c, i - 1) = b.end
      BY <2>1, <2>3, <1>b DEF e
    <3>2. b.end + 1 \in 1 .. b.max
      BY <1>b
    <3> QED BY <2>3, <3>1, <3>2, <1>3, <1>d, <1>l
  <2>4. CASE i # b.max
    <3>1. i + 1 \in 1 .. b.max /\ (i + 1) - 1 = i
      BY <2>4, <2>i, <1>b
    <3>c. CellOf(b, i) = IF b.end + i >= b.max THEN b.end + i - b.max ELSE b.end + i
      BY <1>s DEF CellOf
    <3>2. /\ CellOf(c, i - 1) = CellOf(b, i)
          /\ CellOf(b, i) + 1 \in 1 .. b.max /\ CellOf(b, i) + 1 # b.end + 1
      <4>1. CASE b.end + 1 = b.max
        <5>1. e = 0 /\ i < b.max /\ i >= 1 /\ b.max \in Nat /\ i \in Int
          BY <4>1, <2>4, <2>i, <1>b DEF e
        <5>2. CellOf(c, i - 1) = i - 1
          BY <5>1, <2>1
        <5>3. CellOf(b, i) = i - 1
          <6>1. b.end + i >= b.max /\ b.end + i - b.max = i - 1
            BY <5>1, <4>1, <1>b
          <6> QED BY <6>1, <3>c
        <5> QED BY <5>1, <5>2, <5>3, <4>1, <1>b
      <4>2. CASE b.end + 1 # b.max
        <5>1. e = b.end + 1
          BY <4>2 DEF e
        <5>2. CellOf(c, i - 1) = CellOf(b, i)
          BY <3>c, <5>1, <2>i, <2>1, <1>b
        <5>3. CellOf(b, i) + 1 \in 1 .. b.max
          BY <3>c, <2>4, <2>i, <1>b
        <5>4. CellOf(b, i) # b.end
          BY <3>c, <2>4, <2>i, <1>b
        <5> QED BY <5>2, <5>3, <5>4, <3>c, <2>i, <1>b
      <4> QED BY <4>1, <4>2
    <3>3. c.data[CellOf(c, i - 1) + 1] = b.data[CellOf(b, i) + 1]
      BY <3>2, <1>3, <1>d
    <3> QED BY <3>1, <3>3, <1>l
  <2> QED BY <2>3, <2>4
<1>7. Content(c) = Log!Newest(longer, b.max)
  BY <1>3, <1>4, <1>5, <1>6, <1>n, ContentIs
<1>8. b.max \in Nat \ {0}
  BY <1>b
<1> QED BY <1>b, <1>s, <1>3, <1>4, <1>7, <1>8 DEF c, longer

(* push_back() appends, and gives up the oldest value when the buffer is full. *)
LEMMA PushStep ==
  ASSUME Padding = 0, NEW b \in Buffer, WellFormed(b), NEW v \in Value
  PROVE  /\ Pushed(b, v) \in Buffer /\ WellFormed(Pushed(b, v))
         /\ Unlimited(b) => Unlimited(Pushed(b, v))
         /\ Uncut(b) => Uncut(Pushed(b, v))
         /\ Capacity(Pushed(b, v)) = Capacity(b)
         /\ Content(Pushed(b, v)) =
              Log!Bounded(Append(Content(b), v), Capacity(b))
<1> DEFINE c == Pushed(b, v)
           longer == Append(Content(b), v)
<1>l. Len(longer) = SizeOf(b) + 1 /\ SizeOf(b) \in Nat
  BY Longer, Sizes
<1>1. CASE Unlimited(b)
  <2>1. /\ c \in Buffer /\ Unlimited(c)
        /\ Capacity(b) = 0 /\ Capacity(c) = 0 /\ Content(c) = longer
    BY <1>1, PushUnlimited
  <2>2. ~Uncut(b)
    BY <1>1 DEF Unlimited, Uncut, Filling, Round
  <2> HIDE DEF c, longer
  <2>3. Content(c) = Log!Bounded(longer, Capacity(b))
    BY <2>1 DEF Log!Bounded
  <2> QED BY <2>1, <2>2, <2>3 DEF c, longer, WellFormed
<1>2. CASE Filling(b)
  <2>1. /\ c \in Buffer /\ (Filling(c) \/ Round(c)) /\ (Uncut(b) => Uncut(c))
        /\ Capacity(c) = Capacity(b)
        /\ SizeOf(b) + 1 <= Capacity(b) /\ Content(c) = longer
    BY <1>2, PushFilling
  <2>2. ~Unlimited(b)
    BY <1>2 DEF Unlimited, Filling
  <2> HIDE DEF c, longer
  <2>3. Content(c) = Log!Bounded(longer, Capacity(b))
    BY <2>1, <1>l DEF Log!Bounded
  <2> QED BY <1>2, <2>1, <2>2, <2>3, PushFilling DEF c, longer, WellFormed
<1>3. CASE Round(b) /\ SizeOf(b) < b.max
  <2>1. /\ c \in Buffer /\ Round(c) /\ (Uncut(b) => Uncut(c))
        /\ Capacity(c) = Capacity(b)
        /\ SizeOf(b) + 1 <= Capacity(b) /\ Content(c) = longer
    BY <1>3, PushRoom
  <2>2. ~Unlimited(b)
    BY <1>3 DEF Unlimited, Round
  <2> HIDE DEF c, longer
  <2>3. Content(c) = Log!Bounded(longer, Capacity(b))
    BY <2>1, <1>l DEF Log!Bounded
  <2> QED BY <2>1, <2>2, <2>3 DEF c, longer, WellFormed
<1>4. CASE Round(b) /\ SizeOf(b) >= b.max
  <2>1. /\ c \in Buffer /\ Round(c) /\ Uncut(c)
        /\ Capacity(c) = Capacity(b)
        /\ Capacity(b) \in Nat \ {0} /\ SizeOf(b) = Capacity(b)
        /\ Content(c) = Log!Newest(longer, Capacity(b))
    BY <1>4, PushFull
  <2>2. ~Unlimited(b)
    BY <1>4 DEF Unlimited, Round
  <2> HIDE DEF c, longer
  <2>3. Content(c) = Log!Bounded(longer, Capacity(b))
    BY <2>1, <1>l DEF Log!Bounded
  <2> QED BY <2>1, <2>2, <2>3 DEF c, longer, WellFormed
<1>5. Round(b) => SizeOf(b) < b.max \/ SizeOf(b) >= b.max
  BY <1>l, Fields
<1> QED BY <1>1, <1>2, <1>3, <1>4, <1>5 DEF WellFormed

-------------------------------------------------------------------------------
(* pop_front().                                                                *)

(* pop_front() without a limit, with more than one value. *)
LEMMA PopUnlimited ==
  ASSUME Padding = 0, NEW b \in Buffer, Unlimited(b), SizeOf(b) > 1
  PROVE  /\ Popped(b) \in Buffer /\ Unlimited(Popped(b))
         /\ Capacity(Popped(b)) = Capacity(b)
         /\ Content(Popped(b)) = Tail(Content(b))
<1> DEFINE c == Popped(b)
           m == Len(b.data) - 1
           d == Tail(b.data)
<1>b. /\ Len(b.data) \in Nat /\ b.max \in Nat /\ b.infinite /\ b.start = 0 /\ b.end = 0
      /\ Len(b.data) <= b.max /\ WellFormed(b) /\ SizeOf(b) = Len(b.data)
  BY Fields, Sizes DEF WellFormed, Unlimited
<1>t. /\ d \in Seq(Cell) /\ Len(d) = m /\ m \in Nat
      /\ \A i \in 1 .. m : d[i] = b.data[i + 1]
  BY <1>b, Fields
<1>l. /\ Tail(Content(b)) \in Seq(Cell)
      /\ Len(Tail(Content(b))) = m
      /\ \A i \in 1 .. m : Tail(Content(b))[i] = Content(b)[i + 1]
  BY <1>b, Contents
<1>1. c = [b EXCEPT !.data = d, !.max = m]
  BY <1>b DEF Popped, Empty
<1> HIDE DEF c, d
<1>2. m \in Nat
  BY <1>b
<1> HIDE DEF m
<1>3. /\ c \in Buffer
      /\ c.infinite = b.infinite /\ c.max = m
      /\ c.start = b.start /\ c.end = b.end /\ c.data = d
  BY <1>1, <1>2, <1>t DEF Buffer
<1>4. Unlimited(c) /\ WellFormed(c) /\ Capacity(c) = Capacity(b)
  BY <1>b, <1>2, <1>3, <1>t DEF Unlimited, WellFormed, Capacity
<1>5. SizeOf(c) = m
  BY <1>3, <1>4, <1>t, Sizes
<1>6. ASSUME NEW i \in 1 .. SizeOf(c)
      PROVE  c.data[CellOf(c, i - 1) + 1] = Tail(Content(b))[i]
  <2>1. i \in 1 .. m /\ (i - 1) + 1 = i /\ (i + 1) - 1 = i /\ i + 1 \in 1 .. SizeOf(b)
    BY <1>5, <1>2, <1>b DEF m
  <2>2. CellOf(c, i - 1) = i - 1
    BY <2>1, <1>3, <1>b, <1>2 DEF CellOf
  <2>3. CellOf(b, i) = i
    BY <2>1, <1>b, <1>2 DEF CellOf
  <2>4. Content(b)[i + 1] = b.data[i + 1]
    BY <2>1, <2>3, <1>b, Contents
  <2> QED BY <2>1, <2>2, <2>4, <1>3, <1>t, <1>l
<1>7. Content(c) = Tail(Content(b))
  BY <1>3, <1>4, <1>5, <1>6, <1>l, ContentIs
<1> QED BY <1>3, <1>4, <1>7 DEF c

(* pop_front() of a limited buffer with more than one value. *)
LEMMA PopLimited ==
  ASSUME Padding = 0, NEW b \in Buffer, Filling(b) \/ Round(b), SizeOf(b) > 1
  PROVE  /\ Popped(b) \in Buffer
         /\ Filling(b) => Filling(Popped(b))
         /\ Round(b) => Round(Popped(b))
         /\ Capacity(Popped(b)) = Capacity(b)
         /\ SizeOf(Popped(b)) = SizeOf(b) - 1
         /\ Popped(b).max = b.max /\ Popped(b).end = b.end
         /\ Popped(b).start = IF b.start + 1 = b.max THEN 0 ELSE b.start + 1
         /\ Content(Popped(b)) = Tail(Content(b))
<1> DEFINE c == Popped(b)
           x == IF b.start + 1 = b.max THEN 0 ELSE b.start + 1
<1>b. /\ b.max \in Nat /\ b.start \in Nat /\ b.end \in Nat /\ Len(b.data) \in Nat
      /\ b.end < b.max /\ b.start < b.max /\ ~b.infinite
      /\ WellFormed(b)
  BY Fields DEF WellFormed, Filling, Round
<1>s. /\ SizeOf(b) \in Nat
      /\ Filling(b) => SizeOf(b) = b.end - b.start
      /\ Round(b) => SizeOf(b) = IF b.start < b.end THEN b.end - b.start
                                 ELSE b.max - (b.start - b.end)
  BY <1>b, Sizes
<1>l. /\ Tail(Content(b)) \in Seq(Cell)
      /\ Len(Tail(Content(b))) = SizeOf(b) - 1
      /\ \A i \in 1 .. SizeOf(b) - 1 : Tail(Content(b))[i] = Content(b)[i + 1]
      /\ \A i \in 1 .. SizeOf(b) : Content(b)[i] = b.data[CellOf(b, i - 1) + 1]
  BY <1>b, <1>s, Contents
<1>e. (b.start + 1) % b.max = x
  <2>1. b.max \in Nat /\ b.start \in Nat /\ b.start < b.max
    BY <1>b
  <2> QED BY <2>1, Successor
<1>1. c = [b EXCEPT !.start = x]
  <2>1. ~(SizeOf(b) = 0) /\ ~(SizeOf(b) = 1)
    BY <1>s
  <2> QED BY <2>1, <1>b, <1>e DEF Popped, Empty
<1>2. x \in Nat /\ x < b.max
  BY <1>b
<1> HIDE DEF c, x
<1>3. /\ c \in Buffer
      /\ c.infinite = b.infinite /\ c.max = b.max
      /\ c.start = x /\ c.end = b.end /\ c.data = b.data
  BY <1>1, <1>2 DEF Buffer
<1>4. Filling(b) => Filling(c) /\ SizeOf(c) = SizeOf(b) - 1
  <2> SUFFICES ASSUME Filling(b) PROVE Filling(c) /\ SizeOf(c) = SizeOf(b) - 1
    OBVIOUS
  <2>1. /\ SizeOf(b) = b.end - b.start /\ Len(b.data) = b.end
        /\ b.start + 1 < b.end /\ x = b.start + 1
    BY <1>s, <1>b DEF Filling, x
  <2>2. Filling(c)
    BY <2>1, <1>b, <1>3 DEF Filling
  <2>3. SizeOf(c) = b.end - x
    BY <2>2, <1>3, Sizes DEF WellFormed
  <2> QED BY <2>1, <2>2, <2>3, <1>b
<1>5. Round(b) => Round(c) /\ SizeOf(c) = SizeOf(b) - 1
  <2> SUFFICES ASSUME Round(b) PROVE Round(c) /\ SizeOf(c) = SizeOf(b) - 1
    OBVIOUS
  <2>1. Round(c)
    BY <1>b, <1>2, <1>3 DEF Round
  <2>2. SizeOf(c) = IF x < b.end THEN b.end - x ELSE b.max - (x - b.end)
    BY <2>1, <1>3, Sizes DEF WellFormed
  <2>3. CASE b.start < b.end
    <3>1. SizeOf(b) = b.end - b.start /\ x = b.start + 1
      BY <2>3, <1>b, <1>s DEF x
    <3> QED BY <2>1, <2>2, <2>3, <3>1, <1>b
  <2>4. CASE ~(b.start < b.end)
    <3>1. SizeOf(b) = b.max - (b.start - b.end)
      BY <2>4, <1>s
    <3>2. CASE b.start + 1 = b.max
      <4>1. x = 0
        BY <3>2 DEF x
      <4>2. b.end > 0
        BY <3>1, <3>2, <1>b
      <4> QED BY <2>1, <2>2, <3>1, <3>2, <4>1, <4>2, <1>b
    <3>3. CASE b.start + 1 # b.max
      <4>1. x = b.start + 1
        BY <3>3 DEF x
      <4> QED BY <2>1, <2>2, <2>4, <3>1, <4>1, <1>b
    <3> QED BY <3>2, <3>3
  <2> QED BY <2>3, <2>4
<1>6. WellFormed(c) /\ SizeOf(c) = SizeOf(b) - 1
  BY <1>4, <1>5 DEF WellFormed
<1>7. ASSUME NEW i \in 1 .. SizeOf(c)
      PROVE  c.data[CellOf(c, i - 1) + 1] = Tail(Content(b))[i]
  <2>1. /\ i \in Int /\ i \in 1 .. SizeOf(b) - 1
        /\ (i + 1) - 1 = i /\ i + 1 \in 1 .. SizeOf(b)
    BY <1>6, <1>s
  <2>2. CellOf(c, i - 1) = IF x + (i - 1) >= b.max THEN x + (i - 1) - b.max
                           ELSE x + (i - 1)
    BY <1>3 DEF CellOf
  <2>3. CellOf(b, i) = IF b.start + i >= b.max THEN b.start + i - b.max ELSE b.start + i
    BY DEF CellOf
  <2>4. SizeOf(b) <= b.max
    BY <1>b, <1>s DEF Filling
  <2>i. /\ b.max \in Nat /\ b.start \in Nat /\ SizeOf(b) \in Nat
        /\ SizeOf(b) <= b.max /\ i \in Int /\ i >= 1 /\ i < b.max
    BY <2>1, <2>4, <1>b, <1>s
  <2>5. CellOf(c, i - 1) = CellOf(b, i)
    <3>1. CASE b.start + 1 = b.max
      <4>1. x = 0
        BY <3>1 DEF x
      <4>2. /\ x + (i - 1) = i - 1 /\ ~(x + (i - 1) >= b.max)
            /\ b.start + i >= b.max /\ b.start + i - b.max = i - 1
        BY <4>1, <3>1, <2>i
      <4> QED BY <4>2, <2>2, <2>3
    <3>2. CASE b.start + 1 # b.max
      <4>1. x = b.start + 1
        BY <3>2 DEF x
      <4>2. x + (i - 1) = b.start + i /\ x + (i - 1) - b.max = b.start + i - b.max
        BY <4>1, <2>i
      <4> QED BY <4>2, <2>2, <2>3
    <3> QED BY <3>1, <3>2
  <2> QED BY <2>1, <2>5, <1>3, <1>l
<1>8. Content(c) = Tail(Content(b))
  <2>1. Len(Tail(Content(b))) = SizeOf(c)
    BY <1>6, <1>l
  <2> QED BY <2>1, <1>3, <1>6, <1>7, <1>l, ContentIs
<1>9. Capacity(c) = Capacity(b)
  BY <1>3 DEF Capacity
<1> QED BY <1>3, <1>4, <1>5, <1>6, <1>8, <1>9 DEF c, x

(* pop_front() removes the oldest value, if there is one.                      *)
LEMMA PopStep ==
  ASSUME Padding = 0, NEW b \in Buffer, WellFormed(b)
  PROVE  /\ Popped(b) \in Buffer /\ WellFormed(Popped(b))
         /\ Unlimited(b) => Unlimited(Popped(b))
         /\ Capacity(Popped(b)) = Capacity(b)
         /\ SizeOf(b) = 0 => Popped(b) = b
         /\ SizeOf(b) > 0 => Content(Popped(b)) = Tail(Content(b))
<1>s. SizeOf(b) \in Nat /\ Content(b) \in Seq(Cell) /\ Len(Content(b)) = SizeOf(b)
  BY Sizes, Contents
<1>1. CASE SizeOf(b) = 0
  <2>1. Popped(b) = b
    BY <1>1 DEF Popped, Empty
  <2> QED BY <1>1, <2>1
<1>2. CASE SizeOf(b) = 1
  <2>1. Popped(b) = Cleared(b)
    BY <1>2 DEF Popped, Empty
  <2>2. Tail(Content(b)) = <<>>
    <3>1. Tail(Content(b)) \in Seq(Cell) /\ Len(Tail(Content(b))) = 0
      BY <1>s, <1>2
    <3> QED BY <3>1, EmptySeq
  <2>3. /\ Cleared(b) \in Buffer /\ WellFormed(Cleared(b))
        /\ Unlimited(b) => Unlimited(Cleared(b))
        /\ Capacity(Cleared(b)) = Capacity(b) /\ Content(Cleared(b)) = <<>>
    BY ClearStep
  <2> QED BY <1>2, <2>1, <2>2, <2>3
<1>3. CASE SizeOf(b) > 1
  <2>1. CASE Unlimited(b)
    BY <1>3, <2>1, PopUnlimited DEF WellFormed
  <2>2. CASE Filling(b) \/ Round(b)
    <3>1. ~Unlimited(b)
      BY <2>2 DEF Unlimited, Filling, Round
    <3> QED BY <1>3, <2>2, <3>1, PopLimited DEF WellFormed
  <2> QED BY <2>1, <2>2 DEF WellFormed
<1> QED BY <1>1, <1>2, <1>3, <1>s

-------------------------------------------------------------------------------
(* The regressor makes room before it pushes: this is a push.                  *)

(* Making room first and pushing then keeps the newest values. *)
LEMMA NewestOfTail ==
  ASSUME NEW S, NEW s \in Seq(S), NEW v \in S, Len(s) > 0
  PROVE  Append(Tail(s), v) = Log!Newest(Append(s, v), Len(s))
<1> DEFINE n == Len(s)
           t == Append(Tail(s), v)
           l == Append(s, v)
           r == Log!Newest(l, n)
<1>1. n \in Nat /\ n > 0
  OBVIOUS
<1>2. /\ Tail(s) \in Seq(S) /\ Len(Tail(s)) = n - 1
      /\ \A i \in 1 .. n - 1 : Tail(s)[i] = s[i + 1]
  OBVIOUS
<1>3. /\ t \in Seq(S) /\ Len(t) = n
      /\ \A i \in 1 .. n - 1 : t[i] = s[i + 1]
      /\ t[n] = v
  BY <1>1, <1>2
<1>4. /\ l \in Seq(S) /\ Len(l) = n + 1
      /\ \A i \in 1 .. n : l[i] = s[i]
      /\ l[n + 1] = v
  BY <1>1
<1> HIDE DEF t, l, n
<1>5. /\ r \in Seq(S) /\ Len(r) = n
      /\ \A i \in 1 .. n : r[i] = l[Len(l) - n + i]
  <2>1. n \in 0 .. Len(l)
    BY <1>1, <1>4
  <2> QED BY <2>1, <1>4, NewestFacts
<1> HIDE DEF r
<1>6. ASSUME NEW i \in 1 .. n PROVE t[i] = r[i]
  <2>1. r[i] = l[i + 1]
    <3>1. Len(l) - n + i = i + 1
      BY <1>1, <1>4
    <3> QED BY <3>1, <1>5
  <2>2. CASE i = n
    BY <2>1, <2>2, <1>3, <1>4
  <2>3. CASE i # n
    <3>1. i \in 1 .. n - 1 /\ i + 1 \in 1 .. n
      BY <2>3, <1>1
    <3> QED BY <3>1, <2>1, <1>3, <1>4
  <2> QED BY <2>2, <2>3
<1>7. t = r
  BY <1>3, <1>5, <1>6, SeqEqual
<1> QED BY <1>7 DEF t, r, l, n

(* The push of the polynomial regressor is a push of the log. *)
LEMMA SlideStep ==
  ASSUME Padding = 0, NEW b \in Buffer, WellFormed(b), NEW v \in Value,
         NEW c, c = Pushed(IF SizeOf(b) = Capacity(b) THEN Popped(b) ELSE b, v)
  PROVE  /\ c \in Buffer /\ WellFormed(c)
         /\ Unlimited(b) => Unlimited(c)
         /\ Uncut(b) => Uncut(c)
         /\ Capacity(c) = Capacity(b)
         /\ Content(c) = Log!Bounded(Append(Content(b), v), Capacity(b))
<1>b. /\ b.max \in Nat /\ b.start \in Nat /\ b.end \in Nat /\ Len(b.data) \in Nat
  BY Fields
<1>s. SizeOf(b) \in Nat /\ Content(b) \in Seq(Cell) /\ Len(Content(b)) = SizeOf(b)
  BY Sizes, Contents
<1>1. CASE SizeOf(b) # Capacity(b) \/ SizeOf(b) = 0
  <2>1. c = Pushed(b, v)
    BY <1>1, PopStep
  <2> QED BY <2>1, PushStep
<1>2. CASE SizeOf(b) = Capacity(b) /\ SizeOf(b) # 0
  <2> DEFINE d == Popped(b)
  <2>1. ~Unlimited(b)
    BY <1>2 DEF Unlimited, Capacity
  <2>2. ~Filling(b)
    <3> SUFFICES ASSUME Filling(b) PROVE FALSE
      OBVIOUS
    <3>1. SizeOf(b) = b.end - b.start /\ Capacity(b) = b.max /\ b.end < b.max
      BY Sizes, <1>b DEF Filling, Capacity
    <3> QED BY <3>1, <1>2, <1>b
  <2>3. Round(b) /\ b.start = b.end /\ Capacity(b) = b.max
    <3>1. Round(b) /\ Capacity(b) = b.max
      BY <2>1, <2>2, <1>b DEF WellFormed, Round, Capacity
    <3>2. SizeOf(b) = IF b.start < b.end THEN b.end - b.start
                      ELSE b.max - (b.start - b.end)
      BY <3>1, Sizes
    <3> QED BY <3>1, <3>2, <1>2, <1>b DEF Round
  <2>4. c = Pushed(d, v)
    BY <1>2
  <2>5. /\ d \in Buffer /\ WellFormed(d) /\ Capacity(d) = Capacity(b)
        /\ Content(d) = Tail(Content(b))
    BY <1>2, <1>s, PopStep
  <2> HIDE DEF d
  <2>6. /\ c \in Buffer /\ WellFormed(c)
        /\ Uncut(d) => Uncut(c)
        /\ Capacity(c) = Capacity(b)
        /\ Content(c) = Log!Bounded(Append(Tail(Content(b)), v), Capacity(b))
    BY <2>4, <2>5, PushStep
  <2>7. Content(c) = Log!Bounded(Append(Content(b), v), Capacity(b))
    <3>1. v \in Cell
      BY DEF Cell
    <3>2. Len(Append(Tail(Content(b)), v)) = SizeOf(b) /\ Len(Append(Content(b), v)) = SizeOf(b) + 1
      BY <3>1, <1>s, <1>2
    <3>3. Append(Tail(Content(b)), v) = Log!Newest(Append(Content(b), v), SizeOf(b))
      BY <3>1, <1>s, <1>2, NewestOfTail
    <3> QED BY <3>2, <3>3, <2>6, <1>2, <1>s DEF Log!Bounded
  <2>8. Uncut(c)
    <3>1. CASE SizeOf(b) = 1
      <4>1. d = Cleared(b)
        BY <3>1 DEF d, Popped, Empty
      <4>2. Uncut(d)
        BY <4>1, <2>3, ClearStep DEF Uncut
      <4> QED BY <4>2, <2>6
    <3>2. CASE SizeOf(b) > 1
      <4>1. /\ Round(d) /\ SizeOf(d) = SizeOf(b) - 1
            /\ d.max = b.max /\ d.end = b.end
            /\ d.start = IF b.start + 1 = b.max THEN 0 ELSE b.start + 1
        BY <3>2, <2>3, PopLimited DEF d
      <4>2. SizeOf(d) < d.max
        BY <4>1, <2>3, <1>2, <1>b
      <4>3. /\ Round(c) /\ c.start = d.start
            /\ c.end = IF d.end + 1 = d.max THEN 0 ELSE d.end + 1
        BY <4>1, <4>2, <2>4, <2>5, PushRoom
      <4>4. c.end = c.start /\ c.end \in Nat
        BY <4>1, <4>3, <2>3, <2>6, Fields
      <4> QED BY <4>3, <4>4 DEF Uncut
    <3> QED BY <3>1, <3>2, <1>s, <1>2
  <2> QED BY <2>1, <2>6, <2>7, <2>8
<1> QED BY <1>1, <1>2

-------------------------------------------------------------------------------
(* resize(), for a buffer that nothing was popped from.                        *)

(* The cells [i, j) of a vector. *)
LEMMA PartFacts ==
  ASSUME NEW s \in Seq(Cell), NEW i \in Nat, NEW j \in Nat, i <= j, j <= Len(s)
  PROVE  /\ Part(s, i, j) \in Seq(Cell)
         /\ Len(Part(s, i, j)) = j - i
         /\ \A x \in 1 .. j - i : Part(s, i, j)[x] = s[i + x]
<1>1. \A x \in i + 1 .. j : s[x] \in Cell
  BY ElementOfSeq
<1>2. \A x \in 1 .. j - (i + 1) + 1 : SubSeq(s, i + 1, j)[x] = s[(i + 1) + x - 1]
  BY <1>1, SubSeqProperties
<1>3. /\ SubSeq(s, i + 1, j) \in Seq(Cell)
      /\ Len(SubSeq(s, i + 1, j)) = IF i + 1 <= j THEN j - (i + 1) + 1 ELSE 0
  BY <1>1, SubSeqProperties
<1> QED BY <1>2, <1>3 DEF Part

(* The first n cells of a vector. *)
LEMMA FirstFacts ==
  ASSUME NEW s \in Seq(Cell), NEW n \in 0 .. Len(s)
  PROVE  /\ SubSeq(s, 1, n) \in Seq(Cell)
         /\ Len(SubSeq(s, 1, n)) = n
         /\ \A x \in 1 .. n : SubSeq(s, 1, n)[x] = s[x]
<1> DEFINE i == 0
<1>1. i \in Nat /\ i <= n /\ n \in Nat /\ n <= Len(s) /\ i = 0
  OBVIOUS
<1> HIDE DEF i
<1>2. /\ Part(s, i, n) \in Seq(Cell)
      /\ Len(Part(s, i, n)) = n - i
      /\ \A x \in 1 .. n - i : Part(s, i, n)[x] = s[i + x]
  BY <1>1, PartFacts
<1>3. n - 0 = n /\ 0 + 1 = 1 /\ \A x \in 1 .. n : 0 + x = x
  BY <1>1
<1> QED BY <1>1, <1>2, <1>3 DEF Part

(* One vector behind another. *)
LEMMA JoinFacts ==
  ASSUME NEW l \in Seq(Cell), NEW r \in Seq(Cell)
  PROVE  /\ l \o r \in Seq(Cell)
         /\ Len(l \o r) = Len(l) + Len(r)
         /\ \A x \in 1 .. Len(l) : (l \o r)[x] = l[x]
         /\ \A x \in 1 .. Len(r) : (l \o r)[Len(l) + x] = r[x]
<1>1. /\ Len(l \o r) = Len(l) + Len(r) /\ l \o r \in Seq(Cell)
      /\ \A x \in 1 .. Len(l) + Len(r) :
           (l \o r)[x] = IF x <= Len(l) THEN l[x] ELSE r[x - Len(l)]
  BY ConcatProperties
<1>2. /\ \A x \in 1 .. Len(l) : x \in 1 .. Len(l) + Len(r) /\ x <= Len(l)
      /\ \A x \in 1 .. Len(r) : /\ Len(l) + x \in 1 .. Len(l) + Len(r)
                               /\ ~(Len(l) + x <= Len(l))
                               /\ Len(l) + x - Len(l) = x
  OBVIOUS
<1> QED BY <1>1, <1>2

(* What erase() leaves. *)
LEMMA ErasedFacts ==
  ASSUME NEW s \in Seq(Cell), NEW i \in Nat, NEW j \in Nat, i <= j, j <= Len(s)
  PROVE  /\ Erase(s, i, j) \in Seq(Cell)
         /\ Len(Erase(s, i, j)) = Len(s) - (j - i)
         /\ \A x \in 1 .. i : Erase(s, i, j)[x] = s[x]
         /\ \A x \in i + 1 .. Len(s) - (j - i) : Erase(s, i, j)[x] = s[x + (j - i)]
<1> DEFINE l == SubSeq(s, 1, i)
           n == Len(s)
           r == Part(s, j, n)
<1>n. n \in Nat /\ j <= n /\ n <= Len(s) /\ i \in 0 .. Len(s)
  OBVIOUS
<1>0. Erase(s, i, j) = l \o r
  BY DEF Erase, Part
<1> HIDE DEF n
<1>1. /\ l \in Seq(Cell) /\ Len(l) = i
      /\ \A x \in 1 .. i : l[x] = s[x]
  BY <1>n, FirstFacts
<1>2. /\ r \in Seq(Cell) /\ Len(r) = n - j
      /\ \A x \in 1 .. n - j : r[x] = s[j + x]
  BY <1>n, PartFacts
<1> HIDE DEF l, r
<1>3. /\ l \o r \in Seq(Cell) /\ Len(l \o r) = i + (n - j)
      /\ \A x \in 1 .. i : (l \o r)[x] = l[x]
      /\ \A x \in 1 .. n - j : (l \o r)[i + x] = r[x]
  <2>1. /\ l \o r \in Seq(Cell)
        /\ Len(l \o r) = Len(l) + Len(r)
        /\ \A x \in 1 .. Len(l) : (l \o r)[x] = l[x]
        /\ \A x \in 1 .. Len(r) : (l \o r)[Len(l) + x] = r[x]
    BY <1>1, <1>2, JoinFacts
  <2> QED BY <2>1, <1>1, <1>2
<1>4. i + (n - j) = n - (j - i)
  BY <1>n
<1>5. ASSUME NEW x \in i + 1 .. n - (j - i) PROVE (l \o r)[x] = s[x + (j - i)]
  <2>1. x - i \in 1 .. n - j /\ i + (x - i) = x /\ j + (x - i) = x + (j - i)
    BY <1>n
  <2> QED BY <2>1, <1>2, <1>3
<1> QED BY <1>0, <1>1, <1>3, <1>4, <1>5 DEF n

(* Erased from the start. *)
LEMMA ErasedFront ==
  ASSUME NEW s \in Seq(Cell), NEW n \in 0 .. Len(s)
  PROVE  /\ Erase(s, 0, n) \in Seq(Cell)
         /\ Len(Erase(s, 0, n)) = Len(s) - n
         /\ \A x \in 1 .. Len(s) - n : Erase(s, 0, n)[x] = s[x + n]
<1> DEFINE i == 0
<1>1. i \in Nat /\ i <= n /\ n \in Nat /\ n <= Len(s) /\ Len(s) \in Nat /\ i = 0
  OBVIOUS
<1> HIDE DEF i
<1>2. /\ Erase(s, i, n) \in Seq(Cell)
      /\ Len(Erase(s, i, n)) = Len(s) - (n - i)
      /\ \A x \in i + 1 .. Len(s) - (n - i) : Erase(s, i, n)[x] = s[x + (n - i)]
  BY <1>1, ErasedFacts
<1>3. n - 0 = n /\ 0 + 1 = 1
  BY <1>1
<1> QED BY <1>1, <1>2, <1>3

(* The newest n of the newest m. *)
LEMMA NewestOfNewest ==
  ASSUME NEW S, NEW s \in Seq(S), NEW m \in 0 .. Len(s), NEW n \in 0 .. m
  PROVE  Log!Newest(Log!Newest(s, m), n) = Log!Newest(s, n)
<1> DEFINE t == Log!Newest(s, m)
           l == Log!Newest(t, n)
           r == Log!Newest(s, n)
<1>n. Len(s) \in Nat /\ m \in Nat /\ n \in Nat /\ n \in 0 .. Len(s)
  OBVIOUS
<1>1. /\ t \in Seq(S) /\ Len(t) = m
      /\ \A i \in 1 .. m : t[i] = s[Len(s) - m + i]
  BY NewestFacts
<1> HIDE DEF t
<1>2. /\ l \in Seq(S) /\ Len(l) = n
      /\ \A i \in 1 .. n : l[i] = t[m - n + i]
  BY <1>1, NewestFacts
<1>3. /\ r \in Seq(S) /\ Len(r) = n
      /\ \A i \in 1 .. n : r[i] = s[Len(s) - n + i]
  BY <1>n, NewestFacts
<1> HIDE DEF l, r
<1>4. ASSUME NEW i \in 1 .. n PROVE l[i] = r[i]
  <2>1. m - n + i \in 1 .. m /\ Len(s) - m + (m - n + i) = Len(s) - n + i
    BY <1>n
  <2> QED BY <2>1, <1>1, <1>2, <1>3
<1> l = r
  BY <1>2, <1>3, <1>4, SeqEqual
<1> QED BY DEF l, r, t

(* Not scrolled: the vector is the content. *)
LEMMA StraightContent ==
  ASSUME Padding = 0, NEW b \in Buffer, Filling(b), b.start = 0
  PROVE  /\ b.max \in Nat /\ b.end \in Nat /\ b.end < b.max /\ Len(b.data) = b.end
         /\ ~b.infinite /\ ~IsScrolled(b)
         /\ WellFormed(b) /\ SizeOf(b) = b.end /\ Content(b) = b.data
<1>1. /\ b.max \in Nat /\ b.end \in Nat /\ b.end < b.max /\ Len(b.data) = b.end
      /\ ~b.infinite /\ WellFormed(b) /\ b.data \in Seq(Cell)
  BY Fields DEF Filling, WellFormed
<1>2. SizeOf(b) = b.end
  <2>1. SizeOf(b) = b.end - b.start
    BY <1>1, Sizes
  <2> QED BY <2>1, <1>1
<1>3. ~IsScrolled(b)
  BY <1>1, <1>2 DEF IsScrolled, Empty
<1>4. ASSUME NEW i \in 1 .. SizeOf(b) PROVE b.data[CellOf(b, i - 1) + 1] = b.data[i]
  <2>1. CellOf(b, i - 1) = i - 1 /\ (i - 1) + 1 = i
    BY <1>1, <1>2 DEF CellOf
  <2> QED BY <2>1
<1>5. Content(b) = b.data
  BY <1>1, <1>2, <1>4, ContentIs
<1> QED BY <1>1, <1>2, <1>3, <1>5

(* Scrolled, and nothing popped: the reading starts at or behind the end. *)
LEMMA RoundContent ==
  ASSUME Padding = 0, NEW b \in Buffer, Round(b), b.end <= b.start
  PROVE  /\ b.max \in Nat /\ b.start \in Nat /\ b.end \in Nat
         /\ b.start < b.max /\ b.end < b.max
         /\ b.data \in Seq(Cell) /\ Len(b.data) = b.max /\ ~b.infinite
         /\ IsScrolled(b) /\ WellFormed(b)
         /\ SizeOf(b) = b.max - (b.start - b.end)
<1>1. /\ b.max \in Nat /\ b.start \in Nat /\ b.end \in Nat
      /\ b.start < b.max /\ b.end < b.max
      /\ b.data \in Seq(Cell) /\ Len(b.data) = b.max /\ ~b.infinite
      /\ WellFormed(b)
  BY Fields DEF Round, WellFormed
<1>2. SizeOf(b) = b.max - (b.start - b.end)
  <2>1. SizeOf(b) = IF b.start < b.end THEN b.end - b.start
                    ELSE b.max - (b.start - b.end)
    BY <1>1, Sizes
  <2> QED BY <2>1, <1>1
<1>3. IsScrolled(b)
  BY <1>1, <1>2 DEF IsScrolled, Empty
<1> QED BY <1>1, <1>2, <1>3

(* The buffer is not scrolled and made smaller.                                *)
LEMMA ShrinkStraightStep ==
  ASSUME Padding = 0, NEW b \in Buffer, Filling(b), b.start = 0,
         NEW k \in Nat \ {0}, k < b.max
  PROVE  /\ ShrinkStraight(b, k) \in Buffer /\ Uncut(ShrinkStraight(b, k))
         /\ ShrinkStraight(b, k).max = k
         /\ ~ShrinkStraight(b, k).infinite
         /\ Content(ShrinkStraight(b, k)) = Log!Bounded(Content(b), k)
<1> DEFINE c == ShrinkStraight(b, k)
<1>b. /\ b.max \in Nat /\ b.end \in Nat /\ b.end < b.max /\ Len(b.data) = b.end
      /\ ~b.infinite /\ SizeOf(b) = b.end /\ Content(b) = b.data
      /\ b.data \in Seq(Cell)
  BY StraightContent, Fields
<1>1. CASE b.end <= k
  <2> DEFINE e == IF b.end = k THEN 0 ELSE b.end
             d == Erase(b.data, 0, 0)
  <2>1. /\ Least(b.max - b.end, b.max - 0 - k) = b.max - k
        /\ b.max - 0 - k - (b.max - k) = 0 /\ b.max - (b.max - k) = k
        /\ b.max - k > 0 /\ k - 0 = k
    BY <1>1, <1>b DEF Least
  <2>2. b.end % k = e
    <3>1. k \in Nat \ {0} /\ b.end \in 0 .. k
      BY <1>1, <1>b
    <3>2. b.end % k = IF b.end = k THEN 0 ELSE b.end
      BY <3>1, Remainder
    <3> QED BY <3>2
  <2>3. d = b.data
    <3>1. /\ d \in Seq(Cell) /\ Len(d) = Len(b.data) - 0
          /\ \A x \in 1 .. Len(b.data) - 0 : d[x] = b.data[x + 0]
      <4>1. b.data \in Seq(Cell) /\ 0 \in 0 .. Len(b.data)
        BY <1>b
      <4> QED BY <4>1, ErasedFront
    <3>2. /\ Len(d) = Len(b.data)
          /\ \A x \in 1 .. Len(b.data) : d[x] = b.data[x]
      BY <3>1, <1>b
    <3> HIDE DEF d
    <3> QED BY <3>1, <3>2, <1>b, SeqEqual
  <2>4. e \in Nat
    BY <1>b
  <2> HIDE DEF e, d
  <2>5. c = [b EXCEPT !.max = k, !.end = e, !.data = d]
    <3> DEFINE back == Least(b.max - b.end, b.max - Padding - k)
               left == b.max - Padding - k - back
               max  == b.max - back
    <3>1. back = b.max - k /\ left = 0 /\ max = k
      BY <2>1
    <3>2. Erase(b.data, b.start, b.start + left) = d
      BY <3>1 DEF d
    <3>3. c = [b EXCEPT !.max  = max - left,
                        !.end  = IF back > 0 THEN @ % max ELSE @,
                        !.data = Erase(@, b.start, b.start + left)]
      BY DEF ShrinkStraight
    <3> HIDE DEF back, left, max, c
    <3>4. max - left = k /\ (IF back > 0 THEN b.end % max ELSE b.end) = e
      BY <3>1, <2>1, <2>2
    <3> QED BY <3>2, <3>3, <3>4
  <2> HIDE DEF c
  <2>6. /\ c \in Buffer
        /\ c.infinite = b.infinite /\ c.max = k /\ c.start = b.start
        /\ c.end = e /\ c.data = b.data
    BY <2>3, <2>4, <2>5, <1>b DEF Buffer
  <2>7. Uncut(c) /\ WellFormed(c) /\ SizeOf(c) = b.end
    <3>1. CASE b.end = k
      <4>1. e = 0
        BY <3>1 DEF e
      <4>2. Round(c)
        BY <2>6, <3>1, <4>1, <1>b DEF Round
      <4>3. SizeOf(c) = k - (0 - 0)
        BY <2>6, <4>1, <4>2, RoundContent
      <4> QED BY <2>6, <3>1, <4>1, <4>2, <4>3, <1>b DEF Uncut, WellFormed
    <3>2. CASE b.end # k
      <4>1. e = b.end /\ b.end < k
        BY <3>2, <1>1, <1>b DEF e
      <4>2. Filling(c)
        BY <2>6, <4>1, <1>b DEF Filling
      <4>3. SizeOf(c) = b.end
        BY <2>6, <4>1, <4>2, StraightContent
      <4> QED BY <2>6, <4>2, <4>3 DEF Uncut, WellFormed
    <3> QED BY <3>1, <3>2
  <2>8. Content(c) = b.data
    <3>1. ASSUME NEW i \in 1 .. SizeOf(c) PROVE c.data[CellOf(c, i - 1) + 1] = b.data[i]
      <4>1. CellOf(c, i - 1) = i - 1 /\ (i - 1) + 1 = i
        BY <2>6, <2>7, <1>1, <1>b DEF CellOf
      <4> QED BY <4>1, <2>6
    <3> QED BY <3>1, <2>6, <2>7, <1>b, ContentIs
  <2>9. Log!Bounded(Content(b), k) = b.data
    BY <1>1, <1>b DEF Log!Bounded
  <2> QED BY <2>6, <2>7, <2>8, <2>9, <1>b DEF c
<1>2. CASE b.end > k
  <2> DEFINE d == Erase(b.data, 0, b.end - k)
             n == Log!Newest(Content(b), k)
  <2>1. /\ Least(b.max - b.end, b.max - 0 - k) = b.max - b.end
        /\ b.max - 0 - k - (b.max - b.end) = b.end - k /\ b.max - (b.max - b.end) = b.end
        /\ b.max - b.end > 0 /\ b.end - (b.end - k) = k
    BY <1>2, <1>b DEF Least
  <2>2. b.end % b.end = 0
    <3> DEFINE z == b.end
    <3>1. z \in Nat \ {0} /\ z \in 0 .. z
      BY <1>2, <1>b
    <3> HIDE DEF z
    <3>2. z % z = IF z = z THEN 0 ELSE z
      BY <3>1, Remainder
    <3> QED BY <3>2 DEF z
  <2>3. /\ d \in Seq(Cell) /\ Len(d) = k
        /\ \A x \in 1 .. k : d[x] = b.data[x + (b.end - k)]
    <3>1. /\ d \in Seq(Cell) /\ Len(d) = Len(b.data) - (b.end - k)
          /\ \A x \in 1 .. Len(b.data) - (b.end - k) : d[x] = b.data[x + (b.end - k)]
      <4>1. b.data \in Seq(Cell) /\ b.end - k \in 0 .. Len(b.data)
        BY <1>2, <1>b
      <4> QED BY <4>1, ErasedFront
    <3>2. Len(b.data) - (b.end - k) = k
      BY <1>2, <1>b
    <3> QED BY <3>1, <3>2
  <2> HIDE DEF d
  <2>5. c = [b EXCEPT !.max = k, !.end = 0, !.data = d]
    <3> DEFINE back == Least(b.max - b.end, b.max - Padding - k)
               left == b.max - Padding - k - back
               max  == b.max - back
    <3>1. back = b.max - b.end /\ left = b.end - k /\ max = b.end
      BY <2>1
    <3>2. Erase(b.data, b.start, b.start + left) = d
      BY <3>1, <1>b DEF d
    <3>3. c = [b EXCEPT !.max  = max - left,
                        !.end  = IF back > 0 THEN @ % max ELSE @,
                        !.data = Erase(@, b.start, b.start + left)]
      BY DEF ShrinkStraight
    <3> HIDE DEF back, left, max, c
    <3>4. max - left = k /\ (IF back > 0 THEN b.end % max ELSE b.end) = 0
      BY <3>1, <2>1, <2>2
    <3> QED BY <3>2, <3>3, <3>4
  <2> HIDE DEF c
  <2>6. /\ c \in Buffer
        /\ c.infinite = b.infinite /\ c.max = k /\ c.start = b.start
        /\ c.end = 0 /\ c.data = d
    BY <2>3, <2>5, <1>b DEF Buffer
  <2>7. Round(c) /\ Uncut(c) /\ WellFormed(c)
    BY <2>3, <2>6, <1>b DEF Round, Uncut, WellFormed
  <2>s. SizeOf(c) = k
    <3>1. SizeOf(c) = k - (0 - 0)
      BY <2>6, <2>7, RoundContent
    <3> QED BY <3>1
  <2>n. /\ n \in Seq(Cell) /\ Len(n) = k
        /\ \A i \in 1 .. k : n[i] = b.data[b.end - k + i]
    <3>1. k \in 0 .. Len(Content(b)) /\ Content(b) \in Seq(Cell)
      BY <1>2, <1>b
    <3>2. /\ n \in Seq(Cell) /\ Len(n) = k
          /\ \A i \in 1 .. k : n[i] = Content(b)[Len(Content(b)) - k + i]
      BY <3>1, NewestFacts
    <3> HIDE DEF n
    <3> QED BY <3>2, <1>b
  <2> HIDE DEF n
  <2>8. Content(c) = n
    <3>1. ASSUME NEW i \in 1 .. SizeOf(c) PROVE c.data[CellOf(c, i - 1) + 1] = n[i]
      <4>1. CellOf(c, i - 1) = i - 1 /\ (i - 1) + 1 = i /\ i \in 1 .. k
        BY <2>6, <2>s DEF CellOf
      <4>2. i + (b.end - k) = b.end - k + i
        BY <4>1, <1>b
      <4> QED BY <4>1, <4>2, <2>3, <2>6, <2>n
    <3> QED BY <3>1, <2>6, <2>7, <2>s, <2>n, ContentIs
  <2>9. Log!Bounded(Content(b), k) = n
    BY <1>2, <1>b DEF Log!Bounded, n
  <2> QED BY <2>6, <2>7, <2>8, <2>9, <1>b DEF c
<1> QED BY <1>1, <1>2, <1>b

(* Empty cells are dropped: nothing is lost.                                   *)
LEMMA DropEmptyStep ==
  ASSUME Padding = 0, NEW b \in Buffer, Round(b), b.end <= b.start,
         NEW left \in Nat, left < b.max
  PROVE  LET s == DropEmpty(b, left) IN
         /\ s.b \in Buffer /\ Round(s.b) /\ s.b.end <= s.b.start
         /\ s.left \in Nat /\ s.left <= left /\ s.b.max - s.left = b.max - left
         /\ s.left > 0 => s.b.start = s.b.end
         /\ Content(s.b) = Content(b)
<1> DEFINE n == Least(b.start - b.end, left)
           d == Erase(b.data, b.end, b.end + n)
           x == b.start - n
           m == b.max - n
           c == [b EXCEPT !.data = d, !.start = x, !.max = m]
           s == DropEmpty(b, left)
<1>b. /\ b.max \in Nat /\ b.start \in Nat /\ b.end \in Nat
      /\ b.start < b.max /\ b.end < b.max /\ b.end <= b.start
      /\ b.data \in Seq(Cell) /\ Len(b.data) = b.max /\ ~b.infinite
      /\ WellFormed(b)
      /\ SizeOf(b) = b.max - (b.start - b.end)
  BY RoundContent
<1>n. /\ n \in Nat /\ n <= b.start - b.end /\ n <= left
      /\ left - n > 0 => n = b.start - b.end
  BY <1>b DEF Least
<1>1. s = [b |-> c, left |-> left - n]
  <2>1. Least(Greatest(b.start - Padding - b.end, 0), left) = n
    <3>1. Greatest(b.start - Padding - b.end, 0) = b.start - b.end
      BY <1>b DEF Greatest
    <3> QED BY <3>1
  <2>2. DropEmpty(b, left) =
          LET i == Least(Greatest(b.start - Padding - b.end, 0), left) IN
          [b |-> [b EXCEPT !.data = Erase(@, b.end, b.end + i),
                           !.start = @ - i, !.max = @ - i],
           left |-> left - i]
    BY DEF DropEmpty
  <2> HIDE DEF n
  <2> QED BY <2>1, <2>2
<1> HIDE DEF n
<1>d. /\ d \in Seq(Cell) /\ Len(d) = m
      /\ \A i \in 1 .. b.end : d[i] = b.data[i]
      /\ \A i \in b.end + 1 .. m : d[i] = b.data[i + n]
  <2> DEFINE q == b.data
             z == b.end
             j == z + n
  <2>1. /\ q \in Seq(Cell) /\ z \in Nat /\ j \in Nat /\ z <= j /\ j <= Len(q)
        /\ j - z = n /\ Len(q) = b.max
    BY <1>b, <1>n
  <2> HIDE DEF q, z, j
  <2>2. /\ Erase(q, z, j) \in Seq(Cell)
        /\ Len(Erase(q, z, j)) = Len(q) - (j - z)
        /\ \A i \in 1 .. z : Erase(q, z, j)[i] = q[i]
        /\ \A i \in z + 1 .. Len(q) - (j - z) : Erase(q, z, j)[i] = q[i + (j - z)]
    BY <2>1, ErasedFacts
  <2> QED BY <2>1, <2>2 DEF q, z, j
<1>i. /\ b.max \in Nat /\ b.start \in Nat /\ b.end \in Nat
      /\ b.start < b.max /\ b.end <= b.start
  BY <1>b
<1>2. /\ x \in Nat /\ m \in Nat /\ x < m /\ b.end <= x /\ b.end < m
      /\ x = b.start - n /\ m = b.max - n
  BY <1>i, <1>n
<1> HIDE DEF d, x, m, s
<1>3. /\ c \in Buffer
      /\ c.infinite = b.infinite /\ c.max = m
      /\ c.start = x /\ c.end = b.end /\ c.data = d
  BY <1>2, <1>d DEF Buffer
<1> HIDE DEF c
<1>4. Round(c) /\ WellFormed(c)
  BY <1>b, <1>2, <1>3, <1>d DEF Round, WellFormed
<1>5. SizeOf(c) = SizeOf(b)
  <2>1. SizeOf(c) = m - (x - b.end)
    BY <1>2, <1>3, <1>4, RoundContent
  <2>2. m - (x - b.end) = b.max - (b.start - b.end)
    BY <1>i, <1>n, <1>2
  <2> QED BY <2>1, <2>2, <1>b
<1>6. ASSUME NEW i \in 1 .. SizeOf(c)
      PROVE  c.data[CellOf(c, i - 1) + 1] = Content(b)[i]
  <2>1. i \in Int /\ i \in 1 .. SizeOf(b) /\ i - 1 < b.max - (b.start - b.end)
    BY <1>5, <1>b
  <2>2. CellOf(c, i - 1) = IF x + (i - 1) >= m THEN x + (i - 1) - m ELSE x + (i - 1)
    BY <1>3 DEF CellOf
  <2>3. CellOf(b, i - 1) = IF b.start + (i - 1) >= b.max THEN b.start + (i - 1) - b.max
                           ELSE b.start + (i - 1)
    BY DEF CellOf
  <2>4. Content(b)[i] = b.data[CellOf(b, i - 1) + 1]
    BY <2>1, <1>b, Contents
  <2>5. CASE b.start + (i - 1) >= b.max
    <3>1. CellOf(c, i - 1) = CellOf(b, i - 1) /\ CellOf(c, i - 1) + 1 \in 1 .. b.end
      <4>1. x + (i - 1) >= m /\ x + (i - 1) - m = b.start + (i - 1) - b.max
        BY <2>1, <2>5, <1>i, <1>n, <1>2
      <4>2. b.start + (i - 1) - b.max + 1 \in 1 .. b.end
        BY <2>1, <2>5, <1>i
      <4> QED BY <4>1, <4>2, <2>2, <2>3, <2>5
    <3> QED BY <3>1, <2>4, <1>3, <1>d
  <2>6. CASE ~(b.start + (i - 1) >= b.max)
    <3>1. /\ CellOf(c, i - 1) + 1 \in b.end + 1 .. m
          /\ CellOf(b, i - 1) + 1 = (CellOf(c, i - 1) + 1) + n
      <4>1. ~(x + (i - 1) >= m)
        BY <2>1, <2>6, <1>i, <1>n, <1>2
      <4>2. x + (i - 1) + 1 \in b.end + 1 .. m
        BY <4>1, <2>1, <1>i, <1>2
      <4>3. b.start + (i - 1) + 1 = (x + (i - 1) + 1) + n
        BY <2>1, <1>i, <1>n, <1>2
      <4> QED BY <4>1, <4>2, <4>3, <2>2, <2>3, <2>6
    <3> QED BY <3>1, <2>4, <1>3, <1>d
  <2> QED BY <2>5, <2>6
<1>7. Content(c) = Content(b)
  BY <1>3, <1>4, <1>5, <1>6, <1>b, Contents, ContentIs
<1>8. /\ left - n \in Nat /\ left - n <= left /\ m - (left - n) = b.max - left
      /\ left - n > 0 => x = b.end
  BY <1>b, <1>n DEF m, x
<1>9. s.b = c /\ s.left = left - n
  BY <1>1
<1> QED BY <1>2, <1>3, <1>4, <1>7, <1>8, <1>9 DEF s

(* There is no padding to drop. *)
LEMMA DropPaddingStep ==
  ASSUME Padding = 0, NEW b, b.start \in Nat, NEW left \in Nat
  PROVE  DropPadding(b, left) = [b |-> b, left |-> left]
<1>1. Least(Greatest(Padding - b.start, 0), left) = 0
  BY DEF Least, Greatest
<1> QED BY <1>1 DEF DropPadding

(* The oldest values are dropped, as far as the end of the vector.             *)
LEMMA DropBackStep ==
  ASSUME Padding = 0, NEW b \in Buffer, Round(b), b.end <= b.start,
         NEW left \in Nat, left < b.max, left > 0 => b.start = b.end
  PROVE  LET s == DropBack(b, left) IN
         /\ s.b \in Buffer /\ Round(s.b) /\ s.b.end <= s.b.start
         /\ s.left \in Nat /\ s.left <= left /\ s.b.max - s.left = b.max - left
         /\ left = 0 => s.b = b
         /\ left > 0 => /\ s.b.start = s.b.end
                        /\ s.left > 0 => s.b.start = 0
                        /\ Content(s.b) = Log!Newest(Content(b), s.b.max)
<1>b. /\ b.max \in Nat /\ b.start \in Nat /\ b.end \in Nat
      /\ b.start < b.max /\ b.end < b.max /\ b.end <= b.start
      /\ b.data \in Seq(Cell) /\ Len(b.data) = b.max /\ ~b.infinite
      /\ WellFormed(b)
      /\ SizeOf(b) = b.max - (b.start - b.end)
  BY RoundContent
<1>a. /\ ~(b.end > b.start)
      /\ b.max - b.start - 0 = b.max - b.start
  BY <1>b
<1>1. CASE left = 0
  <2>1. Least(b.max - b.start - 0, left) = 0
    BY <1>1, <1>b DEF Least
  <2>2. DropBack(b, left) = [b |-> b, left |-> left]
    BY <2>1, <1>a DEF DropBack
  <2> QED BY <2>2, <1>1, <1>b
<1>2. CASE left > 0
  <2> DEFINE n == Least(b.max - b.start, left)
             m == b.max - n
             e == b.end
             d == Erase(b.data, e, e + n)
             x == IF e = m THEN 0 ELSE e
             c == [b EXCEPT !.data = d, !.max = m, !.start = x, !.end = x]
             s == DropBack(b, left)
             l == Log!Newest(Content(b), m)
  <2>e. b.start = e /\ e \in Nat /\ SizeOf(b) = b.max
    BY <1>2, <1>b
  <2>n. /\ n \in Nat /\ n > 0 /\ n <= b.max - e /\ n <= left
        /\ left - n > 0 => n = b.max - e
    BY <2>e, <1>2, <1>b DEF Least
  <2>m. /\ m \in Nat /\ m > 0 /\ e <= m /\ m <= b.max
        /\ x \in Nat /\ x < m
    BY <2>n, <2>e, <1>b
  <2>r. e % m = x
    <3>1. m \in Nat \ {0} /\ e \in 0 .. m
      BY <2>m, <2>e
    <3> HIDE DEF m, e
    <3> QED BY <3>1, Remainder
  <2>1. s = [b |-> c, left |-> left - n]
    <3>1. Least(b.max - b.start - (IF b.end > b.start THEN b.max - b.end ELSE 0), left) = n
      BY <1>a
    <3>2. n # 0 /\ ~(b.end > m) /\ b.start - Padding = e /\ b.start - Padding + n = e + n
      BY <2>n, <2>m, <2>e
    <3>3. s = IF n = 0 THEN [b |-> b, left |-> left]
              ELSE [b |-> [b EXCEPT !.data = Erase(@, b.start - Padding,
                                                    b.start - Padding + n),
                                    !.max = m, !.start = @ % m,
                                    !.end = (IF @ > m THEN @ - left ELSE @) % m],
                    left |-> left - n]
      <4> HIDE DEF n
      <4> QED BY <3>1 DEF DropBack
    <3> HIDE DEF n, m, x
    <3> QED BY <3>2, <3>3, <2>r, <2>e
  <2> HIDE DEF n
  <2>d. /\ d \in Seq(Cell) /\ Len(d) = m
        /\ \A i \in 1 .. e : d[i] = b.data[i]
        /\ \A i \in e + 1 .. m : d[i] = b.data[i + n]
    <3> DEFINE q == b.data
               j == e + n
    <3>1. /\ q \in Seq(Cell) /\ e \in Nat /\ j \in Nat /\ e <= j /\ j <= Len(q)
          /\ j - e = n /\ Len(q) = b.max
      BY <1>b, <2>e, <2>n
    <3> HIDE DEF q, j, e
    <3>2. /\ Erase(q, e, j) \in Seq(Cell)
          /\ Len(Erase(q, e, j)) = Len(q) - (j - e)
          /\ \A i \in 1 .. e : Erase(q, e, j)[i] = q[i]
          /\ \A i \in e + 1 .. Len(q) - (j - e) : Erase(q, e, j)[i] = q[i + (j - e)]
      BY <3>1, ErasedFacts
    <3> QED BY <3>1, <3>2 DEF q, j
  <2>i. /\ b.max \in Nat /\ e \in Nat /\ n \in Nat /\ m \in Nat
        /\ m = b.max - n /\ m + n = b.max /\ e <= m
    BY <2>n, <2>e, <2>m, <1>b
  <2> HIDE DEF d, x, m, s, e
  <2>3. /\ c \in Buffer
        /\ c.infinite = b.infinite /\ c.max = m
        /\ c.start = x /\ c.end = x /\ c.data = d
    BY <2>m, <2>d DEF Buffer
  <2> HIDE DEF c
  <2>4. Round(c) /\ WellFormed(c)
    BY <1>b, <2>m, <2>3, <2>d DEF Round, WellFormed
  <2>5. SizeOf(c) = m
    <3>1. SizeOf(c) = m - (x - x)
      BY <2>3, <2>4, <2>m, RoundContent
    <3> QED BY <3>1, <2>m
  <2>l. /\ l \in Seq(Cell) /\ Len(l) = m
        /\ \A i \in 1 .. m : l[i] = Content(b)[b.max - m + i]
        /\ \A i \in 1 .. b.max : Content(b)[i] = b.data[CellOf(b, i - 1) + 1]
    <3>1. /\ Content(b) \in Seq(Cell) /\ Len(Content(b)) = b.max
          /\ \A i \in 1 .. b.max : Content(b)[i] = b.data[CellOf(b, i - 1) + 1]
      BY <1>b, <2>e, Contents
    <3>2. m \in 0 .. Len(Content(b))
      BY <3>1, <2>m, <1>b
    <3>3. /\ l \in Seq(Cell) /\ Len(l) = m
          /\ \A i \in 1 .. m : l[i] = Content(b)[Len(Content(b)) - m + i]
      BY <3>1, <3>2, NewestFacts
    <3> HIDE DEF l
    <3> QED BY <3>1, <3>3
  <2> HIDE DEF l
  <2>6. ASSUME NEW i \in 1 .. SizeOf(c)
        PROVE  c.data[CellOf(c, i - 1) + 1] = l[i]
    <3>1. /\ i \in Int /\ i \in 1 .. m /\ i + n \in 1 .. b.max
          /\ b.max - m + i = i + n /\ (i + n) - 1 \in Int
      BY <2>5, <2>n, <2>m, <1>b DEF m
    <3>2. CellOf(c, i - 1) = IF x + (i - 1) >= m THEN x + (i - 1) - m ELSE x + (i - 1)
      BY <2>3 DEF CellOf
    <3>3. CellOf(b, (i + n) - 1) = IF e + ((i + n) - 1) >= b.max
                                   THEN e + ((i + n) - 1) - b.max ELSE e + ((i + n) - 1)
      BY <2>e DEF CellOf
    <3>4. l[i] = b.data[CellOf(b, (i + n) - 1) + 1]
      <4>1. l[i] = Content(b)[i + n]
        BY <3>1, <2>l
      <4> QED BY <4>1, <3>1, <2>l
    <3>5. CASE e = m
      <4>1. CellOf(c, i - 1) = i - 1 /\ i - 1 + 1 = i
        BY <3>1, <3>2, <3>5, <2>m DEF x
      <4>2. CellOf(b, (i + n) - 1) + 1 = i
        BY <3>1, <3>3, <3>5, <2>i
      <4> QED BY <4>1, <4>2, <3>1, <3>4, <3>5, <2>3, <2>d
    <3>6. CASE e # m /\ e + (i - 1) >= m
      <4>1. /\ CellOf(c, i - 1) = CellOf(b, (i + n) - 1)
            /\ CellOf(c, i - 1) + 1 \in 1 .. e
        <5>1. x = e
          BY <3>6 DEF x
        <5> DEFINE y == e + (i - 1)
        <5>y. /\ y \in Int /\ y >= m /\ y < m + e
              /\ e + ((i + n) - 1) = y + n
          BY <3>1, <3>6, <2>i
        <5> HIDE DEF y
        <5>2. /\ e + ((i + n) - 1) >= b.max
              /\ e + ((i + n) - 1) - b.max = y - m
          BY <5>y, <2>i
        <5>3. y - m + 1 \in 1 .. e
          BY <5>y, <2>i
        <5>4. CellOf(c, i - 1) = y - m
          <6>1. x + (i - 1) = y
            BY <5>1 DEF y
          <6>2. x + (i - 1) >= m
            BY <6>1, <5>y
          <6>3. CellOf(c, i - 1) = e + (i - 1) - m
            BY <6>2, <3>2, <5>1
          <6>4. e + (i - 1) - m = y - m
            BY <3>1, <2>i DEF y
          <6> QED BY <6>3, <6>4
        <5>5. CellOf(b, (i + n) - 1) = y - m
          BY <5>2, <3>3
        <5> QED BY <5>3, <5>4, <5>5
      <4> QED BY <4>1, <3>4, <2>3, <2>d
    <3>7. CASE e # m /\ ~(e + (i - 1) >= m)
      <4>1. /\ CellOf(c, i - 1) + 1 \in e + 1 .. m
            /\ CellOf(b, (i + n) - 1) + 1 = (CellOf(c, i - 1) + 1) + n
        <5>1. x = e
          BY <3>7 DEF x
        <5>2. /\ ~(e + ((i + n) - 1) >= b.max)
              /\ e + ((i + n) - 1) + 1 = (e + (i - 1) + 1) + n
          BY <3>1, <3>7, <2>i
        <5>3. e + (i - 1) + 1 \in e + 1 .. m
          BY <3>1, <3>7, <2>i
        <5> QED BY <5>1, <5>2, <5>3, <3>2, <3>3, <3>7
      <4> QED BY <4>1, <3>4, <2>3, <2>d
    <3> QED BY <3>5, <3>6, <3>7
  <2>7. Content(c) = l
    BY <2>3, <2>4, <2>5, <2>6, <2>l, ContentIs
  <2>8. /\ left - n \in Nat /\ left - n <= left /\ m - (left - n) = b.max - left
        /\ left - n > 0 => x = 0
    BY <2>n, <2>e, <1>b DEF m, x
  <2>9. s.b = c /\ s.left = left - n /\ x <= x
    BY <2>1, <2>m
  <2> QED BY <1>2, <2>3, <2>4, <2>7, <2>8, <2>9 DEF s, l
<1> QED BY <1>1, <1>2

(* And then from its start.                                                    *)
LEMMA DropFrontStep ==
  ASSUME Padding = 0, NEW b \in Buffer, Round(b), b.start = 0, b.end = 0,
         NEW left \in Nat, left > 0, left < b.max
  PROVE  LET c == DropFront(b, left) IN
         /\ c \in Buffer /\ Round(c) /\ c.start = 0 /\ c.end = 0
         /\ c.max = b.max - left
         /\ Content(c) = Log!Newest(Content(b), b.max - left)
<1> DEFINE c == DropFront(b, left)
           m == b.max - left
           d == Erase(b.data, 0, left)
           l == Log!Newest(Content(b), m)
<1>b. /\ b.max \in Nat /\ b.data \in Seq(Cell) /\ Len(b.data) = b.max /\ ~b.infinite
      /\ WellFormed(b) /\ SizeOf(b) = b.max
  <2>1. SizeOf(b) = b.max - (0 - 0)
    BY RoundContent
  <2> QED BY <2>1, RoundContent
<1>m. m \in Nat /\ m > 0 /\ m <= b.max /\ m = b.max - left
  BY <1>b
<1>d. /\ d \in Seq(Cell) /\ Len(d) = m
      /\ \A i \in 1 .. m : d[i] = b.data[i + left]
  <2> DEFINE q == b.data
  <2>1. q \in Seq(Cell) /\ left \in 0 .. Len(q) /\ Len(q) = b.max
    BY <1>b
  <2> HIDE DEF q
  <2>2. /\ Erase(q, 0, left) \in Seq(Cell)
        /\ Len(Erase(q, 0, left)) = Len(q) - left
        /\ \A i \in 1 .. Len(q) - left : Erase(q, 0, left)[i] = q[i + left]
    BY <2>1, ErasedFront
  <2> QED BY <2>1, <2>2 DEF q
<1>1. c = [b EXCEPT !.data = d, !.max = m, !.end = 0]
  <2>1. Least(b.start + left, b.max - Padding) = left
    BY <1>b DEF Least
  <2>2. ~(b.end >= left)
    OBVIOUS
  <2>3. c = [b EXCEPT !.data = Erase(@, b.start, Least(b.start + left, b.max - Padding)),
                      !.max = @ - left,
                      !.end = IF @ >= left THEN @ - left ELSE @]
    BY DEF DropFront
  <2> HIDE DEF c
  <2> QED BY <2>1, <2>2, <2>3
<1> HIDE DEF d, m, c
<1>2. /\ c \in Buffer
      /\ c.infinite = b.infinite /\ c.max = m
      /\ c.start = b.start /\ c.end = 0 /\ c.data = d
  BY <1>1, <1>d, <1>m DEF Buffer
<1>3. Round(c) /\ WellFormed(c)
  BY <1>2, <1>b, <1>m, <1>d DEF Round, WellFormed
<1>4. SizeOf(c) = m
  <2>1. SizeOf(c) = m - (0 - 0)
    BY <1>2, <1>3, RoundContent
  <2> QED BY <2>1, <1>m
<1>l. /\ l \in Seq(Cell) /\ Len(l) = m
      /\ \A i \in 1 .. m : l[i] = b.data[CellOf(b, (i + left) - 1) + 1]
  <2>1. /\ Content(b) \in Seq(Cell) /\ Len(Content(b)) = b.max
        /\ \A i \in 1 .. b.max : Content(b)[i] = b.data[CellOf(b, i - 1) + 1]
    BY <1>b, Contents
  <2>2. m \in 0 .. Len(Content(b))
    BY <2>1, <1>m, <1>b
  <2>3. /\ l \in Seq(Cell) /\ Len(l) = m
        /\ \A i \in 1 .. m : l[i] = Content(b)[Len(Content(b)) - m + i]
    BY <2>1, <2>2, NewestFacts
  <2>4. \A i \in 1 .. m : b.max - m + i = i + left /\ i + left \in 1 .. b.max
    BY <1>m, <1>b
  <2> HIDE DEF l
  <2> QED BY <2>1, <2>3, <2>4
<1> HIDE DEF l
<1>5. ASSUME NEW i \in 1 .. SizeOf(c) PROVE c.data[CellOf(c, i - 1) + 1] = l[i]
  <2>1. i \in 1 .. m /\ CellOf(c, i - 1) = i - 1 /\ i - 1 + 1 = i
    BY <1>2, <1>4, <1>m DEF CellOf
  <2>2. CellOf(b, (i + left) - 1) + 1 = i + left
    BY <2>1, <1>b, <1>m DEF CellOf
  <2> QED BY <2>1, <2>2, <1>2, <1>d, <1>l
<1>6. Content(c) = l
  BY <1>2, <1>3, <1>4, <1>5, <1>l, ContentIs
<1> QED BY <1>2, <1>3, <1>6 DEF c, m, l

(* The buffer is scrolled and made smaller.                                    *)
LEMMA ShrinkScrolledStep ==
  ASSUME Padding = 0, NEW b \in Buffer, Round(b), b.end <= b.start,
         NEW k \in Nat \ {0}, k < b.max
  PROVE  /\ ShrinkScrolled(b, k) \in Buffer /\ Uncut(ShrinkScrolled(b, k))
         /\ ShrinkScrolled(b, k).max = k
         /\ ~ShrinkScrolled(b, k).infinite
         /\ Content(ShrinkScrolled(b, k)) = Log!Bounded(Content(b), k)
<1> DEFINE left == b.max - k
           s1 == DropEmpty(b, left)
           c1 == s1.b
           l1 == s1.left
           s3 == DropBack(c1, l1)
           c3 == s3.b
           l3 == s3.left
           c == ShrinkScrolled(b, k)
<1>b. /\ b.max \in Nat /\ WellFormed(b) /\ SizeOf(b) \in Nat
      /\ Content(b) \in Seq(Cell) /\ Len(Content(b)) = SizeOf(b)
      /\ left \in Nat /\ left < b.max /\ b.max - left = k
      /\ b.max - Padding - k = left
  <2>1. b.max \in Nat /\ WellFormed(b)
    BY RoundContent
  <2> QED BY <2>1, Contents, Sizes
<1> HIDE DEF left
<1>1. /\ c1 \in Buffer /\ Round(c1) /\ c1.end <= c1.start
      /\ l1 \in Nat /\ l1 <= left /\ c1.max - l1 = k
      /\ l1 > 0 => c1.start = c1.end
      /\ Content(c1) = Content(b)
  BY <1>b, DropEmptyStep
<1>2. c = DropFront(c3, l3)
  <2>1. DropPadding(c1, l1) = [b |-> c1, left |-> l1]
    <3>1. c1.start \in Nat /\ l1 \in Nat
      BY <1>1, Fields
    <3> HIDE DEF c1, l1
    <3> QED BY <3>1, DropPaddingStep
  <2>2. DropPadding(c1, l1).b = c1 /\ DropPadding(c1, l1).left = l1
    <3> HIDE DEF c1, l1
    <3> QED BY <2>1
  <2>3. c = LET a1 == DropEmpty(b, b.max - Padding - k)
                a2 == DropPadding(a1.b, a1.left)
                a3 == DropBack(a2.b, a2.left)
            IN DropFront(a3.b, a3.left)
    BY DEF ShrinkScrolled
  <2>4. c = LET a2 == DropPadding(c1, l1)
                a3 == DropBack(a2.b, a2.left)
            IN DropFront(a3.b, a3.left)
    BY <2>3, <1>b
  <2> HIDE DEF c, c1, l1
  <2> QED BY <2>2, <2>4
<1> HIDE DEF s1, c1, l1, c
<1>3. /\ c1.max \in Nat /\ l1 < c1.max /\ c1.max = k + l1 /\ WellFormed(c1)
      /\ SizeOf(c1) = c1.max - (c1.start - c1.end)
      /\ c1.start \in Nat /\ c1.end \in Nat
      /\ SizeOf(b) = SizeOf(c1)
  <2>1. /\ c1.max \in Nat /\ c1.start \in Nat /\ c1.end \in Nat /\ WellFormed(c1)
        /\ SizeOf(c1) = c1.max - (c1.start - c1.end)
    BY <1>1, RoundContent
  <2>2. Len(Content(c1)) = SizeOf(c1)
    BY <2>1, <1>1, Contents
  <2>3. l1 < c1.max /\ c1.max = k + l1
    <3>1. c1.max \in Nat /\ l1 \in Nat /\ c1.max - l1 = k /\ k \in Nat /\ k > 0
      BY <2>1, <1>1
    <3> HIDE DEF c1, l1
    <3> QED BY <3>1
  <2>4. SizeOf(b) = SizeOf(c1)
    BY <2>2, <1>1, <1>b
  <2> QED BY <2>1, <2>3, <2>4
<1>4. /\ c3 \in Buffer /\ Round(c3) /\ c3.end <= c3.start
      /\ l3 \in Nat /\ l3 <= l1 /\ c3.max - l3 = k
      /\ l1 = 0 => c3 = c1
      /\ l1 > 0 => /\ c3.start = c3.end
                   /\ l3 > 0 => c3.start = 0
                   /\ Content(c3) = Log!Newest(Content(c1), c3.max)
  <2>1. l1 \in Nat /\ l1 < c1.max
    BY <1>1, <1>3
  <2> USE <1>1
  <2>2. /\ c3 \in Buffer /\ Round(c3) /\ c3.end <= c3.start
        /\ l3 \in Nat /\ l3 <= l1 /\ c3.max - l3 = c1.max - l1
        /\ l1 = 0 => c3 = c1
        /\ l1 > 0 => /\ c3.start = c3.end
                     /\ l3 > 0 => c3.start = 0
                     /\ Content(c3) = Log!Newest(Content(c1), c3.max)
    BY <2>1, DropBackStep
  <2> QED BY <2>2
<1> HIDE DEF s3, c3, l3
<1>c. c3.max \in Nat /\ c3.max = k + l3 /\ l3 < c3.max /\ ~c3.infinite
  <2>1. c3.max \in Nat /\ ~c3.infinite /\ l3 \in Nat /\ c3.max - l3 = k
    BY <1>4, RoundContent
  <2> QED BY <2>1
<1>5. CASE l1 = 0
  <2>1. c = c1 /\ c1.max = k
    BY <1>1, <1>2, <1>3, <1>4, <1>5 DEF DropFront
  <2>2. Uncut(c) /\ ~c.infinite
    BY <2>1, <1>1 DEF Uncut, Round
  <2>3. Log!Bounded(Content(b), k) = Content(b)
    <3>1. k # 0 /\ Len(Content(b)) <= k
      BY <2>1, <1>1, <1>3, <1>b
    <3> QED BY <3>1, <1>b DEF Log!Bounded
  <2> QED BY <2>1, <2>2, <2>3, <1>1 DEF c
<1>6. CASE l1 > 0
  <2>1. SizeOf(b) = c1.max
    BY <1>1, <1>3, <1>6
  <2>2. Log!Bounded(Content(b), k) = Log!Newest(Content(b), k)
    <3>1. k # 0 /\ ~(Len(Content(b)) <= k)
      BY <2>1, <1>1, <1>3, <1>b, <1>6
    <3> QED BY <3>1 DEF Log!Bounded
  <2>3. c \in Buffer /\ Round(c) /\ c.end <= c.start /\ c.max = k
        /\ Content(c) = Log!Newest(Content(b), k)
    <3>1. CASE l3 = 0
      <4>1. c = c3 /\ c3.max = k
        BY <3>1, <1>2, <1>4, <1>c DEF DropFront
      <4> QED BY <4>1, <1>1, <1>4, <1>6
    <3>2. CASE l3 > 0
      <4>1. c3.start = 0 /\ c3.end = 0
        BY <3>2, <1>4, <1>6
      <4>2. /\ c \in Buffer /\ Round(c) /\ c.start = 0 /\ c.end = 0
            /\ c.max = c3.max - l3
            /\ Content(c) = Log!Newest(Content(c3), c3.max - l3)
        BY <4>1, <3>2, <1>2, <1>4, <1>c, DropFrontStep
      <4>3. Log!Newest(Log!Newest(Content(b), c3.max), k) = Log!Newest(Content(b), k)
        <5>1. c3.max \in 0 .. Len(Content(b)) /\ k \in 0 .. c3.max
          BY <2>1, <1>1, <1>3, <1>4, <1>b, <1>c
        <5> QED BY <5>1, <1>b, NewestOfNewest
      <4>4. Content(c3) = Log!Newest(Content(b), c3.max) /\ c3.max - l3 = k
        BY <1>1, <1>4, <1>6
      <4> QED BY <4>2, <4>3, <4>4
    <3> QED BY <3>1, <3>2, <1>4
  <2>4. Uncut(c) /\ ~c.infinite
    BY <2>3 DEF Uncut, Round
  <2> QED BY <2>2, <2>3, <2>4 DEF c
<1> QED BY <1>1, <1>5, <1>6

(* The data of Grown: what lies from cell z on moves to the end of the vector. *)
Moved(s, k, m, z) ==
  LET data == SubSeq(s \o Cells(k), 1, k)
      tail == Part(data, z, m)
  IN SubSeq(data, 1, k - Len(tail)) \o tail

(* The cells before the end stay, those behind it move up. *)
LEMMA MovedTail ==
  ASSUME NEW b \in Buffer, Len(b.data) = b.max, b.end <= b.max,
         NEW k \in Nat, b.max < k,
         NEW d, d = Moved(b.data, k, b.max, b.end)
  PROVE  /\ d \in Seq(Cell) /\ Len(d) = k
         /\ \A i \in 1 .. b.end : d[i] = b.data[i]
         /\ \A i \in 1 .. b.max - b.end : d[b.end + (k - b.max) + i] = b.data[b.end + i]
<1> DEFINE s == b.data
           m == b.max
           z == b.end
<1>0. /\ s \in Seq(Cell) /\ m \in Nat /\ z \in Nat
      /\ Len(s) = m /\ m < k /\ z <= m
  BY Fields
<1>m. d = Moved(s, k, m, z)
  OBVIOUS
<1> HIDE DEF s, m, z
<1> DEFINE more == Cells(k)
           long == s \o more
           data == SubSeq(long, 1, k)
           tail == Part(data, z, m)
           h == k - (m - z)
           head == SubSeq(data, 1, h)
           moved == SubSeq(data, 1, k - Len(tail)) \o tail
<1>n. /\ m \in Nat /\ m < k /\ z \in Nat /\ z <= m /\ h \in 0 .. k /\ z <= h
      /\ h + (m - z) = k /\ z + (k - m) = h /\ m <= k
  BY <1>0
<1>1. more \in Seq(Cell) /\ Len(more) = k
  <2>1. more \in [1 .. k -> Cell]
    BY DEF Cells, Cell
  <2> QED BY <2>1, FunctionIsSeq
<1> HIDE DEF more
<1>2. /\ long \in Seq(Cell) /\ Len(long) = m + k
      /\ \A i \in 1 .. m : long[i] = s[i]
  BY <1>0, <1>1, JoinFacts
<1> HIDE DEF long
<1>3. /\ data \in Seq(Cell) /\ Len(data) = k
      /\ \A i \in 1 .. m : data[i] = s[i]
  <2>1. k \in 0 .. Len(long)
    BY <1>n, <1>2
  <2>2. /\ data \in Seq(Cell) /\ Len(data) = k
        /\ \A i \in 1 .. k : data[i] = long[i]
    BY <2>1, <1>2, FirstFacts
  <2>3. \A i \in 1 .. m : i \in 1 .. k
    BY <1>n
  <2> QED BY <2>2, <2>3, <1>2
<1> HIDE DEF data
<1>4. /\ tail \in Seq(Cell) /\ Len(tail) = m - z
      /\ \A i \in 1 .. m - z : tail[i] = s[z + i]
  <2>1. /\ tail \in Seq(Cell) /\ Len(tail) = m - z
        /\ \A i \in 1 .. m - z : tail[i] = data[z + i]
    BY <1>n, <1>3, PartFacts
  <2>2. \A i \in 1 .. m - z : z + i \in 1 .. m
    BY <1>n
  <2> QED BY <2>1, <2>2, <1>3
<1>6. moved = head \o tail
  BY <1>4
<1> HIDE DEF tail, h
<1>5. /\ head \in Seq(Cell) /\ Len(head) = h
      /\ \A i \in 1 .. h : head[i] = data[i]
  BY <1>n, <1>3, FirstFacts
<1> HIDE DEF head, moved
<1>8. /\ moved \in Seq(Cell) /\ Len(moved) = h + (m - z)
      /\ \A i \in 1 .. h : moved[i] = head[i]
      /\ \A i \in 1 .. m - z : moved[h + i] = tail[i]
  <2>1. /\ head \o tail \in Seq(Cell)
        /\ Len(head \o tail) = Len(head) + Len(tail)
        /\ \A x \in 1 .. Len(head) : (head \o tail)[x] = head[x]
        /\ \A x \in 1 .. Len(tail) : (head \o tail)[Len(head) + x] = tail[x]
    BY <1>4, <1>5, JoinFacts
  <2> QED BY <2>1, <1>4, <1>5, <1>6
<1>9. \A i \in 1 .. z : moved[i] = s[i]
  <2>1. \A i \in 1 .. z : i \in 1 .. h /\ i \in 1 .. m
    BY <1>n
  <2> QED BY <2>1, <1>3, <1>5, <1>8
<1>10. \A i \in 1 .. m - z : moved[z + (k - m) + i] = s[z + i]
  BY <1>n, <1>4, <1>8
<1> QED BY <1>m, <1>n, <1>4, <1>8, <1>9, <1>10
       DEF moved, tail, data, long, more, Moved, s, m, z

(* The buffer is made larger: nothing moves for the reader.                    *)
LEMMA GrowStep ==
  ASSUME Padding = 0, NEW b \in Buffer, Uncut(b), NEW k \in Nat \ {0}, b.max < k
  PROVE  /\ Grown(b, k) \in Buffer /\ Uncut(Grown(b, k))
         /\ Grown(b, k).max = k
         /\ ~Grown(b, k).infinite
         /\ Content(Grown(b, k)) = Content(b)
<1> DEFINE c == Grown(b, k)
<1>1. CASE Filling(b) /\ b.start = 0
  <2>b. /\ b.max \in Nat /\ b.end \in Nat /\ b.end < b.max /\ Len(b.data) = b.end
        /\ ~b.infinite /\ ~IsScrolled(b) /\ Content(b) = b.data
    BY <1>1, StraightContent
  <2>1. c = [b EXCEPT !.max = k]
    <3>1. c = [b EXCEPT !.max = k + Padding]
      BY <2>b DEF Grown
    <3> QED BY <3>1
  <2> HIDE DEF c
  <2>2. /\ c \in Buffer
        /\ c.infinite = b.infinite /\ c.max = k /\ c.start = b.start
        /\ c.end = b.end /\ c.data = b.data
    BY <2>1 DEF Buffer
  <2>3. Filling(c) /\ c.start = 0
    BY <2>b, <2>2, <1>1 DEF Filling
  <2>4. Content(c) = c.data
    BY <2>2, <2>3, StraightContent
  <2> QED BY <2>b, <2>2, <2>3, <2>4 DEF Uncut, c
<1>2. CASE Round(b) /\ b.end <= b.start
  <2> DEFINE q == b.data
             z == b.end
             m == b.max
             d == Moved(q, k, m, z)
             x == b.start + (k - m)
  <2>b. /\ m \in Nat /\ b.start \in Nat /\ z \in Nat
        /\ b.start < m /\ z < m /\ z <= b.start /\ m < k
        /\ q \in Seq(Cell) /\ Len(q) = m /\ ~b.infinite
        /\ IsScrolled(b) /\ WellFormed(b)
        /\ SizeOf(b) = m - (b.start - z)
    BY <1>2, RoundContent
  <2>1. c = [b EXCEPT !.data = d, !.start = x, !.max = k]
    <3>1. c = LET size == k + Padding
                  data == SubSeq(b.data \o Cells(size), 1, size)
                  t == Part(data, b.end, b.max)
              IN [b EXCEPT !.data = SubSeq(data, 1, size - Len(t)) \o t,
                           !.start = IF b.start >= b.end THEN @ + (size - b.max) ELSE @,
                           !.max = size]
      BY <2>b DEF Grown
    <3>2. k + Padding = k /\ b.start >= b.end
      BY <2>b
    <3> HIDE DEF c
    <3> QED BY <3>1, <3>2 DEF Moved
  <2>f. b.data = q /\ b.end = z /\ b.max = m
    OBVIOUS
  <2> HIDE DEF q, z, m, x, c
  <2>d. /\ d \in Seq(Cell) /\ Len(d) = k
        /\ \A i \in 1 .. z : d[i] = q[i]
        /\ \A i \in 1 .. m - z : d[z + (k - m) + i] = q[z + i]
    <3>1. k \in Nat /\ Len(b.data) = b.max /\ b.end <= b.max
      BY <2>b DEF m, q, z
    <3>2. d = Moved(b.data, k, b.max, b.end)
      BY <2>f
    <3> HIDE DEF d
    <3>3. /\ d \in Seq(Cell) /\ Len(d) = k
          /\ \A i \in 1 .. b.end : d[i] = b.data[i]
          /\ \A i \in 1 .. b.max - b.end : d[b.end + (k - b.max) + i] = b.data[b.end + i]
      BY <3>1, <3>2, MovedTail
    <3> QED BY <3>3, <2>f
  <2>i. /\ m \in Nat /\ b.start \in Nat /\ z \in Nat /\ k \in Nat
        /\ b.start < m /\ z < m /\ z <= b.start /\ m < k
    BY <2>b
  <2>x. x \in Nat /\ x < k /\ z <= x /\ z < k /\ x = b.start + (k - m)
    BY <2>i DEF x
  <2> HIDE DEF d
  <2>2. /\ c \in Buffer
        /\ c.infinite = b.infinite /\ c.max = k /\ c.start = x
        /\ c.end = z /\ c.data = d
    <3>1. d \in Seq(Cell) /\ x \in Nat /\ k \in Nat
      BY <2>d, <2>x
    <3> QED BY <3>1, <2>1, <2>f DEF Buffer
  <2>3. Round(c) /\ WellFormed(c) /\ Uncut(c)
    BY <2>b, <2>2, <2>d, <2>x DEF Round, WellFormed, Uncut
  <2>4. SizeOf(c) = SizeOf(b)
    <3>1. SizeOf(c) = k - (x - z)
      BY <2>2, <2>3, <2>x, RoundContent
    <3>2. k - (x - z) = m - (b.start - z)
      BY <2>b, <2>x
    <3> QED BY <3>1, <3>2, <2>b
  <2>5. ASSUME NEW i \in 1 .. SizeOf(c)
        PROVE  c.data[CellOf(c, i - 1) + 1] = Content(b)[i]
    <3>1. i \in Int /\ i >= 1 /\ i \in 1 .. SizeOf(b) /\ i <= m - (b.start - z)
      BY <2>4, <2>b
    <3>2. CellOf(c, i - 1) = IF x + (i - 1) >= k THEN x + (i - 1) - k ELSE x + (i - 1)
      BY <2>2 DEF CellOf
    <3>3. CellOf(b, i - 1) = IF b.start + (i - 1) >= m THEN b.start + (i - 1) - m
                             ELSE b.start + (i - 1)
      BY <2>f DEF CellOf
    <3>4. Content(b)[i] = q[CellOf(b, i - 1) + 1]
      BY <3>1, <2>b, <2>f, Contents
    <3> DEFINE y == b.start + (i - 1)
    <3>y. y \in Int /\ y >= b.start /\ x + (i - 1) = y + (k - m) /\ y < m + z
      BY <3>1, <2>i, <2>x
    <3>z. b.start + (i - 1) - m = y - m /\ x + (i - 1) - k = (y + (k - m)) - k
      BY <3>1, <2>i, <2>x
    <3> HIDE DEF y
    <3>5. CASE y >= m
      <4>1. y + (k - m) >= k /\ (y + (k - m)) - k = y - m /\ y - m + 1 \in 1 .. z
        BY <3>5, <3>y, <2>i
      <4>2. CellOf(c, i - 1) = y - m
        BY <4>1, <3>2, <3>y, <3>z
      <4>3. CellOf(b, i - 1) = y - m
        BY <3>3, <3>5, <3>z DEF y
      <4> QED BY <4>1, <4>2, <4>3, <3>4, <2>2, <2>d
    <3>6. CASE ~(y >= m)
      <4>1. /\ ~(y + (k - m) >= k) /\ y + 1 - z \in 1 .. m - z
            /\ z + (k - m) + (y + 1 - z) = y + (k - m) + 1
            /\ z + (y + 1 - z) = y + 1
        BY <3>6, <3>y, <2>i
      <4>2. CellOf(c, i - 1) = y + (k - m)
        BY <4>1, <3>2, <3>y
      <4>3. CellOf(b, i - 1) = y
        BY <3>3, <3>6 DEF y
      <4>4. d[y + (k - m) + 1] = q[y + 1]
        BY <4>1, <2>d
      <4> QED BY <4>2, <4>3, <4>4, <3>4, <2>2
    <3> QED BY <3>5, <3>6
  <2>6. Content(c) = Content(b)
    BY <2>2, <2>3, <2>4, <2>5, <2>b, Contents, ContentIs
  <2> QED BY <2>b, <2>2, <2>3, <2>6 DEF c
<1> QED BY <1>1, <1>2 DEF Uncut

(* resize() to a size that is not zero is a resize of the log. *)
LEMMA ResizeStep ==
  ASSUME Padding = 0, NEW b \in Buffer, Uncut(b), NEW k \in Nat \ {0}
  PROVE  /\ Resized(b, k) \in Buffer /\ Uncut(Resized(b, k))
         /\ Capacity(Resized(b, k)) = k
         /\ Content(Resized(b, k)) = Log!Bounded(Content(b), k)
<1> DEFINE r == Resized(b, k)
<1>b. /\ b.max \in Nat /\ ~b.infinite /\ WellFormed(b) /\ SizeOf(b) \in Nat
      /\ SizeOf(b) <= b.max
      /\ Content(b) \in Seq(Cell) /\ Len(Content(b)) = SizeOf(b)
      /\ IsScrolled(b) => Round(b) /\ b.end <= b.start
      /\ ~IsScrolled(b) => Filling(b) /\ b.start = 0
  <2>1. CASE Filling(b) /\ b.start = 0
    BY <2>1, StraightContent, Contents, Sizes
  <2>2. CASE Round(b) /\ b.end <= b.start
    <3>1. /\ b.max \in Nat /\ b.start \in Nat /\ b.end \in Nat /\ ~b.infinite
          /\ IsScrolled(b) /\ WellFormed(b)
          /\ SizeOf(b) = b.max - (b.start - b.end)
      BY <2>2, RoundContent
    <3>2. SizeOf(b) <= b.max
      BY <3>1, <2>2
    <3> QED BY <2>2, <3>1, <3>2, Contents, Sizes
  <2> QED BY <2>1, <2>2 DEF Uncut
<1>c. [b EXCEPT !.infinite = FALSE] = b
  BY <1>b DEF Buffer
<1>p. b.max - Padding = b.max
  BY <1>b
<1>0. r = CASE b.max > k /\ ~IsScrolled(b) -> ShrinkStraight(b, k)
            [] b.max > k /\ IsScrolled(b)  -> ShrinkScrolled(b, k)
            [] b.max < k                   -> Grown(b, k)
            [] OTHER                       -> b
  BY <1>c, <1>p DEF Resized
<1> HIDE DEF r
<1>s. ASSUME r \in Buffer, Uncut(r), r.max = k, ~r.infinite PROVE Capacity(r) = k
  BY <1>s DEF Capacity
<1>1. CASE b.max > k /\ ~IsScrolled(b)
  <2>0. ~(b.max < k)
    BY <1>1, <1>b
  <2>1. r = ShrinkStraight(b, k)
    BY <1>0, <1>1, <2>0
  <2>2. k < b.max /\ Filling(b) /\ b.start = 0
    BY <1>1, <1>b
  <2>3. /\ r \in Buffer /\ Uncut(r) /\ r.max = k /\ ~r.infinite
        /\ Content(r) = Log!Bounded(Content(b), k)
    BY <2>1, <2>2, ShrinkStraightStep
  <2> QED BY <2>3, <1>s DEF r
<1>2. CASE b.max > k /\ IsScrolled(b)
  <2>0. ~(b.max < k)
    BY <1>2, <1>b
  <2>1. r = ShrinkScrolled(b, k)
    BY <1>0, <1>2, <2>0
  <2>2. k < b.max /\ Round(b) /\ b.end <= b.start
    BY <1>2, <1>b
  <2>3. /\ r \in Buffer /\ Uncut(r) /\ r.max = k /\ ~r.infinite
        /\ Content(r) = Log!Bounded(Content(b), k)
    BY <2>1, <2>2, ShrinkScrolledStep
  <2> QED BY <2>3, <1>s DEF r
<1>3. CASE ~(b.max > k)
  <2>1. Log!Bounded(Content(b), k) = Content(b)
    BY <1>3, <1>b DEF Log!Bounded
  <2>2. CASE b.max < k
    <3>1. r = Grown(b, k)
      BY <1>0, <2>2, <1>3
    <3>2. /\ r \in Buffer /\ Uncut(r) /\ r.max = k /\ ~r.infinite
          /\ Content(r) = Content(b)
      BY <3>1, <2>2, GrowStep
    <3> QED BY <2>1, <3>2, <1>s DEF r
  <2>3. CASE b.max = k
    <3>1. r = b
      BY <1>0, <2>3, <1>3
    <3> QED BY <2>1, <2>3, <3>1, <1>b, <1>s DEF r
  <2> QED BY <2>2, <2>3, <1>3, <1>b
<1> QED BY <1>1, <1>2, <1>3

-------------------------------------------------------------------------------
(* The ways in which the buffer is used.                                       *)

FixedSize == {"push", "pop", "clear", "slide"}
NotCut == {"push", "clear", "slide", "resize", "window"}

(* A user takes values away, or changes the size, which then is never zero,    *)
(* but does not do both.                                                       *)
KeepsOrder(u) == \/ u.ops \subseteq FixedSize
                 \/ u.ops \subseteq NotCut /\ 0 \notin u.sizes

InOrder == Padding = 0 /\ \A u \in Users : KeepsOrder(u)

BufInv == /\ user \in Users
          /\ buf \in Buffer
          /\ WellFormed(buf)
          /\ ~(user.ops \subseteq FixedSize) => Uncut(buf)

(* What the hypothesis says of one user. *)
LEMMA UserFacts ==
  ASSUME InOrder, user \in Users
  PROVE  /\ \/ user.ops \subseteq FixedSize
            \/ user.ops \subseteq NotCut /\ 0 \notin user.sizes
         /\ user.sizes \subseteq Nat
         /\ user.sizes \subseteq UNION {u.sizes : u \in Users}
<1>1. user.ops \subseteq FixedSize \/ (user.ops \subseteq NotCut /\ 0 \notin user.sizes)
  BY DEF InOrder, KeepsOrder
<1>2. user.sizes \subseteq Nat
  BY BufferAssumption
<1>3. user.sizes \subseteq UNION {u.sizes : u \in Users}
  OBVIOUS
<1> QED BY <1>1, <1>2, <1>3

(* A new buffer is an empty log. *)
LEMMA NewBuffer ==
  ASSUME Padding = 0, NEW k \in Nat
  PROVE  /\ New(k) \in Buffer /\ WellFormed(New(k))
         /\ k # 0 => Uncut(New(k))
         /\ Capacity(New(k)) = k
         /\ Content(New(k)) = <<>>
<1> DEFINE c == New(k)
<1>1. c = [infinite |-> k = 0, max |-> k, start |-> 0, end |-> 0, data |-> <<>>]
  <2>1. Cells(0) = <<>>
    BY DEF Cells
  <2> QED BY <2>1 DEF New
<1> HIDE DEF c
<1>e. <<>> \in Seq(Cell) /\ Len(<<>>) = 0
  BY EmptySeq
<1> DEFINE i == k = 0
           d == <<>>
<1>i. i \in BOOLEAN /\ d \in Seq(Cell) /\ Len(d) = 0 /\ 0 \in Nat /\ k \in Nat
  BY <1>e
<1>0. c = [infinite |-> i, max |-> k, start |-> 0, end |-> 0, data |-> d]
  BY <1>1
<1> HIDE DEF i, d
<1>2. /\ c \in Buffer
      /\ c.infinite = i /\ c.max = k /\ c.start = 0 /\ c.end = 0
      /\ c.data = d /\ Len(c.data) = 0
  BY <1>0, <1>i DEF Buffer
<1>3. WellFormed(c) /\ (k # 0 => Uncut(c)) /\ Capacity(c) = k
  <2>1. CASE k = 0
    <3>0. c.infinite
      BY <2>1, <1>2 DEF i
    <3>1. Unlimited(c)
      BY <2>1, <3>0, <1>2 DEF Unlimited
    <3> QED BY <2>1, <3>0, <3>1, <1>2 DEF WellFormed, Capacity
  <2>2. CASE k # 0
    <3>0. ~c.infinite
      BY <2>2, <1>2 DEF i
    <3>1. Filling(c) /\ c.start = 0
      BY <2>2, <3>0, <1>i, <1>2 DEF Filling
    <3>2. Capacity(c) = k
      BY <3>0, <1>2 DEF Capacity
    <3> QED BY <2>2, <3>1, <3>2 DEF WellFormed, Uncut
  <2> QED BY <2>1, <2>2
<1>4. SizeOf(c) = 0
  BY <1>2 DEF SizeOf
<1>5. Content(c) = d
  <2>1. \A x \in 1 .. SizeOf(c) : c.data[CellOf(c, x - 1) + 1] = d[x]
    BY <1>4
  <2> QED BY <2>1, <1>2, <1>3, <1>4, <1>i, ContentIs
<1> QED BY <1>2, <1>3, <1>5 DEF c, d

(* An action of the specification keeps the invariant, and is a step of the log. *)
LEMMA PushAction ==
  ASSUME InOrder, BufInv, PushBack
  PROVE  BufInv' /\ \E v \in Value : Log!PushBack(v)
<1>1. Padding = 0 /\ user \in Users /\ buf \in Buffer /\ WellFormed(buf)
  BY DEF InOrder, BufInv
<1>2. PICK v \in Value : buf' = Pushed(buf, v)
  BY DEF PushBack
<1>3. /\ Pushed(buf, v) \in Buffer /\ WellFormed(Pushed(buf, v))
      /\ Uncut(buf) => Uncut(Pushed(buf, v))
      /\ Capacity(Pushed(buf, v)) = Capacity(buf)
      /\ Content(Pushed(buf, v)) = Log!Bounded(Append(Content(buf), v), Capacity(buf))
  BY <1>1, PushStep
<1>4. BufInv'
  BY <1>2, <1>3 DEF PushBack, BufInv
<1>5. Log!PushBack(v)
  BY <1>2, <1>3 DEF Log!PushBack
<1> QED BY <1>4, <1>5

(* Likewise; taking from an empty buffer changes nothing. *)
LEMMA PopAction ==
  ASSUME InOrder, BufInv, PopFront
  PROVE  BufInv' /\ (Log!PopFront \/ buf' = buf)
<1>1. Padding = 0 /\ user \in Users /\ buf \in Buffer /\ WellFormed(buf)
  BY DEF InOrder, BufInv
<1>2. buf' = Popped(buf) /\ user' = user
  BY DEF PopFront
<1>3. /\ Popped(buf) \in Buffer /\ WellFormed(Popped(buf))
      /\ Capacity(Popped(buf)) = Capacity(buf)
      /\ SizeOf(buf) = 0 => Popped(buf) = buf
      /\ SizeOf(buf) > 0 => Content(Popped(buf)) = Tail(Content(buf))
  BY <1>1, PopStep
<1>4. BufInv'
  <2>1. user.ops \subseteq FixedSize
    BY <1>1, UserFacts DEF PopFront, NotCut
  <2> QED BY <1>1, <1>2, <1>3, <2>1 DEF BufInv
<1>5. SizeOf(buf) > 0 => Log!PopFront
  <2>1. SizeOf(buf) > 0 => Content(buf) # <<>>
    BY <1>1, Contents, EmptySeq
  <2> QED BY <1>2, <1>3, <2>1 DEF Log!PopFront
<1>6. SizeOf(buf) > 0 \/ SizeOf(buf) = 0
  BY <1>1, Sizes
<1> QED BY <1>2, <1>3, <1>4, <1>5, <1>6

(* Likewise. *)
LEMMA ClearAction ==
  ASSUME InOrder, BufInv, Clear
  PROVE  BufInv' /\ Log!Clear
<1>1. Padding = 0 /\ user \in Users /\ buf \in Buffer /\ WellFormed(buf)
  BY DEF InOrder, BufInv
<1>2. buf' = Cleared(buf) /\ user' = user
  BY DEF Clear
<1>3. /\ Cleared(buf) \in Buffer /\ WellFormed(Cleared(buf))
      /\ Filling(buf) \/ Round(buf) => Filling(Cleared(buf)) /\ Cleared(buf).start = 0
      /\ Capacity(Cleared(buf)) = Capacity(buf)
      /\ Content(Cleared(buf)) = <<>>
  BY <1>1, ClearStep
<1>4. BufInv'
  BY <1>1, <1>2, <1>3 DEF BufInv, Uncut
<1>5. Log!Clear
  BY <1>2, <1>3 DEF Log!Clear
<1> QED BY <1>4, <1>5

(* Likewise, for resize() and for a window that is made wider. *)
LEMMA ResizeAction ==
  ASSUME InOrder, BufInv, ~(user.ops \subseteq FixedSize),
         NEW k \in user.sizes, buf' = Resized(buf, k), user' = user
  PROVE  BufInv' /\ \E n \in UNION {u.sizes : u \in Users} : Log!Resize(n)
<1>1. Padding = 0 /\ user \in Users /\ buf \in Buffer /\ Uncut(buf)
  BY DEF InOrder, BufInv
<1>2. k \in Nat \ {0} /\ k \in UNION {u.sizes : u \in Users}
  BY <1>1, UserFacts
<1>3. /\ Resized(buf, k) \in Buffer /\ Uncut(Resized(buf, k))
      /\ Capacity(Resized(buf, k)) = k
      /\ Content(Resized(buf, k)) = Log!Bounded(Content(buf), k)
  BY <1>1, <1>2, ResizeStep
<1>4. BufInv'
  BY <1>1, <1>3 DEF BufInv, Uncut, WellFormed
<1>5. Log!Resize(k)
  BY <1>3 DEF Log!Resize
<1> QED BY <1>2, <1>4, <1>5

(* Likewise. *)
LEMMA SlideAction ==
  ASSUME InOrder, BufInv, Slide
  PROVE  BufInv' /\ \E v \in Value : Log!PushBack(v)
<1>1. Padding = 0 /\ user \in Users /\ buf \in Buffer /\ WellFormed(buf)
  BY DEF InOrder, BufInv
<1>2. PICK v \in Value :
        buf' = Pushed(IF SizeOf(buf) = Capacity(buf) THEN Popped(buf) ELSE buf, v)
  BY DEF Slide
<1>3. /\ buf' \in Buffer /\ WellFormed(buf')
      /\ Uncut(buf) => Uncut(buf')
      /\ Capacity(buf') = Capacity(buf)
      /\ Content(buf') = Log!Bounded(Append(Content(buf), v), Capacity(buf))
  BY <1>1, <1>2, SlideStep
<1>4. BufInv'
  BY <1>3 DEF Slide, BufInv
<1>5. Log!PushBack(v)
  BY <1>3 DEF Log!PushBack
<1> QED BY <1>4, <1>5

(* Every step keeps the invariant, and is one of the log or leaves it alone.   *)
LEMMA BufferNext ==
  ASSUME InOrder, BufInv, Next
  PROVE  BufInv' /\ (Log!Next \/ buf' = buf)
<1>1. CASE PushBack
  BY <1>1, PushAction DEF Log!Next
<1>2. CASE PopFront
  BY <1>2, PopAction DEF Log!Next
<1>3. CASE Clear
  BY <1>3, ClearAction DEF Log!Next
<1>4. CASE Resize
  <2>1. PICK k \in user.sizes : buf' = Resized(buf, k)
    BY <1>4 DEF Resize
  <2>2. ~(user.ops \subseteq FixedSize) /\ user' = user
    BY <1>4 DEF Resize, FixedSize
  <2> QED BY <2>1, <2>2, ResizeAction DEF Log!Next
<1>5. CASE Slide
  BY <1>5, SlideAction DEF Log!Next
<1>6. CASE SetWindowSize
  <2>1. PICK k \in user.sizes :
          /\ "narrow" \in user.ops \/ k >= Capacity(buf)
          /\ buf' = Resized(Narrowed(buf, k), k)
    BY <1>6 DEF SetWindowSize
  <2>2. ~(user.ops \subseteq FixedSize) /\ user' = user /\ user \in Users
    BY <1>6 DEF SetWindowSize, FixedSize, BufInv
  <2>3. "narrow" \notin user.ops
    BY <2>2, UserFacts DEF NotCut
  <2>4. Narrowed(buf, k) = buf
    BY <2>1, <2>3 DEF Narrowed
  <2> QED BY <2>1, <2>2, <2>4, ResizeAction DEF Log!Next
<1> QED BY <1>1, <1>2, <1>3, <1>4, <1>5, <1>6 DEF Next

(* Initially. *)
LEMMA BufferInit ==
  ASSUME InOrder, Init
  PROVE  BufInv /\ Log!Init
<1>1. Padding = 0 /\ user \in Users
  BY DEF InOrder, Init
<1>2. PICK k \in user.sizes : buf = New(k)
  BY DEF Init
<1>3. /\ user.ops \subseteq FixedSize \/ k # 0
      /\ k \in Nat /\ k \in UNION {u.sizes : u \in Users}
  BY <1>1, UserFacts
<1>4. /\ New(k) \in Buffer /\ WellFormed(New(k))
      /\ k # 0 => Uncut(New(k))
      /\ Capacity(New(k)) = k
      /\ Content(New(k)) = <<>>
  BY <1>1, <1>3, NewBuffer
<1> QED BY <1>1, <1>2, <1>3, <1>4 DEF BufInv, Log!Init

(* The invariant holds in every reachable state. *)
LEMMA BufInvAlways == InOrder => (Spec => []BufInv)
<1> SUFFICES ASSUME InOrder PROVE Spec => []BufInv
  OBVIOUS
<1>1. Init => BufInv
  BY BufferInit
<1>2. BufInv /\ [Next]_vars => BufInv'
  <2>1. ASSUME BufInv, UNCHANGED vars PROVE BufInv'
    BY <2>1 DEF vars, BufInv
  <2> QED BY <2>1, BufferNext
<1> QED BY <1>1, <1>2, PTL DEF Spec

(* front() and back() are the first and the last value that at() gives.        *)
THEOREM EndsAgreeAlways == InOrder => (Spec => []EndsAgree)
<1> SUFFICES ASSUME InOrder PROVE Spec => []EndsAgree
  OBVIOUS
<1>1. BufInv => EndsAgree
  <2> SUFFICES ASSUME BufInv, ~Empty(buf)
               PROVE  /\ FrontCell(buf) = CellOf(buf, 0)
                      /\ BackCell(buf) = CellOf(buf, SizeOf(buf) - 1)
    BY DEF EndsAgree
  <2> DEFINE b == buf
  <2>1. /\ Padding = 0 /\ b \in Buffer /\ WellFormed(b)
        /\ SizeOf(b) # 0
    BY DEF InOrder, BufInv, Empty
  <2> HIDE DEF b
  <2>2. /\ b.max \in Nat /\ b.start \in Nat /\ b.end \in Nat /\ Len(b.data) \in Nat
        /\ SizeOf(b) \in Nat
    BY <2>1, Fields, Sizes
  <2>3. FrontCell(b) = CellOf(b, 0) /\ BackCell(b) = CellOf(b, SizeOf(b) - 1)
    <3>1. CASE Unlimited(b)
      <4>1. SizeOf(b) = Len(b.data)
        BY <3>1, <2>1, Sizes
      <4> QED BY <3>1, <4>1, <2>1, <2>2 DEF Unlimited, FrontCell, BackCell, CellOf
    <3>2. CASE Filling(b)
      <4>1. SizeOf(b) = b.end - b.start
        BY <3>2, <2>1, Sizes
      <4> QED BY <3>2, <4>1, <2>1, <2>2 DEF Filling, FrontCell, BackCell, CellOf
    <3>3. CASE Round(b)
      <4>1. SizeOf(b) = IF b.start < b.end THEN b.end - b.start
                        ELSE b.max - (b.start - b.end)
        BY <3>3, <2>1, Sizes
      <4>2. FrontCell(b) = CellOf(b, 0)
        BY <3>3, <2>2 DEF Round, FrontCell, CellOf
      <4>3. BackCell(b) = IF b.end = 0 THEN b.max - 1 ELSE b.end - 1
        BY <3>3, <2>2 DEF Round, BackCell
      <4>4. CASE b.start < b.end
        <5>1. b.start + (SizeOf(b) - 1) = b.end - 1 /\ b.end - 1 < b.max /\ b.end # 0
          BY <4>1, <4>4, <3>3, <2>2 DEF Round
        <5>2. CellOf(b, SizeOf(b) - 1) = b.end - 1
          BY <5>1, <3>3, <2>2 DEF Round, CellOf
        <5> QED BY <4>2, <4>3, <5>1, <5>2
      <4>5. CASE ~(b.start < b.end)
        <5>1. /\ b.start + (SizeOf(b) - 1) = b.max + b.end - 1
              /\ b.start + (SizeOf(b) - 1) - b.max = b.end - 1
          BY <4>1, <4>5, <3>3, <2>2 DEF Round
        <5>2. CASE b.end = 0
          <6>1. b.start + (SizeOf(b) - 1) = b.max - 1 /\ ~(b.max - 1 >= b.max)
            BY <5>1, <5>2, <2>2
          <6>2. CellOf(b, SizeOf(b) - 1) = b.max - 1
            BY <6>1 DEF CellOf
          <6> QED BY <4>2, <4>3, <5>2, <6>2
        <5>3. CASE b.end # 0
          <6>1. b.start + (SizeOf(b) - 1) >= b.max
            BY <5>1, <5>3, <2>2
          <6>2. CellOf(b, SizeOf(b) - 1) = b.end - 1
            BY <5>1, <6>1 DEF CellOf
          <6> QED BY <4>2, <4>3, <5>3, <6>2
        <5> QED BY <5>2, <5>3
      <4> QED BY <4>2, <4>4, <4>5
    <3> QED BY <3>1, <3>2, <3>3, <2>1 DEF WellFormed
  <2> QED BY <2>3 DEF b
<1> QED BY <1>1, BufInvAlways, PTL

(* The buffer implements the log of the last values.                           *)
THEOREM BufferIsLog == InOrder => (Spec => IsLog)
<1> SUFFICES ASSUME InOrder PROVE Spec => IsLog
  OBVIOUS
<1>1. Init => Log!Init
  BY BufferInit
<1>2. BufInv /\ [Next]_vars => [Log!Next]_<<Content(buf), Capacity(buf)>>
  <2>1. ASSUME UNCHANGED vars PROVE UNCHANGED <<Content(buf), Capacity(buf)>>
    BY <2>1 DEF vars
  <2>2. ASSUME BufInv, Next
        PROVE  Log!Next \/ UNCHANGED <<Content(buf), Capacity(buf)>>
    BY <2>2, BufferNext
  <2> QED BY <2>1, <2>2
<1> QED BY <1>1, <1>2, BufInvAlways, PTL DEF Spec, IsLog, Log!Spec

===============================================================================
