---------------------------- MODULE PinValueProofs ----------------------------
(* Proofs about PinValue, for any pins, readers, links and batches, and for    *)
(* every use the callbacks make of a value: type correctness, and that the     *)
(* access counter of a pin never stands for more than its marked links and the *)
(* wrappers around its value.                                                  *)
EXTENDS PinValue, FiniteSetTheorems, TLAPS

(* The writer is at a pin of its batch. *)
WriterInBatch ==
  /\ writer.pc \in {"request", "waiting", "checked"} =>
       writer.batch \in Batches /\ writer.held + 1 <= Len(writer.batch)
  /\ writer.pc = "writing" => writer.batch \in Batches /\ writer.held <= Len(writer.batch)
  /\ writer.pc = "idle" => writer.held = 0

(* A pin the writer has seen without readers. *)
Seen(p) == \/ p \in Held
           \/ writer.pc = "checked" /\ p = Wanted

(* What makes CounterJustified inductive: a change adds a count for a link that *)
(* may be marked already, which is one count too many unless the marks counted  *)
(* for nothing before.  They do: since the writer saw the counter at zero only  *)
(* wrappers have raised it.                                                     *)
OnlyWrappersCount ==
  \A p \in Pins : Seen(p) => counter[p] <= Cardinality(Holders(p))

Typed == TypeOK /\ WriterInBatch
IInv == Typed /\ CounterJustified /\ OnlyWrappersCount

-------------------------------------------------------------------------------
(* Finite sets.                                                                *)

LEMMA LinkFacts ==
  /\ \A l \in Links : l[1] \in Nodes /\ l[2] \in Pins
  /\ \A M \in SUBSET Links, p \in Pins :
       IsFiniteSet(M \cap LinksOf(p)) /\ Cardinality(M \cap LinksOf(p)) \in Nat
<1>1. \A l \in Links : l[1] \in Nodes /\ l[2] \in Pins
  BY PinValueAssumption
<1>2. ASSUME NEW M \in SUBSET Links, NEW p \in Pins
      PROVE  IsFiniteSet(M \cap LinksOf(p)) /\ Cardinality(M \cap LinksOf(p)) \in Nat
  BY PinValueAssumption, FS_Subset, FS_CardinalityType, M \cap LinksOf(p) \in SUBSET Links
<1> QED BY <1>1, <1>2

LEMMA WrapperSets ==
  \A H \in SUBSET (Nodes \X {1, 2}) : IsFiniteSet(H) /\ Cardinality(H) \in Nat
<1>1. IsFiniteSet({1, 2})
  <2>1. 1 .. 2 = {1, 2} /\ 1 \in Int /\ 2 \in Int
    OBVIOUS
  <2>2. IsFiniteSet(1 .. 2)
    BY <2>1, FS_Interval
  <2> QED BY <2>1, <2>2
<1>2. IsFiniteSet(Nodes \X {1, 2})
  BY <1>1, PinValueAssumption, FS_Product
<1> QED BY <1>2, FS_Subset, FS_CardinalityType

(* Which pins the writer is concerned with. *)
LEMMA WriterPins ==
  ASSUME Typed
  PROVE  /\ Held \subseteq Pins
         /\ writer.pc \in {"request", "waiting", "checked"} => Wanted \in Pins
<1>1. writer.batch \in Batches => writer.batch \in Seq(Pins)
  BY PinValueAssumption
<1>2. writer.held \in Nat
  BY DEF Typed, TypeOK
<1>3. writer.held > 0 => writer.batch \in Batches /\ writer.held <= Len(writer.batch)
  BY <1>1, <1>2 DEF Typed, TypeOK, WriterInBatch
<1>4. Held \subseteq Pins
  <2> SUFFICES ASSUME NEW i \in 1 .. writer.held PROVE writer.batch[i] \in Pins
    BY DEF Held
  <2> QED BY <1>1, <1>2, <1>3
<1>5. ASSUME writer.pc \in {"request", "waiting", "checked"} PROVE Wanted \in Pins
  <2>1. writer.batch \in Seq(Pins) /\ writer.held + 1 \in 1 .. Len(writer.batch)
    BY <1>1, <1>2, <1>5 DEF Typed, WriterInBatch
  <2> QED BY <2>1 DEF Wanted
<1> QED BY <1>4, <1>5

-------------------------------------------------------------------------------
(* Types.                                                                      *)

LEMMA InitTyped == Init => Typed
<1> SUFFICES ASSUME Init PROVE Typed
  OBVIOUS
<1>1. reader \in [Nodes -> [pc : {"idle", "called", "built", "reading", "copied", "keeping"},
                            link : Links]]
  <2>1. \A n \in Nodes : (CHOOSE l \in Links : l[1] = n) \in Links
    BY PinValueAssumption
  <2> QED BY <2>1 DEF Init
<1> QED BY <1>1 DEF Init, Typed, TypeOK, WriterInBatch, Idle

(* Lowering the counter leaves the writer where it is. *)
LEMMA LowerTyped ==
  ASSUME Typed, NEW p \in Pins, Lower(p)
  PROVE  /\ counter' \in [Pins -> Nat]
         /\ writer' \in [pc : {"idle", "request", "waiting", "checked", "writing"},
                         batch : Batches \cup {<<>>}, held : Nat, awake : BOOLEAN]
         /\ writer'.pc = writer.pc /\ writer'.batch = writer.batch
         /\ writer'.held = writer.held
<1>1. counter' \in [Pins -> Nat]
  <2>1. counter \in [Pins -> Nat]
    BY DEF Typed, TypeOK
  <2>2. CASE counter[p] > 0 /\ counter' = [counter EXCEPT ![p] = @ - 1]
    <3>1. counter[p] - 1 \in Nat
      BY <2>1, <2>2
    <3> QED BY <2>1, <2>2, <3>1
  <2> QED BY <2>1, <2>2 DEF Lower
<1>2. Woken(p) \in BOOLEAN
  BY DEF Woken, Typed, TypeOK
<1>3. CASE writer' = [writer EXCEPT !.awake = Woken(p)]
  BY <1>1, <1>2, <1>3 DEF Typed, TypeOK
<1> QED BY <1>1, <1>3 DEF Lower, Typed, TypeOK

LEMMA ReaderTyped ==
  ASSUME Typed, NEW n \in Nodes,
         NEW pc \in {"idle", "called", "built", "reading", "copied", "keeping"}, NEW l \in Links
  PROVE  [reader EXCEPT ![n] = [pc |-> pc, link |-> l]] \in
           [Nodes -> [pc : {"idle", "called", "built", "reading", "copied", "keeping"},
                      link : Links]]
BY DEF Typed, TypeOK

LEMMA MoveTyped ==
  ASSUME Typed, NEW n \in Nodes, NEW from, NEW to \in {"idle", "reading", "copied", "keeping"},
         Move(n, from, to)
  PROVE  reader' \in [Nodes -> [pc : {"idle", "called", "built", "reading", "copied", "keeping"},
                               link : Links]]
BY DEF Move, Typed, TypeOK

LEMMA WriteTyped == Typed /\ Write => Typed'
<1> SUFFICES ASSUME Typed, Write PROVE Typed'
  OBVIOUS
<1>1. CASE Begin
  <2>1. PICK b \in Batches : writer' = [Idle EXCEPT !.pc = "request", !.batch = b]
    BY <1>1 DEF Begin
  <2>2. b \in Seq(Pins) /\ b # <<>>
    BY PinValueAssumption
  <2>3. Len(b) \in Nat /\ 0 + 1 <= Len(b)
    BY <2>2
  <2>4. writer' = [pc |-> "request", batch |-> b, held |-> 0, awake |-> FALSE]
    BY <2>1 DEF Idle
  <2>5. WriterInBatch'
    BY <2>3, <2>4 DEF WriterInBatch
  <2>6. spent' \in [changes : Nat, polls : Nat, clears : Nat]
    BY <1>1 DEF Begin, Typed, TypeOK
  <2>7. writer' \in [pc : {"idle", "request", "waiting", "checked", "writing"},
                     batch : Batches \cup {<<>>}, held : Nat, awake : BOOLEAN]
    BY <2>4
  <2> QED BY <1>1, <2>5, <2>6, <2>7 DEF Begin, Typed, TypeOK
<1>2. CASE Check
  BY <1>2 DEF Check, Typed, TypeOK, WriterInBatch
<1>3. CASE Lock
  <2>1. writer.batch \in Seq(Pins) /\ Len(writer.batch) \in Nat
    BY <1>3, PinValueAssumption DEF Lock, Typed, WriterInBatch
  <2>2. writer.batch \in Batches /\ writer.held \in Nat /\ writer.held + 1 <= Len(writer.batch)
    BY <1>3 DEF Lock, Typed, TypeOK, WriterInBatch
  <2>3. writer' = [pc |-> IF writer.held + 1 = Len(writer.batch) THEN "writing" ELSE "request",
                   batch |-> writer.batch, held |-> writer.held + 1, awake |-> writer.awake]
    BY <1>3 DEF Lock, Typed, TypeOK
  <2>4. WriterInBatch'
    BY <2>1, <2>2, <2>3 DEF WriterInBatch
  <2>5. writer' \in [pc : {"idle", "request", "waiting", "checked", "writing"},
                     batch : Batches \cup {<<>>}, held : Nat, awake : BOOLEAN]
    <3>1. writer.held + 1 \in Nat /\ writer.awake \in BOOLEAN
      BY <2>2 DEF Typed, TypeOK
    <3> QED BY <2>2, <2>3, <3>1
  <2>6. TypeOK'
    BY <1>3, <2>5 DEF Lock, Typed, TypeOK
  <2> QED BY <2>4, <2>6 DEF Typed
<1>4. CASE Publish
  <2>1. PICK told \in SUBSET {l \in Links : l[2] \in Held} :
          /\ counter' = [p \in Pins |-> counter[p] + Cardinality(told \cap LinksOf(p))]
          /\ marked' = marked \cup told
          /\ items' = [l \in Links |-> IF l \in told THEN items[l] + 1 ELSE items[l]]
    BY <1>4 DEF Publish
  <2>2. \A p \in Pins : Cardinality(told \cap LinksOf(p)) \in Nat
    BY LinkFacts
  <2>3. counter' \in [Pins -> Nat]
    <3>1. \A p \in Pins : counter[p] \in Nat
      BY DEF Typed, TypeOK
    <3>2. \A p \in Pins : counter[p] + Cardinality(told \cap LinksOf(p)) \in Nat
      BY <2>2, <3>1
    <3> QED BY <2>1, <3>2
  <2>4. marked' \subseteq Links
    BY <2>1 DEF Typed, TypeOK
  <2>5. items' \in [Links -> Nat]
    <3>1. \A l \in Links : items[l] \in Nat /\ items[l] + 1 \in Nat
      BY DEF Typed, TypeOK
    <3> QED BY <2>1, <3>1
  <2> QED BY <1>4, <2>3, <2>4, <2>5 DEF Publish, Idle, Typed, TypeOK, WriterInBatch
<1> QED BY <1>1, <1>2, <1>3, <1>4 DEF Write

LEMMA ConstructTyped ==
  ASSUME Typed, NEW n \in Nodes, NEW l \in Links, Construct(n, l),
         UNCHANGED writer, items' \in [Links -> Nat],
         spent' \in [changes : Nat, polls : Nat, clears : Nat]
  PROVE  Typed'
<1>1. l[2] \in Pins
  BY LinkFacts
<1>2. counter' \in [Pins -> Nat] /\ marked' \subseteq Links
  BY <1>1 DEF Construct, Typed, TypeOK
<1>3. reader' \in [Nodes -> [pc : {"idle", "called", "built", "reading", "copied", "keeping"},
                             link : Links]]
  BY ReaderTyped DEF Construct
<1> QED BY <1>2, <1>3 DEF Typed, TypeOK, WriterInBatch

LEMMA DestroyTyped ==
  ASSUME Typed, NEW n \in Nodes, NEW from,
         NEW to \in {"idle", "reading", "keeping"}, Destroy(n, from, to)
  PROVE  Typed'
<1>1. reader[n].link[2] \in Pins
  BY LinkFacts DEF Typed, TypeOK
<1>2. reader' \in [Nodes -> [pc : {"idle", "called", "built", "reading", "copied", "keeping"},
                             link : Links]]
  BY MoveTyped DEF Destroy
<1> QED BY <1>1, <1>2, LowerTyped DEF Destroy, Typed, TypeOK, WriterInBatch

LEMMA ReadTyped ==
  ASSUME Typed, NEW n \in Nodes, Read(n) \/ Copy(n) \/ Poll(n) \/ Clear(n)
  PROVE  Typed'
<1>1. reader[n] \in [pc : {"idle", "called", "built", "reading", "copied", "keeping"},
                     link : Links]
  BY DEF Typed, TypeOK
<1>2. reader[n].link \in Links /\ reader[n].link[2] \in Pins
  BY <1>1, LinkFacts
<1>3. CASE Take(n)
  <2>1. PICK l \in Links : /\ items[l] > 0
                           /\ items' = [items EXCEPT ![l] = @ - 1]
                           /\ reader' = [reader EXCEPT ![n] = [pc |-> "called", link |-> l]]
    BY <1>3 DEF Take
  <2>2. items' \in [Links -> Nat]
    BY <2>1 DEF Typed, TypeOK
  <2> QED BY <1>3, <2>1, <2>2, ReaderTyped DEF Take, Typed, TypeOK, WriterInBatch
<1>4. CASE Get(n)
  BY <1>2, <1>4, ConstructTyped DEF Get, Typed, TypeOK
<1>5. CASE Poll(n)
  <2>1. spent' \in [changes : Nat, polls : Nat, clears : Nat]
    BY <1>5 DEF Poll, Typed, TypeOK
  <2> QED BY <1>5, <2>1, ConstructTyped DEF Poll, Typed, TypeOK
<1>6. CASE Return(n) \/ DropLocal(n) \/ Finish(n)
  BY <1>6, DestroyTyped DEF Return, DropLocal, Finish
<1>7. CASE Copy(n)
  <2>1. counter' \in [Pins -> Nat]
    BY <1>2, <1>7 DEF Copy, Typed, TypeOK
  <2> QED BY <1>2, <1>7, <2>1, MoveTyped DEF Copy, Typed, TypeOK, WriterInBatch
<1>8. CASE Release(n)
  <2>1. reader' \in [Nodes -> [pc : {"idle", "called", "built", "reading", "copied", "keeping"},
                               link : Links]]
    BY <1>8, MoveTyped DEF Release
  <2>2. CASE Lower(reader[n].link[2]) /\ marked' \subseteq Links
    BY <1>2, <1>8, <2>1, <2>2, LowerTyped DEF Release, Typed, TypeOK, WriterInBatch
  <2>3. CASE UNCHANGED <<marked, counter, writer>>
    BY <1>8, <2>1, <2>3 DEF Release, Typed, TypeOK, WriterInBatch
  <2>4. \/ Lower(reader[n].link[2]) /\ marked' = marked \ {reader[n].link}
        \/ UNCHANGED <<marked, counter, writer>>
    BY <1>8 DEF Release
  <2>5. CASE Lower(reader[n].link[2]) /\ marked' = marked \ {reader[n].link}
    BY <2>2, <2>5 DEF Typed, TypeOK
  <2> QED BY <2>3, <2>4, <2>5
<1>9. CASE Clear(n)
  <2>1. items' \in [Links -> Nat]
    <3>1. \A l \in Links : items[l] \in Nat
      BY DEF Typed, TypeOK
    <3>2. items' = [l \in Links |-> IF l[1] = n THEN 0 ELSE items[l]]
      BY <1>9 DEF Clear
    <3> QED BY <3>1, <3>2
  <2>2. spent' \in [changes : Nat, polls : Nat, clears : Nat]
    <3>1. spent' = [spent EXCEPT !.clears = spent.clears + 1]
      BY <1>9 DEF Clear
    <3> QED BY <3>1 DEF Typed, TypeOK
  <2> QED BY <1>9, <2>1, <2>2 DEF Clear, Typed, TypeOK, WriterInBatch
<1> QED BY <1>3, <1>4, <1>5, <1>6, <1>7, <1>8, <1>9 DEF Read

LEMMA NextTyped == Typed /\ [Next]_vars => Typed'
<1> SUFFICES ASSUME Typed, [Next]_vars PROVE Typed'
  OBVIOUS
<1>1. CASE UNCHANGED vars
  BY <1>1 DEF vars, Typed, TypeOK, WriterInBatch
<1> QED BY <1>1, WriteTyped, ReadTyped DEF Next

(* Type correctness, for any pins, readers, links, batches and uses. *)
THEOREM ValueTypeCorrect == Spec => []TypeOK
<1>1. Typed => TypeOK
  BY DEF Typed
<1> QED BY <1>1, InitTyped, NextTyped, PTL DEF Spec

-------------------------------------------------------------------------------
(* Wrappers.                                                                   *)

(* A step of a reader that gives it a wrapper more, one less, or none. *)
LEMMA HoldersGrow ==
  ASSUME Typed, NEW n \in Nodes, NEW p \in Pins, NEW k \in {1, 2},
         Holders(p)' = Holders(p) \cup {<<n, k>>}, <<n, k>> \notin Holders(p)
  PROVE  Cardinality(Holders(p)') = Cardinality(Holders(p)) + 1
<1>1. IsFiniteSet(Holders(p))
  BY WrapperSets DEF Holders
<1> QED BY <1>1, FS_AddElement

LEMMA HoldersShrink ==
  ASSUME Typed, NEW n \in Nodes, NEW p \in Pins, NEW k \in {1, 2},
         Holders(p)' = Holders(p) \ {<<n, k>>}
  PROVE  Cardinality(Holders(p)) <= Cardinality(Holders(p)') + 1
<1> DEFINE H == Holders(p)
<1>1. IsFiniteSet(H) /\ Cardinality(H) \in Nat
  BY WrapperSets DEF Holders
<1>2. CASE <<n, k>> \in H
  <2>1. Cardinality(H \ {<<n, k>>}) = Cardinality(H) - 1
    <3> HIDE DEF H
    <3> QED BY <1>1, <1>2, FS_RemoveElement
  <2>2. Cardinality(Holders(p)') = Cardinality(H) - 1
    BY <2>1
  <2> QED BY <1>1, <2>2
<1>3. CASE <<n, k>> \notin H
  <2>1. H \ {<<n, k>>} = H
    BY <1>3
  <2>2. Cardinality(Holders(p)') = Cardinality(H)
    BY <2>1
  <2> QED BY <1>1, <2>2
<1> QED BY <1>2, <1>3

(* What a new wrapper does to the sets. *)
LEMMA ConstructHolders ==
  ASSUME Typed, NEW n \in Nodes, NEW l \in Links, Wrappers(n) = 0, Construct(n, l)
  PROVE  /\ Cardinality(Holders(l[2])') = Cardinality(Holders(l[2])) + 1
         /\ \A p \in Pins : p # l[2] => Holders(p)' = Holders(p)
<1>1. l[2] \in Pins
  BY LinkFacts
<1>2. /\ reader' = [reader EXCEPT ![n] = [pc |-> "built", link |-> l]]
      /\ reader'[n] = [pc |-> "built", link |-> l]
      /\ \A m \in Nodes : m # n => reader'[m] = reader[m]
  BY DEF Construct, Typed, TypeOK
<1>3. /\ Wrappers(n)' = 1
      /\ \A m \in Nodes : m # n => Wrappers(m)' = Wrappers(m)
  <2>1. reader'[n].pc = "built"
    BY <1>2
  <2>2. Wrappers(n)' = 1
    BY <2>1 DEF Wrappers
  <2>3. \A m \in Nodes : m # n => Wrappers(m)' = Wrappers(m)
    BY <1>2 DEF Wrappers
  <2> QED BY <2>2, <2>3
<1>4. Holders(l[2])' = Holders(l[2]) \cup {<<n, 1>>}
  BY <1>2, <1>3 DEF Holders
<1>5. <<n, 1>> \notin Holders(l[2])
  BY DEF Holders
<1>6. \A p \in Pins : p # l[2] => Holders(p)' = Holders(p)
  BY <1>2, <1>3 DEF Holders
<1> QED BY <1>1, <1>4, <1>5, <1>6, HoldersGrow

(* What the end of a wrapper does: not more than taking one away. *)
LEMMA MoveHolders ==
  ASSUME Typed, NEW n \in Nodes, NEW from, NEW to, Move(n, from, to),
         <<from, to>> \in {<<"built", "reading">>, <<"copied", "keeping">>,
                          <<"reading", "idle">>, <<"keeping", "idle">>}
  PROVE  \A p \in Pins :
           IF p = reader[n].link[2]
             THEN Cardinality(Holders(p)) <= Cardinality(Holders(p)') + 1
             ELSE Holders(p)' = Holders(p)
<1>1. PICK q \in Pins : q = reader[n].link[2]
  BY LinkFacts DEF Typed, TypeOK
<1>2. /\ reader[n].pc = from
      /\ reader'[n].pc = to /\ reader'[n].link = reader[n].link
      /\ reader[n].link[2] = q
      /\ \A m \in Nodes : m # n => reader'[m] = reader[m]
  BY <1>1 DEF Move, Typed, TypeOK
<1>3. \A m \in Nodes : m # n => Wrappers(m)' = Wrappers(m)
  BY <1>2 DEF Wrappers
<1>4. \A p \in Pins : p # q => Holders(p)' = Holders(p)
  BY <1>2, <1>3 DEF Holders
<1>5. ASSUME from = "built" /\ to = "reading"
      PROVE  Cardinality(Holders(q)) <= Cardinality(Holders(q)') + 1
  <2>1. Wrappers(n) = 1 /\ Wrappers(n)' = 1
    BY <1>2, <1>5 DEF Wrappers
  <2>2. Holders(q)' = Holders(q)
    BY <1>2, <1>3, <2>1 DEF Holders
  <2>3. Cardinality(Holders(q)) \in Nat
    BY WrapperSets DEF Holders
  <2> QED BY <2>2, <2>3
<1>6. ASSUME from = "copied" /\ to = "keeping"
      PROVE  Cardinality(Holders(q)) <= Cardinality(Holders(q)') + 1
  <2>1. Wrappers(n) = 2 /\ Wrappers(n)' = 1
    BY <1>2, <1>6 DEF Wrappers
  <2>2. Holders(q)' = Holders(q) \ {<<n, 2>>}
    BY <1>2, <1>3, <2>1 DEF Holders
  <2>3. Cardinality(Holders(q)) <= Cardinality(Holders(q)') + 1
    BY <2>2, HoldersShrink
  <2> QED BY <2>3
<1>7. ASSUME from \in {"reading", "keeping"} /\ to = "idle"
      PROVE  Cardinality(Holders(q)) <= Cardinality(Holders(q)') + 1
  <2>1. Wrappers(n) = 1 /\ Wrappers(n)' = 0
    BY <1>2, <1>7 DEF Wrappers
  <2>2. Holders(q)' = Holders(q) \ {<<n, 1>>}
    BY <1>2, <1>3, <2>1 DEF Holders
  <2>3. Cardinality(Holders(q)) <= Cardinality(Holders(q)') + 1
    BY <2>2, HoldersShrink
  <2> QED BY <2>3
<1>8. Cardinality(Holders(q)) <= Cardinality(Holders(q)') + 1
  BY <1>5, <1>6, <1>7
<1> QED BY <1>1, <1>4, <1>8

-------------------------------------------------------------------------------
(* The counter.                                                                *)

(* Both bounds for one pin. *)
Bounded(p) == /\ counter[p] <= Owed(p)
              /\ Seen(p) => counter[p] <= Cardinality(Holders(p))

LEMMA BoundedPins == CounterJustified /\ OnlyWrappersCount <=> \A p \in Pins : Bounded(p)
BY DEF Bounded, CounterJustified, OnlyWrappersCount

(* The numbers the bounds are about. *)
LEMMA Numbers ==
  ASSUME Typed, NEW p \in Pins
  PROVE  /\ counter[p] \in Nat /\ Cardinality(Holders(p)) \in Nat
         /\ Cardinality(marked \cap LinksOf(p)) \in Nat
<1>1. counter[p] \in Nat /\ marked \in SUBSET Links
  BY DEF Typed, TypeOK
<1>2. Cardinality(Holders(p)) \in Nat
  BY WrapperSets DEF Holders
<1> QED BY <1>1, <1>2, LinkFacts

LEMMA InitBounded ==
  ASSUME Init, NEW p \in Pins
  PROVE  Bounded(p)
<1>1. Typed /\ counter[p] = 0
  BY InitTyped DEF Init
<1>2. Cardinality(Holders(p)) \in Nat /\ Cardinality(marked \cap LinksOf(p)) \in Nat
  BY <1>1, Numbers
<1> QED BY <1>1, <1>2 DEF Bounded, Owed

(* A change of the value: it counts for the links it marks, which counted for *)
(* nothing before.                                                             *)
LEMMA PublishBounded ==
  ASSUME Typed, Publish, NEW p \in Pins, Bounded(p)
  PROVE  Bounded(p)'
<1>1. PICK told \in SUBSET {l \in Links : l[2] \in Held} :
        /\ counter' = [q \in Pins |-> counter[q] + Cardinality(told \cap LinksOf(q))]
        /\ marked' = marked \cup told
  BY DEF Publish
<1>2. Holders(p)' = Holders(p)
  BY DEF Publish, Holders, Wrappers
<1>3. ~Seen(p)'
  BY DEF Publish, Idle, Seen, Held
<1>4. counter'[p] = counter[p] + Cardinality(told \cap LinksOf(p))
  BY <1>1
<1>5. CASE p \in Held
  <2>1. counter[p] <= Cardinality(Holders(p))
    <3>1. Seen(p)
      BY <1>5 DEF Seen
    <3> QED BY <3>1 DEF Bounded
  <2>2. Cardinality(told \cap LinksOf(p)) <= Cardinality((marked \cup told) \cap LinksOf(p))
    <3>1. (marked \cup told) \in SUBSET Links
      BY DEF Typed, TypeOK
    <3>2. IsFiniteSet((marked \cup told) \cap LinksOf(p))
      BY <3>1, LinkFacts
    <3>3. told \cap LinksOf(p) \in SUBSET ((marked \cup told) \cap LinksOf(p))
      OBVIOUS
    <3> QED BY <3>2, <3>3, FS_Subset
  <2>3. /\ Cardinality(told \cap LinksOf(p)) \in Nat
        /\ Cardinality((marked \cup told) \cap LinksOf(p)) \in Nat
    BY LinkFacts DEF Typed, TypeOK
  <2>4. Owed(p)' = Cardinality((marked \cup told) \cap LinksOf(p)) + Cardinality(Holders(p))
    BY <1>1, <1>2 DEF Owed, LinksOf
  <2>5. counter'[p] <= Owed(p)'
    <3>1. counter[p] \in Nat /\ Cardinality(Holders(p)) \in Nat
      BY Numbers
    <3> QED BY <1>4, <2>1, <2>2, <2>3, <2>4, <3>1
  <2> QED BY <1>3, <2>5 DEF Bounded
<1>6. CASE p \notin Held
  <2>1. told \cap LinksOf(p) = {}
    BY <1>6 DEF LinksOf
  <2>2. (marked \cap LinksOf(p))' = marked \cap LinksOf(p)
    BY <1>1, <2>1 DEF LinksOf
  <2>3. Cardinality(told \cap LinksOf(p)) = 0
    BY <2>1, FS_EmptySet
  <2>4. counter'[p] = counter[p]
    <3>1. counter[p] \in Nat
      BY Numbers
    <3>2. counter[p] + 0 = counter[p]
      BY <3>1
    <3> QED BY <1>4, <2>3, <3>2
  <2>5. Owed(p)' = Owed(p)
    BY <1>2, <2>2 DEF Owed
  <2> QED BY <1>3, <2>4, <2>5 DEF Bounded
<1> QED BY <1>5, <1>6

(* The other steps of the writer move no count; what it has seen at zero grows *)
(* only by a pin whose counter is zero.                                        *)
LEMMA WriteBounded ==
  ASSUME Typed, Write, NEW p \in Pins, Bounded(p)
  PROVE  Bounded(p)'
<1>1. CASE Publish
  BY <1>1, PublishBounded
<1>2. ASSUME UNCHANGED <<counter, marked, reader>>,
             Seen(p)' => Seen(p) \/ counter[p] = 0
      PROVE  Bounded(p)'
  <2>1. Holders(p)' = Holders(p) /\ (marked \cap LinksOf(p))' = marked \cap LinksOf(p)
    BY <1>2 DEF Holders, Wrappers, LinksOf
  <2>2. counter[p] \in Nat /\ Cardinality(Holders(p)) \in Nat
    BY Numbers
  <2>3. counter[p]' = counter[p] /\ Owed(p)' = Owed(p)
    BY <1>2, <2>1 DEF Owed
  <2>4. Seen(p)' => counter[p] <= Cardinality(Holders(p))
    BY <1>2, <2>2 DEF Bounded
  <2> QED BY <2>1, <2>3, <2>4 DEF Bounded
<1>3. CASE Begin
  <2>1. ~Seen(p)'
    <3>1. writer'.pc = "request" /\ writer'.held = 0
      BY <1>3 DEF Begin, Idle
    <3> QED BY <3>1 DEF Seen, Held
  <2> QED BY <1>2, <1>3, <2>1 DEF Begin
<1>4. CASE Check
  <2>1. /\ writer'.batch = writer.batch /\ writer'.held = writer.held
        /\ writer'.pc = "checked" => counter[Wanted] = 0
    BY <1>4 DEF Check, Typed, TypeOK
  <2>2. Held' = Held /\ Wanted' = Wanted
    BY <2>1 DEF Held, Wanted
  <2>3. Seen(p)' => Seen(p) \/ counter[p] = 0
    BY <2>1, <2>2 DEF Seen
  <2> QED BY <1>2, <1>4, <2>3 DEF Check
<1>5. CASE Lock
  <2>1. /\ writer.pc = "checked" /\ writer'.pc # "checked"
        /\ writer'.batch = writer.batch /\ writer'.held = writer.held + 1
        /\ writer.held \in Nat
    BY <1>5 DEF Lock, Typed, TypeOK
  <2>2. \A i \in 1 .. writer.held + 1 : i \in 1 .. writer.held \/ i = writer.held + 1
    BY <2>1
  <2>3. Held' \subseteq Held \cup {Wanted}
    BY <2>1, <2>2 DEF Held, Wanted
  <2>4. Seen(p)' => Seen(p)
    <3>1. Seen(p)' => p \in Held'
      BY <2>1 DEF Seen
    <3>2. p \in Held \/ p = Wanted => Seen(p)
      BY <2>1 DEF Seen
    <3> QED BY <2>3, <3>1, <3>2
  <2> QED BY <1>2, <1>5, <2>4 DEF Lock
<1> QED BY <1>1, <1>3, <1>4, <1>5 DEF Write

(* Taking one off the counter when a mark or a wrapper goes with it. *)
LEMMA LowerBounded ==
  ASSUME Typed, NEW p \in Pins, NEW q \in Pins, Lower(p), Bounded(q), Seen(q)' => Seen(q),
         Cardinality(marked \cap LinksOf(q))' \in Nat,
         Cardinality(Holders(q))' \in Nat,
         IF p = q
           THEN /\ Owed(q) <= Owed(q)' + 1
                /\ Cardinality(Holders(q)) <= Cardinality(Holders(q))' + 1
           ELSE /\ Owed(q) = Owed(q)'
                /\ Cardinality(Holders(q)) = Cardinality(Holders(q))'
  PROVE  Bounded(q)'
<1>1. counter[q] \in Nat /\ Cardinality(Holders(q)) \in Nat /\ Owed(q) \in Nat
  BY Numbers DEF Owed
<1>2. Owed(q)' \in Nat
  BY DEF Owed
<1>3. counter[q]' = IF p = q /\ counter[q] > 0 THEN counter[q] - 1 ELSE counter[q]
  BY DEF Lower, Typed, TypeOK
<1>4. counter[q]' <= Owed(q)'
  BY <1>1, <1>2, <1>3 DEF Bounded
<1>5. Seen(q)' => counter[q]' <= Cardinality(Holders(q))'
  BY <1>1, <1>3 DEF Bounded
<1> QED BY <1>4, <1>5 DEF Bounded

(* A reader cannot have the pin the writer holds, and does not move the writer. *)
LEMMA SameSeen ==
  ASSUME NEW p \in Pins, writer'.pc = writer.pc, writer'.batch = writer.batch,
         writer'.held = writer.held
  PROVE  Seen(p)' = Seen(p)
BY DEF Seen, Held, Wanted

LEMMA DestroyBounded ==
  ASSUME Typed, NEW n \in Nodes, NEW from, NEW to, Destroy(n, from, to),
         <<from, to>> \in {<<"built", "reading">>, <<"copied", "keeping">>,
                          <<"reading", "idle">>, <<"keeping", "idle">>},
         NEW q \in Pins, Bounded(q), Typed'
  PROVE  Bounded(q)'
<1>1. PICK p \in Pins : p = reader[n].link[2]
  BY LinkFacts DEF Typed, TypeOK
<1>2. Lower(p) /\ Move(n, from, to) /\ marked' = marked
  BY <1>1 DEF Destroy
<1>3. IF q = p THEN Cardinality(Holders(q)) <= Cardinality(Holders(q)') + 1
               ELSE Holders(q)' = Holders(q)
  BY <1>1, <1>2, MoveHolders
<1>4. Seen(q)' => Seen(q)
  BY <1>2, LowerTyped, SameSeen
<1>5. (marked \cap LinksOf(q))' = marked \cap LinksOf(q)
  BY <1>2 DEF LinksOf
<1>6. Cardinality(Holders(q)') \in Nat
  BY WrapperSets DEF Holders
<1>7. Cardinality(marked \cap LinksOf(q)) \in Nat /\ Cardinality(Holders(q)) \in Nat
  BY Numbers
<1>8. IF p = q THEN Owed(q) <= Owed(q)' + 1 ELSE Owed(q) = Owed(q)'
  BY <1>3, <1>5, <1>6, <1>7 DEF Owed
<1> QED BY <1>2, <1>3, <1>4, <1>5, <1>6, <1>7, <1>8, LowerBounded

(* A new wrapper takes the count of a mark over, or brings one of its own. *)
LEMMA ConstructBounded ==
  ASSUME Typed, NEW n \in Nodes, NEW l \in Links, Wrappers(n) = 0, Construct(n, l),
         UNCHANGED writer, NEW q \in Pins, Bounded(q)
  PROVE  Bounded(q)'
<1>1. PICK p \in Pins : p = l[2]
  BY LinkFacts
<1>2. IF q = p THEN Cardinality(Holders(q)') = Cardinality(Holders(q)) + 1
               ELSE Holders(q)' = Holders(q)
  BY <1>1, ConstructHolders
<1>3. Seen(q)' = Seen(q)
  BY SameSeen
<1>4. counter'[q] = IF q = p /\ l \notin marked THEN counter[q] + 1 ELSE counter[q]
  BY <1>1 DEF Construct, Typed, TypeOK
<1>5. /\ counter[q] \in Nat /\ Cardinality(Holders(q)) \in Nat
      /\ Cardinality(marked \cap LinksOf(q)) \in Nat
  BY Numbers
<1>6. Cardinality((marked \ {l}) \cap LinksOf(q)) =
        IF q = p /\ l \in marked THEN Cardinality(marked \cap LinksOf(q)) - 1
                                ELSE Cardinality(marked \cap LinksOf(q))
  <2> DEFINE M == marked \cap LinksOf(q)
  <2>1. (marked \ {l}) \cap LinksOf(q) = M \ {l}
    OBVIOUS
  <2>2. IsFiniteSet(M)
    BY LinkFacts DEF Typed, TypeOK
  <2>3. CASE q = p /\ l \in marked
    <3>1. l \in M
      BY <1>1, <2>3 DEF LinksOf
    <3>2. Cardinality(M \ {l}) = Cardinality(M) - 1
      <4> HIDE DEF M
      <4> QED BY <2>2, <3>1, FS_RemoveElement
    <3> QED BY <2>1, <2>3, <3>2
  <2>4. CASE ~(q = p /\ l \in marked)
    <3>1. M \ {l} = M
      BY <1>1, <2>4 DEF LinksOf
    <3> QED BY <2>1, <2>4, <3>1
  <2> QED BY <2>3, <2>4
<1>7. (marked \cap LinksOf(q))' = (marked \ {l}) \cap LinksOf(q)
  BY DEF Construct, LinksOf
<1>8. Owed(q)' = Cardinality((marked \ {l}) \cap LinksOf(q)) + Cardinality(Holders(q)')
  BY <1>7 DEF Owed
<1>9. counter'[q] <= Owed(q)'
  <2>1. counter[q] <= Cardinality(marked \cap LinksOf(q)) + Cardinality(Holders(q))
    BY DEF Bounded, Owed
  <2> QED BY <1>2, <1>4, <1>5, <1>6, <1>8, <2>1
<1>10. Seen(q)' => counter'[q] <= Cardinality(Holders(q)')
  <2>1. Seen(q) => counter[q] <= Cardinality(Holders(q))
    BY DEF Bounded
  <2> QED BY <1>2, <1>3, <1>4, <1>5, <2>1
<1> QED BY <1>9, <1>10 DEF Bounded

(* A copy of the wrapper brings its own count. *)
LEMMA CopyBounded ==
  ASSUME Typed, NEW n \in Nodes, Copy(n), NEW q \in Pins, Bounded(q)
  PROVE  Bounded(q)'
<1>1. PICK p \in Pins : p = reader[n].link[2]
  BY LinkFacts DEF Typed, TypeOK
<1>2. /\ reader[n].pc = "reading" /\ reader'[n].pc = "copied"
      /\ reader'[n].link = reader[n].link /\ reader[n].link[2] = p
      /\ \A m \in Nodes : m # n => reader'[m] = reader[m]
  BY <1>1 DEF Copy, Move, Typed, TypeOK
<1>3. Wrappers(n) = 1 /\ Wrappers(n)' = 2
  BY <1>2 DEF Wrappers
<1>4. \A m \in Nodes : m # n => Wrappers(m)' = Wrappers(m)
  BY <1>2 DEF Wrappers
<1>5. CASE q = p
  <2>1. Holders(p)' = Holders(p) \cup {<<n, 2>>}
    BY <1>2, <1>3, <1>4 DEF Holders
  <2>2. <<n, 2>> \notin Holders(p)
    BY <1>3 DEF Holders
  <2>3. Cardinality(Holders(p)') = Cardinality(Holders(p)) + 1
    BY <2>1, <2>2, HoldersGrow
  <2>4. counter'[p] = counter[p] + 1
    BY <1>1 DEF Copy, Typed, TypeOK
  <2>5. (marked \cap LinksOf(p))' = marked \cap LinksOf(p) /\ Seen(p)' = Seen(p)
    BY SameSeen DEF Copy, LinksOf
  <2>6. /\ counter[p] \in Nat /\ Cardinality(Holders(p)) \in Nat
        /\ Cardinality(marked \cap LinksOf(p)) \in Nat
    BY Numbers
  <2>7. counter[p] <= Cardinality(marked \cap LinksOf(p)) + Cardinality(Holders(p))
    BY <1>5 DEF Bounded, Owed
  <2>8. Owed(p)' = Cardinality(marked \cap LinksOf(p)) + (Cardinality(Holders(p)) + 1)
    BY <2>3, <2>5 DEF Owed
  <2>9. counter'[p] <= Owed(p)'
    BY <2>4, <2>6, <2>7, <2>8
  <2>10. Seen(p)' => counter'[p] <= Cardinality(Holders(p)')
    BY <1>5, <2>3, <2>4, <2>5, <2>6 DEF Bounded
  <2> QED BY <1>5, <2>9, <2>10 DEF Bounded
<1>6. CASE q # p
  <2>1. Holders(q)' = Holders(q)
    BY <1>2, <1>4, <1>6 DEF Holders
  <2>2. (marked \cap LinksOf(q))' = marked \cap LinksOf(q) /\ Seen(q)' = Seen(q)
    BY SameSeen DEF Copy, LinksOf
  <2>3. counter'[q] = counter[q]
    BY <1>1, <1>6 DEF Copy, Typed, TypeOK
  <2> QED BY <2>1, <2>2, <2>3 DEF Bounded, Owed
<1> QED BY <1>5, <1>6

(* releaseInputValue takes the mark away with the count. *)
LEMMA ReleaseBounded ==
  ASSUME Typed, NEW n \in Nodes, Release(n), NEW q \in Pins, Bounded(q)
  PROVE  Bounded(q)'
<1>1. PICK p \in Pins : p = reader[n].link[2]
  BY LinkFacts DEF Typed, TypeOK
<1>2. /\ reader[n].pc = "called" /\ reader'[n].pc = "idle"
      /\ \A m \in Nodes : m # n => reader'[m] = reader[m]
      /\ reader[n].link \in Links
  BY DEF Release, Move, Typed, TypeOK
<1>3. Wrappers(n) = 0 /\ Wrappers(n)' = 0
  BY <1>2 DEF Wrappers
<1>4. \A m \in Nodes : m # n => Wrappers(m)' = Wrappers(m)
  BY <1>2 DEF Wrappers
<1>5. Holders(q)' = Holders(q)
  BY <1>2, <1>3, <1>4 DEF Holders
<1>6. CASE UNCHANGED <<marked, counter, writer>>
  BY <1>5, <1>6, SameSeen DEF Bounded, Owed, LinksOf
<1>7. CASE reader[n].link \in marked /\ marked' = marked \ {reader[n].link} /\ Lower(p)
  <2>1. PICK l \in Links : l = reader[n].link
    BY <1>2
  <2> DEFINE M == marked \cap LinksOf(q)
  <2>2. (marked \cap LinksOf(q))' = M \ {l}
    BY <1>7, <2>1 DEF LinksOf
  <2>3. IsFiniteSet(M) /\ Cardinality(M) \in Nat
    BY LinkFacts DEF Typed, TypeOK
  <2>4. IF q = p THEN l \in M ELSE M \ {l} = M
    BY <1>1, <1>7, <2>1 DEF LinksOf
  <2>5. IF q = p THEN Cardinality(M \ {l}) = Cardinality(M) - 1
                 ELSE Cardinality(M \ {l}) = Cardinality(M)
    <3> HIDE DEF M
    <3> QED BY <2>3, <2>4, FS_RemoveElement
  <2>6. Cardinality(marked \cap LinksOf(q))' = Cardinality(M \ {l})
    BY <2>2
  <2>7. Cardinality(M \ {l}) \in Nat
    <3>1. marked \ {l} \in SUBSET Links
      BY DEF Typed, TypeOK
    <3>2. M \ {l} = (marked \ {l}) \cap LinksOf(q)
      OBVIOUS
    <3> QED BY <3>1, <3>2, LinkFacts
  <2>8. Cardinality(Holders(q)) \in Nat
    BY Numbers
  <2>9. Owed(q) = Cardinality(M) + Cardinality(Holders(q))
    BY DEF Owed
  <2>10. Owed(q)' = Cardinality(M \ {l}) + Cardinality(Holders(q))
    BY <1>5, <2>6 DEF Owed
  <2>11. IF p = q THEN Owed(q) <= Owed(q)' + 1 ELSE Owed(q) = Owed(q)'
    <3> HIDE DEF M
    <3> QED BY <2>3, <2>5, <2>7, <2>8, <2>9, <2>10
  <2>12. Seen(q)' => Seen(q)
    BY <1>7, LowerTyped, SameSeen
  <2> QED BY <1>5, <1>7, <2>6, <2>7, <2>8, <2>11, <2>12, LowerBounded
<1>8. \/ reader[n].link \in marked /\ marked' = marked \ {reader[n].link} /\ Lower(p)
      \/ UNCHANGED <<marked, counter, writer>>
  BY <1>1 DEF Release
<1> QED BY <1>6, <1>7, <1>8

LEMMA ReadBounded ==
  ASSUME Typed, Typed', NEW n \in Nodes, Read(n) \/ Copy(n) \/ Poll(n) \/ Clear(n),
         NEW q \in Pins, Bounded(q)
  PROVE  Bounded(q)'
<1>1. CASE Take(n)
  <2>1. /\ reader[n].pc = "idle" /\ reader'[n].pc = "called"
        /\ \A m \in Nodes : m # n => reader'[m] = reader[m]
    BY <1>1 DEF Take, Typed, TypeOK
  <2>2. Wrappers(n) = 0 /\ Wrappers(n)' = 0
    BY <2>1 DEF Wrappers
  <2>3. \A m \in Nodes : m # n => Wrappers(m)' = Wrappers(m)
    BY <2>1 DEF Wrappers
  <2>4. Holders(q)' = Holders(q)
    BY <2>1, <2>2, <2>3 DEF Holders
  <2> QED BY <1>1, <2>4, SameSeen DEF Take, Bounded, Owed, LinksOf
<1>2. CASE Get(n)
  <2>1. reader[n].link \in Links /\ Wrappers(n) = 0
    BY <1>2 DEF Get, Wrappers, Typed, TypeOK
  <2> QED BY <1>2, <2>1, ConstructBounded DEF Get
<1>3. CASE Poll(n)
  <2>1. Wrappers(n) = 0
    BY <1>3 DEF Poll, Wrappers
  <2> QED BY <1>3, <2>1, ConstructBounded DEF Poll
<1>4. CASE Return(n) \/ DropLocal(n) \/ Finish(n)
  BY <1>4, DestroyBounded DEF Return, DropLocal, Finish
<1>5. CASE Copy(n)
  BY <1>5, CopyBounded
<1>6. CASE Release(n)
  BY <1>6, ReleaseBounded
<1>7. CASE Clear(n)
  <2>1. Holders(q)' = Holders(q)
    BY <1>7 DEF Clear, Holders, Wrappers
  <2> QED BY <1>7, <2>1, SameSeen DEF Clear, Bounded, Owed, LinksOf
<1> QED BY <1>1, <1>2, <1>3, <1>4, <1>5, <1>6, <1>7 DEF Read

LEMMA NextBounded == IInv /\ [Next]_vars => IInv'
<1> SUFFICES ASSUME IInv, [Next]_vars PROVE IInv'
  OBVIOUS
<1>1. Typed /\ Typed' /\ \A q \in Pins : Bounded(q)
  BY NextTyped, BoundedPins DEF IInv
<1>2. CASE UNCHANGED vars
  <2>1. CounterJustified' = CounterJustified
    BY <1>2 DEF vars, CounterJustified, Owed, LinksOf, Holders, Wrappers
  <2>2. OnlyWrappersCount' = OnlyWrappersCount
    BY <1>2 DEF vars, OnlyWrappersCount, Holders, Wrappers, Seen, Held, Wanted
  <2> QED BY <1>1, <2>1, <2>2 DEF IInv
<1>3. CASE Next
  <2>1. \A q \in Pins : Bounded(q)'
    BY <1>1, <1>3, WriteBounded, ReadBounded DEF Next
  <2>2. (\A q \in Pins : Bounded(q))' => (CounterJustified /\ OnlyWrappersCount)'
    BY DEF Bounded, CounterJustified, OnlyWrappersCount
  <2> QED BY <1>1, <2>1, <2>2 DEF IInv
<1> QED BY <1>2, <1>3

(* The access counter of a pin never stands for more than its marked links and *)
(* the wrappers around its value: every count requestOutputValueLock waits for *)
(* belongs to a notified link or to a wrapper that will be destroyed.          *)
THEOREM ValueCounterJustified == Spec => []CounterJustified
<1>1. Init => IInv
  BY InitTyped, InitBounded, BoundedPins DEF IInv
<1>2. IInv => CounterJustified
  BY DEF IInv
<1> QED BY <1>1, <1>2, NextBounded, PTL DEF Spec
===============================================================================
