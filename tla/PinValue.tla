------------------------------- MODULE PinValue -------------------------------
(***************************************************************************)
(* The value of a data pin and who may touch it (Node.cpp, Pin.hpp).  The  *)
(* worker of the node that owns the output pins changes their values, the  *)
(* workers of the connected nodes read them through a ValueWrapper that    *)
(* counts the accesses.  A change puts an item into the queue of every     *)
(* connected input pin, marks its link and raises the counter for it; the  *)
(* reader that sees the mark takes that count over.  Before the next       *)
(* change the owner waits for the counter to be zero.                      *)
(*                                                                         *)
(* What a reader does under dataAccessMutex is one step.  The owner keeps  *)
(* the mutexes of the pins it has locked over several steps: those are the *)
(* first `held' pins of its batch.                                         *)
(***************************************************************************)
EXTENDS Integers, Sequences, FiniteSets

CONSTANTS Pins,       (* the output pins of the writing node              *)
          Nodes,      (* the nodes that read them                         *)
          Links,      (* who is connected to which pin                    *)
          Uses,       (* what the callbacks of a node do with the value   *)
          Batches,    (* the pins a change locks together, in their order *)
          MaxChanges, (* bound: changes of the writing node               *)
          MaxPolls,   (* bound: reads nobody was notified for             *)
          MaxClears   (* bound: times the queues are emptied              *)

ASSUME PinValueAssumption ==
  /\ Links \subseteq Nodes \X Pins
  /\ \A n \in Nodes : \E l \in Links : l[1] = n
  /\ IsFiniteSet(Links) /\ IsFiniteSet(Nodes)
  /\ Uses \in [Nodes -> SUBSET {"get", "copy", "release", "poll"}]
  /\ Batches \subseteq Seq(Pins) \ {<<>>}
  /\ MaxChanges \in Nat /\ MaxPolls \in Nat /\ MaxClears \in Nat

VARIABLES counter, (* dataAccessCounter of each pin                           *)
          marked,  (* links whose dataChangeNotification is set               *)
          items,   (* items in the queue of each connected input pin          *)
          writer,  (* [pc, batch, held, awake] of the writing node            *)
          reader,  (* [pc, link] of each reading node: pc counts its wrappers *)
          spent    (* changes, polls and clears so far                        *)

vars == <<counter, marked, items, writer, reader, spent>>

-------------------------------------------------------------------------------
LinksOf(p) == {l \in Links : l[2] = p}

(* The pins whose mutex the writer owns. *)
Held == {writer.batch[i] : i \in 1 .. writer.held}

(* The pin it wants next. *)
Wanted == writer.batch[writer.held + 1]

(* The wrappers a reader has: the one getValue builds, the one it is moved   *)
(* into, the copy a callback may keep.                                       *)
Wrappers(n) == CASE reader[n].pc \in {"idle", "called"}               -> 0
                 [] reader[n].pc \in {"built", "reading", "keeping"}  -> 1
                 [] reader[n].pc = "copied"                           -> 2

Reads(n) == reader[n].pc \in {"reading", "copied", "keeping"}

(* notify_all when the last count goes. *)
Woken(p) == \/ writer.awake
            \/ writer.pc = "waiting" /\ Wanted = p /\ counter[p] = 1

(* Taking one off the counter, and waking the writer when none is left. *)
Lower(p) ==
  IF counter[p] > 0
    THEN /\ counter' = [counter EXCEPT ![p] = @ - 1]
         /\ writer' = [writer EXCEPT !.awake = Woken(p)]
    ELSE UNCHANGED <<counter, writer>>

Idle == [pc |-> "idle", batch |-> <<>>, held |-> 0, awake |-> FALSE]

Init == /\ counter = [p \in Pins |-> 0]
        /\ marked = {}
        /\ items = [l \in Links |-> 0]
        /\ writer = Idle
        /\ reader = [n \in Nodes |-> [pc |-> "idle", link |-> CHOOSE l \in Links : l[1] = n]]
        /\ spent = [changes |-> 0, polls |-> 0, clears |-> 0]

-------------------------------------------------------------------------------
(* The writing node.                                                           *)

(* The node is about to change the values of the pins of one of its batches. *)
Begin == /\ writer.pc = "idle"
         /\ spent.changes < MaxChanges
         /\ \E b \in Batches : writer' = [Idle EXCEPT !.pc = "request", !.batch = b]
         /\ spent' = [spent EXCEPT !.changes = @ + 1]
         /\ UNCHANGED <<counter, marked, items, reader>>

(* requestOutputValueLock looks at the counter under the mutex: nobody reads,  *)
(* or the thread waits, and again when it is woken to find the counter raised. *)
Check == /\ \/ writer.pc = "request"
            \/ writer.pc = "waiting" /\ writer.awake
         /\ writer' = [writer EXCEPT !.pc = IF counter[Wanted] = 0 THEN "checked" ELSE "waiting",
                                     !.awake = FALSE]
         /\ UNCHANGED <<counter, marked, items, reader, spent>>

(* It has let go of the mutex when it returns, and takes it again. *)
Lock == /\ writer.pc = "checked"
        /\ writer' = [writer EXCEPT !.pc = IF writer.held + 1 = Len(writer.batch)
                                             THEN "writing" ELSE "request",
                                    !.held = @ + 1]
        /\ UNCHANGED <<counter, marked, items, reader, spent>>

(* The value is changed and notifyOutputValueChanged tells the links whose     *)
(* node takes it: those initialized and with a queue that is not blocked, none *)
(* when the callbacks of the writing node are off.  Then the locks go.         *)
Publish ==
  /\ writer.pc = "writing"
  /\ \E told \in SUBSET {l \in Links : l[2] \in Held} :
       /\ counter' = [p \in Pins |-> counter[p] + Cardinality(told \cap LinksOf(p))]
       /\ marked' = marked \cup told
       /\ items' = [l \in Links |-> IF l \in told THEN items[l] + 1 ELSE items[l]]
  /\ writer' = Idle
  /\ UNCHANGED <<reader, spent>>

-------------------------------------------------------------------------------
(* The reading nodes.                                                          *)

(* The worker takes an item off the queue of one of its pins and calls back. *)
Take(n) == /\ reader[n].pc = "idle"
           /\ \E l \in Links : /\ l[1] = n /\ items[l] > 0
                               /\ items' = [items EXCEPT ![l] = @ - 1]
                               /\ reader' = [reader EXCEPT ![n] = [pc |-> "called", link |-> l]]
           /\ UNCHANGED <<counter, marked, writer, spent>>

(* Mutant: the new wrapper counts itself although the change counted for it. *)
Construct_CountsTwice(n, l) ==
  /\ l[2] \notin Held
  /\ counter' = [counter EXCEPT ![l[2]] = @ + 1]
  /\ marked' = marked \ {l}
  /\ reader' = [reader EXCEPT ![n] = [pc |-> "built", link |-> l]]

(* ValueWrapper(v, outputPin, dataChangeNotification) *)
Construct(n, l) ==
  /\ l[2] \notin Held
  /\ counter' = [counter EXCEPT ![l[2]] = IF l \in marked THEN @ ELSE @ + 1]
  /\ marked' = marked \ {l}
  /\ reader' = [reader EXCEPT ![n] = [pc |-> "built", link |-> l]]

(* getInputValue in the callback *)
Get(n) == /\ reader[n].pc = "called" /\ Uses[n] \cap {"get", "copy"} # {}
          /\ Construct(n, reader[n].link)
          /\ UNCHANGED <<items, writer, spent>>

(* getInputValue in the callback of another pin *)
Poll(n) == /\ reader[n].pc = "idle" /\ "poll" \in Uses[n]
           /\ spent.polls < MaxPolls
           /\ \E l \in Links : l[1] = n /\ Construct(n, l)
           /\ spent' = [spent EXCEPT !.polls = @ + 1]
           /\ UNCHANGED <<items, writer>>

Move(n, from, to) == /\ reader[n].pc = from
                     /\ reader' = [reader EXCEPT ![n].pc = to]

(* Mutant: the destructor does not wake the writer. *)
Destroy_Silent(n, from, to) ==
  LET p == reader[n].link[2]
  IN  /\ Move(n, from, to)
      /\ p \notin Held
      /\ counter' = [counter EXCEPT ![p] = IF @ > 0 THEN @ - 1 ELSE @]
      /\ UNCHANGED <<writer, marked, items, spent>>

(* Mutant: the destructor does not look whether the counter is zero already. *)
Destroy_Unguarded(n, from, to) ==
  LET p == reader[n].link[2]
  IN  /\ Move(n, from, to)
      /\ p \notin Held
      /\ counter' = [counter EXCEPT ![p] = @ - 1]
      /\ writer' = [writer EXCEPT !.awake = Woken(p)]
      /\ UNCHANGED <<marked, items, spent>>

(* ~ValueWrapper() *)
Destroy(n, from, to) == /\ Move(n, from, to)
                        /\ reader[n].link[2] \notin Held
                        /\ Lower(reader[n].link[2])
                        /\ UNCHANGED <<marked, items, spent>>

(* getValue returns its wrapper by moving it into the optional.  The move      *)
(* copies the pointer to the pin, so the wrapper moved from takes one off the  *)
(* counter when it goes.                                                       *)
Return(n) == Destroy(n, "built", "reading")

(* A callback that keeps a copy of the wrapper, and then drops its own. *)
Copy(n) == /\ "copy" \in Uses[n]
           /\ Move(n, "reading", "copied")
           /\ reader[n].link[2] \notin Held
           /\ counter' = [counter EXCEPT ![reader[n].link[2]] = @ + 1]
           /\ UNCHANGED <<marked, items, writer, spent>>

DropLocal(n) == Destroy(n, "copied", "keeping")

(* The callback ends. *)
Finish(n) == Destroy(n, "reading", "idle") \/ Destroy(n, "keeping", "idle")

(* releaseInputValue: the callback does not want the value. *)
Release(n) ==
  LET l == reader[n].link
  IN  /\ Move(n, "called", "idle") /\ "release" \in Uses[n]
      /\ l[2] \notin Held
      /\ IF l \in marked /\ counter[l[2]] > 0
           THEN marked' = marked \ {l} /\ Lower(l[2])
           ELSE UNCHANGED <<marked, counter, writer>>
      /\ UNCHANGED <<items, spent>>

(* The queues of a node are emptied: when it is initialized again, or when the *)
(* execution of the flow begins or ends.                                       *)
Clear(n) == /\ spent.clears < MaxClears
            /\ \E l \in Links : l[1] = n /\ items[l] > 0
            /\ items' = [l \in Links |-> IF l[1] = n THEN 0 ELSE items[l]]
            /\ spent' = [spent EXCEPT !.clears = @ + 1]
            /\ UNCHANGED <<counter, marked, writer, reader>>

-------------------------------------------------------------------------------
Write == Begin \/ Check \/ Lock \/ Publish

Read(n) == Take(n) \/ Get(n) \/ Return(n) \/ DropLocal(n) \/ Finish(n) \/ Release(n)

Next == Write \/ \E n \in Nodes : Read(n) \/ Copy(n) \/ Poll(n) \/ Clear(n)

(* The workers run: a writer that can go on does, and a reader ends what it    *)
(* began and takes the next item.  Nobody has to poll, to copy or to clear.    *)
Fairness == /\ WF_vars(Check \/ Lock \/ Publish)
            /\ \A n \in Nodes : WF_vars(Read(n))

Spec == Init /\ [][Next]_vars /\ Fairness

-------------------------------------------------------------------------------
TypeOK ==
  /\ counter \in [Pins -> Nat]
  /\ marked \subseteq Links
  /\ items \in [Links -> Nat]
  /\ writer \in [pc : {"idle", "request", "waiting", "checked", "writing"},
                 batch : Batches \cup {<<>>}, held : Nat, awake : BOOLEAN]
  /\ reader \in [Nodes -> [pc : {"idle", "called", "built", "reading", "copied", "keeping"},
                           link : Links]]
  /\ spent \in [changes : Nat, polls : Nat, clears : Nat]

(* The wrappers around the value of a pin that still have to be destroyed. *)
Holders(p) == {h \in Nodes \X {1, 2} : reader[h[1]].link[2] = p /\ h[2] <= Wrappers(h[1])}

(* What the counter of a pin may stand for: its marked links and its wrappers. *)
Owed(p) == Cardinality(marked \cap LinksOf(p)) + Cardinality(Holders(p))

(* The counter of a pin never stands for more than somebody still takes off    *)
(* it: no count is left over that nobody owns, for which the writer would wait *)
(* for ever (requestOutputValueLock waits without a time limit).               *)
CounterJustified == \A p \in Pins : counter[p] <= Owed(p)

(* A notification nobody will answer: the item that announced it is gone. *)
Lost(l) == /\ l \in marked /\ items[l] = 0
           /\ ~(reader[l[1]].pc = "called" /\ reader[l[1]].link = l)

Waits(p) == writer.pc = "waiting" /\ Wanted = p

(* A node that waits to change a value gets to it when its readers have taken  *)
(* it, unless a queue was emptied with the announcement in it.                 *)
WriterProceeds ==
  \A p \in Pins : Waits(p) ~> (~Waits(p) \/ \E l \in LinksOf(p) : Lost(l))

(* "Automatically increments the data access counter to prevent editing": no   *)
(* value is changed while a callback has a wrapper around it.                  *)
NoEditingWhileRead ==
  writer.pc = "writing" => \A n \in Nodes : Reads(n) => reader[n].link[2] \notin Held
===============================================================================
