------------------------------ MODULE BoundedLog ------------------------------
(***************************************************************************)
(* What the scrolling buffer promises: the log of the last values, oldest  *)
(* first, at most cap of them (or all of them, if cap is 0).               *)
(***************************************************************************)
EXTENDS Integers, Sequences

CONSTANTS Value,  (* the values                                              *)
          Size    (* the sizes a buffer may be given; 0 is no limit          *)

VARIABLES log, cap

(* The last k elements of s. *)
Newest(s, k) == SubSeq(s, Len(s) - k + 1, Len(s))

Bounded(s, k) == IF k = 0 \/ Len(s) <= k THEN s ELSE Newest(s, k)

PushBack(v) == /\ log' = Bounded(Append(log, v), cap)
               /\ UNCHANGED cap

PopFront == /\ log # <<>>
            /\ log' = Tail(log)
            /\ UNCHANGED cap

Clear == /\ log' = <<>>
         /\ UNCHANGED cap

Resize(k) == /\ log' = Bounded(log, k)
             /\ cap' = k

Init == /\ log = <<>>
        /\ cap \in Size

Next == \/ \E v \in Value : PushBack(v)
        \/ PopFront \/ Clear
        \/ \E k \in Size : Resize(k)

Spec == Init /\ [][Next]_<<log, cap>>
===============================================================================
