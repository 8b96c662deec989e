----------------------------- MODULE MCScrolling ------------------------------
(* Instances of ScrollingBuffer for TLC: its users in the program.             *)
EXTENDS ScrollingBuffer

MCValue == 1 .. 3

(* The combiner: fixed sizes.  The plot, as far as its size stays finite. *)
MCCombiner == [ops |-> {"push", "pop", "clear"}, sizes |-> {0, 1, 2, 3, 4}]
MCPlot == [ops |-> {"push", "clear", "resize"}, sizes |-> 1 .. 5]

(* The polynomial regressor, with a window that is only made wider. *)
MCWidened == [ops |-> {"slide", "clear", "window"}, sizes |-> 2 .. 4]

MCInOrder == {MCCombiner, MCPlot, MCWidened}
===============================================================================
