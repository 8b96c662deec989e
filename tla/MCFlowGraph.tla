----------------------------- MODULE MCFlowGraph ------------------------------
(* Instances of FlowGraph for TLC.                                             *)
EXTENDS FlowGraph

(* Nodes by their pins: a sensor, a filter, a plot, a group box. *)
MCSource == <<0, 1>>
MCFilter == <<1, 1>>
MCSink == <<1, 0>>
MCGroupBox == <<0, 0>>

(* A chain of three nodes, of which the first was made last.                   *)
MCChain == [nodes |-> {[kind |-> MCFilter, id |-> 3, in |-> 1, out |-> 2],
                       [kind |-> MCSink, id |-> 5, in |-> 4, out |-> 0],
                       [kind |-> MCSource, id |-> 10, in |-> 0, out |-> 9]},
            links |-> {[id |-> 7, start |-> 2, end |-> 4],
                       [id |-> 11, start |-> 9, end |-> 1]}]

(* Editing without files; editing with them, but nothing is cut, and no node   *)
(* has no pins; nodes whose pins come and go, which are not copied: with which *)
(* pins a copy starts is up to the restore of each node.                       *)
MCEditing == [ops |-> {"create", "link", "unlink", "relink", "delete",
                       "cut", "copy", "paste"},
              kinds |-> {MCFilter, MCGroupBox}, file |-> MCChain]
MCFiles == [ops |-> {"create", "link", "unlink", "delete", "copy", "paste",
                     "save", "load", "clear"},
            kinds |-> {MCFilter}, file |-> MCChain]
MCPins == [ops |-> {"link", "unlink", "relink", "delete", "addpin", "droppin"},
           kinds |-> {}, file |-> MCChain]
MCSessions == {MCEditing, MCFiles, MCPins}

MCSlots == 1 .. 5
===============================================================================
