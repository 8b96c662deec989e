----------------------------- MODULE MCPinValue -------------------------------
(* Instances of PinValue for TLC: output pins x and P of a Kalman filter, and *)
(* the nodes that read them.                                                   *)
EXTENDS PinValue, TLC

CONSTANTS x, P, plot, logger, monitor

MCPins == {x, P}
MCNodes == {plot, logger, monitor}

(* The state x is changed alone or together with its covariance P; the plot    *)
(* also looks at x when another pin of it calls.  No node reads both pins: see *)
(* the README for what happens then.                                           *)
MCLinks == {<<plot, x>>, <<logger, x>>, <<monitor, P>>}
MCUses == plot :> {"get", "copy", "poll"} @@ logger :> {"get", "release"} @@ monitor :> {"get"}
MCBatches == {<<x>>, <<x, P>>}

(* A logger alone with one pin. *)
MCLogger == {logger}
MCOneLink == {<<logger, x>>}
MCGets == [n \in Nodes |-> {"get"}]
MCOnePin == {<<x>>}
===============================================================================
