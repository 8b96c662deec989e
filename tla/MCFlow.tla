-------------------------------- MODULE MCFlow --------------------------------
(* Instances of FlowExecutor for TLC: a source that feeds a node and, with it, *)
(* a second one, whose two pins have to be sorted; and smaller flows.          *)
EXTENDS FlowExecutor, TLC

CONSTANTS a, b, c

MCNode3 == {a, b, c}
MCOrder3 == <<a, b, c>>
MCTriangle == {<<a, b>>, <<a, c>>, <<b, c>>}
MCData3 == (a :> <<1, 2>>) @@ (b :> <<>>) @@ (c :> <<>>)

MCNode2 == {a, b}
MCOrder2 == <<b, a>>
MCLine == {<<a, b>>}
MCData2 == (a :> <<1>>) @@ (b :> <<>>)

(* A first run: a node behind one that comes up may be left woken. *)
MCNone == {}
MCBehind == {b}

MCPost == {FALSE}
MCAnyMode == BOOLEAN
MCRun == {"start", "wait"}
MCRunStop == {"start", "stop", "wait"}
===============================================================================
