------------------------------ MODULE NodeStates ------------------------------
(***************************************************************************)
(* What a node's life cycle promises: the state diagram of the node states *)
(* (doc/core/Nodes.dox, Node-States-*.png), one edge per step and one node *)
(* per step.  The worker owns the edges that leave a requested or a        *)
(* running state, and it always takes them in the end.  NodeLifecycle is   *)
(* the threads that implement it.                                          *)
(***************************************************************************)
CONSTANT Node

VARIABLE state

(* The states of Node::State. *)
State == {"Disabled", "Deinitialized", "DoInitialize", "Initializing",
          "Initialized", "DoDeinitialize", "Deinitializing",
          "DoShutdown", "Shutdown"}

(* Edges a caller requests: doInitialize, doDeinitialize and doReinitialize, *)
(* doDisable, doEnable.                                                       *)
RequestEdge == {<<"Deinitialized", "DoInitialize">>,
                <<"Initialized", "DoDeinitialize">>,
                <<"Deinitialized", "Disabled">>,
                <<"DoInitialize", "Disabled">>,
                <<"Disabled", "Deinitialized">>}

(* Edges of the worker: success, failure, the three ends of a *)
(* deinitialization, and the end of the thread.               *)
WorkerEdge == {<<"DoInitialize", "Initializing">>,
               <<"Initializing", "Initialized">>,
               <<"Initializing", "Deinitialized">>,
               <<"DoDeinitialize", "Deinitializing">>,
               <<"Deinitializing", "Deinitialized">>,
               <<"Deinitializing", "DoInitialize">>,
               <<"Deinitializing", "Disabled">>,
               <<"DoShutdown", "Shutdown">>}

Take(n, edges) == \E e \in edges : /\ state[n] = e[1]
                                   /\ state' = [state EXCEPT ![n] = e[2]]

(* A caller's request on node n. *)
Request(n) == Take(n, RequestEdge)

(* A step of node n's worker. *)
Work(n) == Take(n, WorkerEdge)

(* The destructor, from every state but the last. *)
Delete(n) == /\ state[n] \notin {"DoShutdown", "Shutdown"}
             /\ state' = [state EXCEPT ![n] = "DoShutdown"]

Init == state \in [Node -> {"Deinitialized", "Disabled"}]

Next == \E n \in Node : Request(n) \/ Work(n) \/ Delete(n)

Safe == Init /\ [][Next]_state

Spec == Safe /\ \A n \in Node : WF_state(Work(n))
===============================================================================
