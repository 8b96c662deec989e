---------------------------- MODULE NodeLifecycle -----------------------------
(***************************************************************************)
(* The life cycle of nodes (src/internal/Node/Node.cpp).  Every node has a *)
(* worker thread that performs the state changes other threads request     *)
(* with doInitialize, doReinitialize, doDeinitialize, doDisable, doEnable  *)
(* and the destructor.  Workers are requesters too: an initializing worker *)
(* initializes the nodes its non-flow input pins depend on and waits for   *)
(* them, a deinitializing one passes the request on to its dependents.     *)
(*                                                                         *)
(* A step is the code between two acquisitions of _stateMutex or           *)
(* _workerMutex.  A waiting caller is modelled at the grain where          *)
(* condition variables matter: it evaluates its predicate holding          *)
(* _workerMutex, then releases the mutex and blocks, and only a            *)
(* notify_all that comes later reaches it.                                 *)
(***************************************************************************)
EXTENDS Naturals

CONSTANTS Node,      (* the nodes; node n also names its worker thread       *)
          Client,    (* threads that issue requests: GUI, executor, loader   *)
          NoNode,    (* no node                                              *)
          Deps,      (* <<a, b>>: a non-flow output pin of a feeds b         *)
          FlowLinks, (* <<a, b>>: a flow output pin of a feeds b             *)
          Requests,  (* the requests clients issue, [op, wait]               *)
          MaxCalls   (* bound: calls per client                              *)

Op == {"init", "reinit", "deinit", "disable", "enable", "delete"}

ASSUME LifecycleAssumption ==
  /\ Node \cap Client = {}
  /\ NoNode \notin Node
  /\ Deps \cup FlowLinks \subseteq {e \in Node \X Node : e[1] # e[2]}
  /\ Requests \subseteq [op : Op, wait : BOOLEAN]
  /\ MaxCalls \in Nat

VARIABLES
  state,    (* Node::_state                                                 *)
  reinit,   (* Node::_reinitialize                                          *)
  disable,  (* Node::_disable                                               *)
  wakeup,   (* Node::_workerWakeup                                          *)
  wpc,      (* where the worker of a node is                                *)
  todo,     (* links the worker still has to visit                          *)
  call,     (* the request a thread is executing                            *)
  calls,    (* calls a client may still issue                               *)
  alive     (* NodeManager::m_nodes                                         *)

vars == <<state, reinit, disable, wakeup, wpc, todo, call, calls, alive>>

Thread == Client \cup Node

State == {"Disabled", "Deinitialized", "DoInitialize", "Initializing",
          "Initialized", "DoDeinitialize", "Deinitializing",
          "DoShutdown", "Shutdown"}

(* Mutant: the null check of an unlinked input pin is gone. *)
Inputs_NoNullCheck(n) == {a \in Node : <<a, n>> \in Deps} \cup {NoNode}

Inputs(n)  == {a \in Node : <<a, n>> \in Deps}
Outputs(n) == {b \in Node : <<n, b>> \in Deps}

(* Links of either kind. *)
Successors(n) == {b \in Node : <<n, b>> \in Deps \cup FlowLinks}

-------------------------------------------------------------------------------
(* Requests: the bodies of the do*() functions, for any calling thread t.      *)

CallPC == {"none", "request", "nested", "wake", "check", "parking", "parked",
           "result", "returned", "delete", "destroy", "wakeJoin", "join"}

CallType == [pc : CallPC, op : Op \cup {"none"}, node : Node \cup {NoNode},
             wait : BOOLEAN, ret : BOOLEAN]

NoCall == [pc |-> "none", op |-> "none", node |-> NoNode,
           wait |-> FALSE, ret |-> FALSE]

NewCall(o, n, w) == [pc |-> "request", op |-> o, node |-> n,
                     wait |-> w, ret |-> FALSE]

At(t, p) == call[t].pc = p

Target(t) == call[t].node

Idle(t) == call[t].pc \in {"none", "returned"}

(* A waiting caller holds _workerMutex while it evaluates its predicate. *)
MutexFree(n) == \A t \in Thread :
                  call[t].pc \in {"parking", "result"} => call[t].node # n

Goto(t, p) == call' = [call EXCEPT ![t].pc = p]

(* The call returns v; within DeleteNode the destructor comes next. *)
Reply(t, v) ==
  call' = [call EXCEPT ![t].pc  = IF call[t].op = "delete"
                                  THEN "destroy" ELSE "returned",
                       ![t].ret = v]

WaitOrReply(t) == IF call[t].wait THEN Goto(t, "check") ELSE Reply(t, TRUE)

(* _workerConditionVariable.notify_all() of node n: blocked callers re-check. *)
Notified(n) == [u \in Thread |->
                  IF call[u].pc = "parked" /\ call[u].node = n
                  THEN [call[u] EXCEPT !.pc = "check"] ELSE call[u]]

SetState(n, s) == state' = [state EXCEPT ![n] = s]

(* doInitialize: the switch under _stateMutex. *)
DoInitialize(t) ==
  /\ At(t, "request") /\ call[t].op = "init"
  /\ LET n == Target(t) IN
     \/ /\ state[n] = "Initialized"
        /\ Reply(t, TRUE) /\ UNCHANGED state
     \/ /\ \/ state[n] \in {"Disabled", "DoShutdown", "Shutdown"}
           \/ state[n] \in {"DoDeinitialize", "Deinitializing"} /\ ~reinit[n]
        /\ Reply(t, FALSE) /\ UNCHANGED state
     \/ /\ \/ state[n] \in {"DoInitialize", "Initializing"}
           \/ state[n] \in {"DoDeinitialize", "Deinitializing"} /\ reinit[n]
        /\ WaitOrReply(t) /\ UNCHANGED state
     \/ /\ state[n] = "Deinitialized"
        /\ SetState(n, "DoInitialize") /\ Goto(t, "wake")
  /\ UNCHANGED <<reinit, disable, wakeup, wpc, todo, calls, alive>>

(* doReinitialize; on a deinitialized node it continues as doInitialize. *)
DoReinitialize(t) ==
  /\ At(t, "request") /\ call[t].op = "reinit"
  /\ LET n == Target(t) IN
     \/ /\ state[n] \in {"Disabled", "DoShutdown", "Shutdown"}
        /\ Reply(t, FALSE) /\ UNCHANGED <<state, reinit>>
     \/ /\ state[n] \in {"DoDeinitialize", "Deinitializing"}
        /\ reinit' = [reinit EXCEPT ![n] = TRUE]
        /\ WaitOrReply(t) /\ UNCHANGED state
     \/ /\ state[n] \in {"DoInitialize", "Initializing"}
        /\ WaitOrReply(t) /\ UNCHANGED <<state, reinit>>
     \/ /\ state[n] = "Deinitialized"
        /\ call' = [call EXCEPT ![t].op = "init"]
        /\ UNCHANGED <<state, reinit>>
     \/ /\ state[n] = "Initialized"
        /\ SetState(n, "DoDeinitialize")
        /\ reinit' = [reinit EXCEPT ![n] = TRUE]
        /\ Goto(t, "wake")
  /\ UNCHANGED <<disable, wakeup, wpc, todo, calls, alive>>

(* doDeinitialize, called as such or by DeleteNode. *)
DoDeinitialize(t) ==
  /\ At(t, "request") /\ call[t].op \in {"deinit", "delete"}
  /\ LET n == Target(t) IN
     \/ /\ state[n] = "Deinitialized"
        /\ Reply(t, TRUE) /\ UNCHANGED state
     \/ /\ state[n] \in {"Disabled", "DoShutdown", "Shutdown",
                         "DoInitialize", "Initializing"}
        /\ Reply(t, FALSE) /\ UNCHANGED state
     \/ /\ state[n] \in {"DoDeinitialize", "Deinitializing"}
        /\ WaitOrReply(t) /\ UNCHANGED state
     \/ /\ state[n] = "Initialized"
        /\ SetState(n, "DoDeinitialize") /\ Goto(t, "wake")
  /\ UNCHANGED <<reinit, disable, wakeup, wpc, todo, calls, alive>>

(* doDisable: the switch; a node that is up is deinitialized first. *)
DoDisable(t) ==
  /\ At(t, "request") /\ call[t].op = "disable"
  /\ LET n == Target(t) IN
     \/ /\ state[n] = "Disabled"
        /\ Reply(t, TRUE) /\ UNCHANGED <<state, disable>>
     \/ /\ state[n] \in {"DoShutdown", "Shutdown", "Initializing"}
        /\ Reply(t, FALSE) /\ UNCHANGED <<state, disable>>
     \/ /\ state[n] \in {"Initialized", "DoDeinitialize", "Deinitializing"}
        /\ disable' = [disable EXCEPT ![n] = TRUE]
        /\ Goto(t, "nested") /\ UNCHANGED state
     \/ /\ state[n] \in {"DoInitialize", "Deinitialized"}
        /\ SetState(n, "Disabled")
        /\ WaitOrReply(t) /\ UNCHANGED disable
  /\ UNCHANGED <<reinit, wakeup, wpc, todo, calls, alive>>

(* doDisable's call of doDeinitialize(), which takes the lock anew and whose *)
(* answer is ignored.                                                        *)
DisableDeinitializes(t) ==
  /\ At(t, "nested")
  /\ LET n == Target(t) IN
     \/ /\ state[n] = "Initialized"
        /\ SetState(n, "DoDeinitialize") /\ Goto(t, "wake")
     \/ /\ state[n] # "Initialized"
        /\ WaitOrReply(t) /\ UNCHANGED state
  /\ UNCHANGED <<reinit, disable, wakeup, wpc, todo, calls, alive>>

(* Mutant: doEnable without its guard. *)
DoEnable_Always(t) ==
  /\ At(t, "request") /\ call[t].op = "enable"
  /\ SetState(Target(t), "Deinitialized")
  /\ Reply(t, TRUE)
  /\ UNCHANGED <<reinit, disable, wakeup, wpc, todo, calls, alive>>

(* doEnable. *)
DoEnable(t) ==
  /\ At(t, "request") /\ call[t].op = "enable"
  /\ IF state[Target(t)] = "Disabled"
     THEN SetState(Target(t), "Deinitialized") ELSE UNCHANGED state
  /\ Reply(t, TRUE)
  /\ UNCHANGED <<reinit, disable, wakeup, wpc, todo, calls, alive>>

(* wakeWorker() at the end of a request. *)
WakeWorker(t) ==
  /\ call[t].pc \in {"wake", "wakeJoin"}
  /\ MutexFree(Target(t))
  /\ wakeup' = [wakeup EXCEPT ![Target(t)] = TRUE]
  /\ call' = [Notified(Target(t)) EXCEPT
                ![t].pc  = CASE At(t, "wakeJoin") -> "join"
                             [] At(t, "wake") /\ call[t].wait -> "check"
                             [] OTHER -> "returned",
                ![t].ret = TRUE]
  /\ UNCHANGED <<state, reinit, disable, wpc, todo, calls, alive>>

(* The states a waiting caller waits for. *)
Settled(o) == IF o \in {"init", "reinit"} THEN {"Initialized", "Deinitialized"}
              ELSE {"Deinitialized"}

(* The predicate of the condition variable, evaluated under _workerMutex. *)
WaitCheck(t) ==
  /\ At(t, "check") /\ MutexFree(Target(t))
  /\ Goto(t, IF state[Target(t)] \in Settled(call[t].op)
             THEN "result" ELSE "parking")
  /\ UNCHANGED <<state, reinit, disable, wakeup, wpc, todo, calls, alive>>

(* The predicate was false: release _workerMutex and block. *)
WaitBlock(t) ==
  /\ At(t, "parking") /\ Goto(t, "parked")
  /\ UNCHANGED <<state, reinit, disable, wakeup, wpc, todo, calls, alive>>

(* The predicate was true: the answer is a second read of the state. *)
WaitResult(t) ==
  /\ At(t, "result")
  /\ Reply(t, call[t].op \in {"init", "reinit"}
                => state[Target(t)] = "Initialized")
  /\ UNCHANGED <<state, reinit, disable, wakeup, wpc, todo, calls, alive>>

(* DeleteNode: a node that is up is deinitialized first. *)
DeleteCheck(t) ==
  /\ At(t, "delete")
  /\ Goto(t, IF state[Target(t)] = "Initialized" THEN "request" ELSE "destroy")
  /\ UNCHANGED <<state, reinit, disable, wakeup, wpc, todo, calls, alive>>

(* ~Node: sets the state without taking _stateMutex. *)
Destroy(t) ==
  /\ At(t, "destroy")
  /\ SetState(Target(t), "DoShutdown") /\ Goto(t, "wakeJoin")
  /\ UNCHANGED <<reinit, disable, wakeup, wpc, todo, calls, alive>>

(* ~Node: _worker.join(). *)
Join(t) ==
  /\ At(t, "join") /\ wpc[Target(t)] = "ended"
  /\ Goto(t, "returned")
  /\ UNCHANGED <<state, reinit, disable, wakeup, wpc, todo, calls, alive>>

(* A client that is not in a call issues a request on a node of the flow.     *)
(* DeleteNode takes the node out of m_nodes at once; it is only used on nodes *)
(* without links that no other thread is working with.                        *)
Issue(c) ==
  /\ Idle(c) /\ calls[c] > 0
  /\ calls' = [calls EXCEPT ![c] = @ - 1]
  /\ \E n \in alive, r \in Requests :
       \/ /\ r.op # "delete"
          /\ call' = [call EXCEPT ![c] = NewCall(r.op, n, r.wait)]
          /\ UNCHANGED alive
       \/ /\ r.op = "delete"
          /\ \A e \in Deps \cup FlowLinks : n \notin {e[1], e[2]}
          /\ \A t \in Thread : Idle(t) \/ Target(t) # n
          /\ call' = [call EXCEPT ![c] = [NewCall("delete", n, TRUE)
                                            EXCEPT !.pc = "delete"]]
          /\ alive' = alive \ {n}
  /\ UNCHANGED <<state, reinit, disable, wakeup, wpc, todo>>

CallStep(t) ==
  \/ DoInitialize(t) \/ DoReinitialize(t) \/ DoDeinitialize(t)
  \/ DoDisable(t) \/ DisableDeinitializes(t) \/ DoEnable(t)
  \/ WakeWorker(t) \/ WaitCheck(t) \/ WaitBlock(t) \/ WaitResult(t)
  \/ DeleteCheck(t) \/ Destroy(t) \/ Join(t)

-------------------------------------------------------------------------------
(* The worker: workerThread, workerInitializeNode, workerDeinitializeNode.     *)

WorkerPC == {"top", "initEnter", "initDeps", "initCall", "initBody",
             "initWake", "deinitEnter", "deinitLinks", "deinitCall",
             "deinitBody", "notify", "lastNotify", "sleep", "ended"}

WorkerAt(n, p) == wpc[n] = p

WorkerGoto(n, p) == wpc' = [wpc EXCEPT ![n] = p]

(* The head of the worker's loop: what it does depends on the state alone. *)
Dispatch(n) ==
  /\ WorkerAt(n, "top")
  /\ \/ /\ state[n] = "DoShutdown"
        /\ SetState(n, "Shutdown") /\ WorkerGoto(n, "lastNotify")
     \/ /\ state[n] = "DoInitialize"
        /\ WorkerGoto(n, "initEnter") /\ UNCHANGED state
     \/ /\ state[n] = "DoDeinitialize"
        /\ WorkerGoto(n, "deinitEnter") /\ UNCHANGED state
     \/ /\ state[n] \in {"Disabled", "Initialized", "Deinitialized"}
        /\ WorkerGoto(n, "sleep") /\ UNCHANGED state
  /\ UNCHANGED <<reinit, disable, wakeup, todo, call, calls, alive>>

(* The worker's wait_for returns: woken, or (Timeout) after one minute without *)
(* a wakeup.  Timeout is kept out of WorkerStep: nothing relies on it.         *)
Wakeup(n) ==
  /\ WorkerAt(n, "sleep") /\ MutexFree(n)
  /\ wakeup[n]
  /\ wakeup' = [wakeup EXCEPT ![n] = FALSE]
  /\ WorkerGoto(n, "top")
  /\ UNCHANGED <<state, reinit, disable, todo, call, calls, alive>>

Timeout(n) ==
  /\ WorkerAt(n, "sleep") /\ MutexFree(n)
  /\ ~wakeup[n]
  /\ WorkerGoto(n, "top")
  /\ UNCHANGED <<state, reinit, disable, wakeup, todo, call, calls, alive>>

(* Mutant: the node is marked initialized before it is. *)
InitEnter_Early(n) ==
  /\ WorkerAt(n, "initEnter")
  /\ SetState(n, "Initialized")
  /\ todo' = [todo EXCEPT ![n] = Inputs(n)]
  /\ WorkerGoto(n, "initDeps")
  /\ UNCHANGED <<reinit, disable, wakeup, call, calls, alive>>

(* workerInitializeNode takes the lock again, after workerThread released it: *)
(* the state it overwrites may no longer be the one the worker saw.  An       *)
(* assertion (Node.cpp:833) says it is; a release build goes on.              *)
InitEnter(n) ==
  /\ WorkerAt(n, "initEnter")
  /\ SetState(n, "Initializing")
  /\ todo' = [todo EXCEPT ![n] = Inputs(n)]
  /\ WorkerGoto(n, "initDeps")
  /\ UNCHANGED <<reinit, disable, wakeup, call, calls, alive>>

(* Mutant: the dependencies are asked but not waited for. *)
InitDependency_NoWait(n) ==
  /\ WorkerAt(n, "initDeps")
  /\ \E d \in todo[n] :
       /\ todo' = [todo EXCEPT ![n] = @ \ {d}]
       /\ \/ /\ state[d] = "Initialized"
             /\ UNCHANGED <<wpc, call>>
          \/ /\ state[d] # "Initialized"
             /\ call' = [call EXCEPT ![n] = NewCall("init", d, FALSE)]
             /\ WorkerGoto(n, "initCall")
  /\ UNCHANGED <<state, reinit, disable, wakeup, calls, alive>>

(* Every node on a non-flow input pin is asked to initialize, if it is not. *)
InitDependency(n) ==
  /\ WorkerAt(n, "initDeps")
  /\ \E d \in todo[n] :
       /\ todo' = [todo EXCEPT ![n] = @ \ {d}]
       /\ \/ /\ state[d] = "Initialized"
             /\ UNCHANGED <<wpc, call>>
          \/ /\ state[d] # "Initialized"
             /\ call' = [call EXCEPT ![n] = NewCall("init", d, TRUE)]
             /\ WorkerGoto(n, "initCall")
  /\ UNCHANGED <<state, reinit, disable, wakeup, calls, alive>>

(* Mutant: nobody is told that the state has settled. *)
Settle_Silent(n, running, s) ==
  /\ IF state[n] = running THEN SetState(n, s) ELSE UNCHANGED state
  /\ WorkerGoto(n, "top")

(* The end of workerInitializeNode and workerDeinitializeNode, under the lock: *)
(* a state that the destructor has set meanwhile survives.                     *)
Settle(n, running, s) ==
  /\ IF state[n] = running THEN SetState(n, s) ELSE UNCHANGED state
  /\ WorkerGoto(n, "notify")

InitDependencyAnswer(n) ==
  /\ WorkerAt(n, "initCall") /\ At(n, "returned")
  /\ call' = [call EXCEPT ![n] = NoCall]
  /\ IF call[n].ret
     THEN WorkerGoto(n, "initDeps") /\ UNCHANGED state
     ELSE Settle(n, "Initializing", "Deinitialized")
  /\ UNCHANGED <<reinit, disable, wakeup, todo, calls, alive>>

(* Mutant: the reinitialize request is not forgotten. *)
InitReady_KeepsMark(n) ==
  /\ WorkerAt(n, "initDeps") /\ todo[n] = {}
  /\ WorkerGoto(n, "initBody")
  /\ UNCHANGED <<state, reinit, disable, wakeup, todo, call, calls, alive>>

(* All dependencies are up: forget the reinitialize request. *)
InitReady(n) ==
  /\ WorkerAt(n, "initDeps") /\ todo[n] = {}
  /\ reinit' = [reinit EXCEPT ![n] = FALSE]
  /\ WorkerGoto(n, "initBody")
  /\ UNCHANGED <<state, disable, wakeup, todo, call, calls, alive>>

(* initialize() succeeds (then the workers that any output pin is linked to are *)
(* woken) or fails.                                                            *)
InitSucceeds(n) ==
  /\ WorkerAt(n, "initBody")
  /\ todo' = [todo EXCEPT ![n] = Successors(n)]
  /\ WorkerGoto(n, "initWake")
  /\ UNCHANGED <<state, reinit, disable, wakeup, call, calls, alive>>

InitFails(n) ==
  /\ WorkerAt(n, "initBody")
  /\ Settle(n, "Initializing", "Deinitialized")
  /\ UNCHANGED <<reinit, disable, wakeup, todo, call, calls, alive>>

InitWakesLinked(n) ==
  /\ WorkerAt(n, "initWake")
  /\ \E d \in todo[n] :
       /\ MutexFree(d)
       /\ todo' = [todo EXCEPT ![n] = @ \ {d}]
       /\ wakeup' = [wakeup EXCEPT ![d] = TRUE]
       /\ call' = Notified(d)
  /\ UNCHANGED <<state, reinit, disable, wpc, calls, alive>>

InitDone(n) ==
  /\ WorkerAt(n, "initWake") /\ todo[n] = {}
  /\ Settle(n, "Initializing", "Initialized")
  /\ UNCHANGED <<reinit, disable, wakeup, todo, call, calls, alive>>

DeinitEnter(n) ==
  /\ WorkerAt(n, "deinitEnter")
  /\ SetState(n, "Deinitializing")
  /\ todo' = [todo EXCEPT ![n] = Outputs(n)]
  /\ WorkerGoto(n, "deinitLinks")
  /\ UNCHANGED <<reinit, disable, wakeup, call, calls, alive>>

(* Every initialized dependent gets the request too, without waiting for it. *)
DeinitDependent(n) ==
  /\ WorkerAt(n, "deinitLinks")
  /\ \E d \in todo[n] :
       \/ /\ state[d] # "Initialized"
          /\ todo' = [todo EXCEPT ![n] = @ \ {d}]
          /\ UNCHANGED <<wpc, call>>
       \/ /\ state[d] = "Initialized"
          /\ call' = [call EXCEPT ![n] =
                        NewCall(IF reinit[n] THEN "reinit" ELSE "deinit",
                                d, FALSE)]
          /\ WorkerGoto(n, "deinitCall") /\ UNCHANGED todo
  /\ UNCHANGED <<state, reinit, disable, wakeup, calls, alive>>

DeinitDependentAnswer(n) ==
  /\ WorkerAt(n, "deinitCall") /\ At(n, "returned")
  /\ todo' = [todo EXCEPT ![n] = @ \ {Target(n)}]
  /\ call' = [call EXCEPT ![n] = NoCall]
  /\ WorkerGoto(n, "deinitLinks")
  /\ UNCHANGED <<state, reinit, disable, wakeup, calls, alive>>

(* Every dependent has been asked: deinitialize() is called. *)
DeinitReady(n) ==
  /\ WorkerAt(n, "deinitLinks") /\ todo[n] = {}
  /\ WorkerGoto(n, "deinitBody")
  /\ UNCHANGED <<state, reinit, disable, wakeup, todo, call, calls, alive>>

DeinitDone(n) ==
  /\ WorkerAt(n, "deinitBody")
  /\ Settle(n, "Deinitializing", CASE disable[n] -> "Disabled"
                                   [] ~disable[n] /\ reinit[n] -> "DoInitialize"
                                   [] OTHER -> "Deinitialized")
  /\ UNCHANGED <<reinit, disable, wakeup, todo, call, calls, alive>>

(* Mutant: after a request the worker sleeps without looking at the state. *)
Notify_Sleeps(n) ==
  /\ wpc[n] \in {"notify", "lastNotify"}
  /\ call' = Notified(n)
  /\ WorkerGoto(n, IF WorkerAt(n, "notify") THEN "sleep" ELSE "ended")
  /\ UNCHANGED <<state, reinit, disable, wakeup, todo, calls, alive>>

(* notify_all() without _workerMutex, after the state has been set. *)
Notify(n) ==
  /\ wpc[n] \in {"notify", "lastNotify"}
  /\ call' = Notified(n)
  /\ WorkerGoto(n, IF WorkerAt(n, "notify") THEN "top" ELSE "ended")
  /\ UNCHANGED <<state, reinit, disable, wakeup, todo, calls, alive>>

WorkerStep(n) ==
  \/ Dispatch(n) \/ Wakeup(n)
  \/ InitEnter(n) \/ InitDependency(n) \/ InitDependencyAnswer(n)
  \/ InitReady(n) \/ InitSucceeds(n) \/ InitFails(n)
  \/ InitWakesLinked(n) \/ InitDone(n)
  \/ DeinitEnter(n) \/ DeinitDependent(n) \/ DeinitDependentAnswer(n)
  \/ DeinitReady(n) \/ DeinitDone(n) \/ Notify(n)

-------------------------------------------------------------------------------

(* A node is created with its worker running; from_json may disable it. *)
Init ==
  /\ state \in [Node -> {"Deinitialized", "Disabled"}]
  /\ reinit = [n \in Node |-> FALSE]
  /\ disable = [n \in Node |-> FALSE]
  /\ wakeup = [n \in Node |-> FALSE]
  /\ wpc = [n \in Node |-> "top"]
  /\ todo = [n \in Node |-> {}]
  /\ call = [t \in Thread |-> NoCall]
  /\ calls = [c \in Client |-> MaxCalls]
  /\ alive = Node

Next ==
  \/ \E c \in Client : Issue(c)
  \/ \E t \in Thread : CallStep(t)
  \/ \E n \in Node : WorkerStep(n) \/ Timeout(n)

Spec == Init /\ [][Next]_vars

(* Threads are scheduled: a worker and a caller that can step do so.  Nothing *)
(* is assumed of clients (they need not call) nor of the timeout.             *)
Fairness ==
  /\ \A t \in Thread : WF_vars(CallStep(t))
  /\ \A n \in Node : WF_vars(WorkerStep(n))

FairSpec == Spec /\ Fairness

-------------------------------------------------------------------------------
(* Correctness.                                                                *)

(* Every variable holds a value of its type. *)
TypeOK ==
  /\ state \in [Node -> State]
  /\ reinit \in [Node -> BOOLEAN]
  /\ disable \in [Node -> BOOLEAN]
  /\ wakeup \in [Node -> BOOLEAN]
  /\ wpc \in [Node -> WorkerPC]
  /\ todo \in [Node -> SUBSET Node]
  /\ call \in [Thread -> CallType]
  /\ calls \in [Client -> Nat]
  /\ alive \in SUBSET Node

InitSection == {"initDeps", "initCall", "initBody", "initWake"}

DeinitSection == {"deinitLinks", "deinitCall", "deinitBody"}

(* While a worker is inside (de)initialization no request of another thread   *)
(* takes the state away from it, whatever the interleaving; only the           *)
(* destructor may.  And nobody else ever produces a running state: every       *)
(* "Initializing" a caller waits on has a worker that will end it.             *)
WorkerOwnsTransient ==
  \A n \in Node :
    /\ wpc[n] \in InitSection => state[n] \in {"Initializing", "DoShutdown"}
    /\ wpc[n] \in DeinitSection => state[n] \in {"Deinitializing", "DoShutdown"}
    /\ state[n] = "Initializing" => wpc[n] \in InitSection
    /\ state[n] = "Deinitializing" => wpc[n] \in DeinitSection

(* Worker can only deinitialize the node if the state is set to DoDeinitialize *)
(* (Node.cpp:923): between the worker's look at the state and its taking the   *)
(* lock again no other thread takes that request back, except the destructor.  *)
(* A request to initialize (Node.cpp:833) only a disable takes back, which an  *)
(* enable may follow.                                                          *)
RequestKept ==
  \A n \in Node :
    /\ wpc[n] = "deinitEnter" => state[n] \in {"DoDeinitialize", "DoShutdown"}
    /\ wpc[n] = "initEnter" => state[n] \in {"DoInitialize", "DoShutdown",
                                              "Disabled", "Deinitialized"}

(* A request to reinitialize does not outlive the initialization it asked     *)
(* for: an initialized node that is deinitialized later does not spring up     *)
(* again, even if the reinitialization failed half-way on a dependency and     *)
(* left the mark behind (_reinitialize is reset at one place only).            *)
NoStaleReinit == \A n \in Node : state[n] = "Initialized" => ~reinit[n]

(* Node a has still to pass its deinitialization on to its dependent b. *)
CascadePending(a, b) == \/ state[a] = "DoDeinitialize"
                        \/ state[a] = "Deinitializing" /\ b \in todo[a]

(* A node is up only while the nodes it takes data from through non-flow pins  *)
(* are up, or are about to tell it that they go down (workerInitializeNode     *)
(* waits for them, workerDeinitializeNode passes the request on).              *)
DependencyHeld ==
  \A e \in Deps : state[e[2]] = "Initialized"
                  => state[e[1]] = "Initialized" \/ CascadePending(e[1], e[2])

(* The states follow the diagram, and each requested or running state is left: *)
(* the worker serves the request, whatever the other threads do.               *)
NS == INSTANCE NodeStates
StatesFollowDiagram == NS!Safe
StatesServed == NS!Spec

(* No caller is between its predicate and its wait when the worker tells that  *)
(* the state has settled: notify_all does not take _workerMutex, and a caller  *)
(* there would not hear it (Node.cpp:540).                                     *)
NobodyMisses ==
  \A t \in Thread : At(t, "parking") => wpc[Target(t)] \notin {"notify", "lastNotify"}

(* A deinitialization that is waited for may be overtaken by a request to      *)
(* reinitialize: the worker goes on to initialize without passing through      *)
(* "Deinitialized", which is all that doDeinitialize(true) waits for.          *)
Overtaken(t) == call[t].op = "deinit" /\ state[Target(t)] = "Initialized"

(* "Wait for the worker to complete the request": a call returns, if the       *)
(* notification is not missed and the request not overtaken.                   *)
CallsReturn ==
  []NobodyMisses => \A t \in Thread : ~Idle(t) ~> Idle(t) \/ Overtaken(t)

(* A mark to reinitialize brings the node back to initialize(). *)
ReinitServed ==
  \A n \in Node : reinit[n] ~> state[n] = "Initializing"
===============================================================================
