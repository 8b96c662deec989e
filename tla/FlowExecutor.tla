----------------------------- MODULE FlowExecutor ------------------------------
(***************************************************************************)
(* The flow executor (src/internal/FlowExecutor.cpp) and the run of a flow *)
(* it conducts: one control thread (the GUI, or main with its interrupt    *)
(* thread) starts, stops and waits for the execute thread; execute         *)
(* initializes the nodes, puts them into their mode, enables callbacks,    *)
(* wakes the workers and waits until the last node deregisters.            *)
(*                                                                         *)
(* _mutex is held for one step at a time; waits on _cv are guards, as all  *)
(* who change the state notify while they hold the mutex.                  *)
(***************************************************************************)
EXTENDS FlowNodes

CONSTANTS Order,      (* NodeManager::m_nodes                                *)
          Woken,      (* nodes that an initialization may leave woken, see there *)
          Modes,      (* may a run be a real-time run? a post-processing run? *)
          Calls,      (* what the control thread does: start, stop, wait     *)
          MaxStarts,  (* bound: runs                                         *)
          MaxStops,   (* bound: stops of the control thread                  *)
          SizeLimit   (* _activeNodes is a size_t, modulo this               *)

ASSUME ExecutorAssumption ==
  /\ Order \in [1 .. Cardinality(Node) -> Node]
  /\ \A n \in Node : \E i \in DOMAIN Order : Order[i] = n
  /\ \A i, j \in DOMAIN Order : Order[i] = Order[j] => i = j
  /\ Woken \subseteq Node
  /\ Modes \in (SUBSET BOOLEAN) \ {{}}
  /\ Calls \subseteq {"start", "stop", "wait"}
  /\ MaxStarts \in Nat /\ MaxStops \in Nat
  /\ SizeLimit \in Nat /\ SizeLimit > 2 * Cardinality(Node)

VARIABLES
  state,        (* FlowExecutor's _state                                     *)
  activeNodes,  (* _activeNodes                                              *)
  exec,         (* where the execute thread is: [pc, at], at an index of Order *)
  realTime,     (* this run's realTimeMode                                   *)
  ctl,          (* where the control thread is: [pc, op]                     *)
  starts, stops (* calls the control thread may still make                   *)

execVars == <<state, activeNodes, exec, realTime, ctl, starts, stops>>
vars == <<nodeVars, state, activeNodes, exec, realTime, ctl, starts, stops>>

-------------------------------------------------------------------------------
(* The control thread.                                                         *)

CtlAt(p) == ctl.pc = p

CtlGoto(p) == ctl' = [ctl EXCEPT !.pc = p]

Call ==
  /\ CtlAt("idle")
  /\ \E op \in Calls :
       /\ op = "start" => starts > 0
       /\ op = "stop" => stops > 0
       /\ starts' = IF op = "start" THEN starts - 1 ELSE starts
       /\ stops' = IF op = "stop" THEN stops - 1 ELSE stops
       /\ ctl' = [op |-> op, pc |-> IF op = "wait" THEN "wait" ELSE "isRunning"]
  /\ UNCHANGED <<nodeVars, state, activeNodes, exec, realTime>>

(* stop(), and start() through it: isRunning(), then the lock again. *)
IsRunning ==
  /\ CtlAt("isRunning")
  /\ CtlGoto(IF state # "Idle" THEN "stop" ELSE "join")
  /\ UNCHANGED <<nodeVars, state, activeNodes, exec, realTime, starts, stops>>

Stop ==
  /\ CtlAt("stop")
  /\ state' = IF state \in {"Running", "Starting"} THEN "Stopping" ELSE state
  /\ CtlGoto("wait")
  /\ UNCHANGED <<nodeVars, activeNodes, exec, realTime, starts, stops>>

(* waitForFinish(). *)
WaitForFinish ==
  /\ CtlAt("wait") /\ state = "Idle"
  /\ CtlGoto("join")
  /\ UNCHANGED <<nodeVars, state, activeNodes, exec, realTime, starts, stops>>

(* _thd.join(), if there is a thread; then start() goes on. *)
Join ==
  /\ CtlAt("join") /\ exec.pc \in {"none", "ended"}
  /\ exec' = [exec EXCEPT !.pc = "none"]
  /\ CtlGoto(IF ctl.op = "start" THEN "start" ELSE "idle")
  /\ UNCHANGED <<nodeVars, state, activeNodes, realTime, starts, stops>>

Start ==
  /\ CtlAt("start")
  /\ state' = "Starting"
  /\ exec' = [pc |-> "clear", at |-> 1]
  /\ CtlGoto("idle")
  /\ UNCHANGED <<nodeVars, activeNodes, realTime, starts, stops>>

Control == Call \/ IsRunning \/ Stop \/ WaitForFinish \/ Join \/ Start

-------------------------------------------------------------------------------
(* The execute thread.                                                         *)

ExecAt(p) == exec.pc = p

ExecGoto(p) == exec' = [pc |-> p, at |-> 1]

(* One round of a loop over all nodes; p comes after the loop. *)
NextNode(p) == exec' = IF exec.at = Len(Order)
                       THEN [pc |-> p, at |-> 1]
                       ELSE [exec EXCEPT !.at = @ + 1]

Cur == Order[exec.at]

ClearQueues(n) == queue' = [e \in Link |-> IF e[2] = n THEN <<>> ELSE queue[e]]

(* Before a run: queues and poll events are cleared. *)
ClearNode ==
  /\ ExecAt("clear")
  /\ ClearQueues(Cur)
  /\ poll' = [poll EXCEPT ![Cur] = FALSE]
  /\ NextNode("initialize")
  /\ UNCHANGED <<noMore, mode, callbacks, wakeup, left, workerVars, state,
                 activeNodes, realTime, ctl, starts, stops>>

(* Mutant: initialization ends with a wakeup of every node. *)
InitializeAllNodes_WakesAll ==
  /\ ExecAt("initialize")
  /\ wakeup' = [n \in Node |-> TRUE]
  /\ ExecGoto("count")
  /\ UNCHANGED <<queue, noMore, mode, callbacks, poll, left, workerVars, state,
                 activeNodes, realTime, ctl, starts, stops>>

(* InitializeAllNodes().  A node that has to be initialized wakes those its    *)
(* output pins are linked to (Node.cpp:891-899), and is left woken itself if   *)
(* its worker saw the request before the wakeup that follows it.  Such wakeups *)
(* may still be pending.  None comes from nodes that are initialized already.  *)
InitializeAllNodes ==
  /\ ExecAt("initialize")
  /\ \E woken \in SUBSET Woken : wakeup' = [n \in Node |-> wakeup[n] \/ n \in woken]
  /\ ExecGoto("count")
  /\ UNCHANGED <<queue, noMore, mode, callbacks, poll, left, workerVars, state,
                 activeNodes, realTime, ctl, starts, stops>>

InitializationFails ==
  /\ ExecAt("initialize")
  /\ state' = "Idle" /\ ExecGoto("ended")
  /\ UNCHANGED <<nodeVars, activeNodes, realTime, ctl, starts, stops>>

ResetCount ==
  /\ ExecAt("count")
  /\ activeNodes' = 0 /\ realTime' \in Modes
  /\ ExecGoto("mode")
  /\ UNCHANGED <<nodeVars, state, ctl, starts, stops>>

(* The loop that prepares the nodes is left when somebody stops. *)
SetMode ==
  /\ ExecAt("mode")
  /\ IF state = "Starting"
     THEN /\ mode' = [mode EXCEPT ![Cur] = IF realTime THEN "REAL_TIME"
                                                      ELSE "POST_PROCESSING"]
          /\ exec' = [exec EXCEPT !.pc = IF realTime THEN "reset" ELSE "add"]
     ELSE ExecGoto("enable") /\ UNCHANGED mode
  /\ UNCHANGED <<queue, noMore, callbacks, wakeup, poll, left, workerVars,
                 state, activeNodes, realTime, ctl, starts, stops>>

AddActive ==
  /\ ExecAt("add")
  /\ activeNodes' = (activeNodes + 1) % SizeLimit
  /\ exec' = [exec EXCEPT !.pc = "reset"]
  /\ UNCHANGED <<nodeVars, state, realTime, ctl, starts, stops>>

(* resetNode() rewinds the file; linked pins have data to come; a pin with    *)
(* data to peek becomes a poll event.                                         *)
ResetNode ==
  /\ ExecAt("reset")
  /\ left' = [left EXCEPT ![Cur] = Data[Cur]]
  /\ noMore' = [noMore EXCEPT ![Cur] = @ /\ Out(Cur) = {}]
  /\ poll' = [poll EXCEPT ![Cur] = Data[Cur] # <<>> /\ Out(Cur) # {}]
  /\ IF exec.at = Len(Order) THEN ExecGoto("enable")
     ELSE exec' = [pc |-> "mode", at |-> exec.at + 1]
  /\ UNCHANGED <<queue, mode, callbacks, wakeup, workerVars, state,
                 activeNodes, realTime, ctl, starts, stops>>

(* Mutant: the state is not checked before callbacks are enabled. *)
Enable_Unchecked ==
  /\ ExecAt("enable")
  /\ state' = "Running" /\ callbacks' = [n \in Node |-> TRUE]
  /\ ExecGoto("wake")
  /\ UNCHANGED <<queue, noMore, mode, wakeup, poll, left, workerVars,
                 activeNodes, realTime, ctl, starts, stops>>

(* EnableAllCallbacks() under the lock: no stop comes between. *)
Enable ==
  /\ ExecAt("enable")
  /\ IF state = "Starting"
     THEN state' = "Running" /\ callbacks' = [n \in Node |-> TRUE]
     ELSE UNCHANGED <<state, callbacks>>
  /\ ExecGoto("wake")
  /\ UNCHANGED <<queue, noMore, mode, wakeup, poll, left, workerVars,
                 activeNodes, realTime, ctl, starts, stops>>

(* Mutant: nobody is woken here, since the initialization has woken them. *)
Wake_None ==
  /\ ExecAt("wake")
  /\ NextNode("wait")
  /\ UNCHANGED <<nodeVars, state, activeNodes, realTime, ctl, starts, stops>>

Wake ==
  /\ ExecAt("wake")
  /\ wakeup' = [wakeup EXCEPT ![Cur] = TRUE]
  /\ NextNode("wait")
  /\ UNCHANGED <<queue, noMore, mode, callbacks, poll, left, workerVars, state,
                 activeNodes, realTime, ctl, starts, stops>>

Wait ==
  /\ ExecAt("wait") /\ state = "Stopping"
  /\ ExecGoto("disable")
  /\ UNCHANGED <<nodeVars, state, activeNodes, realTime, ctl, starts, stops>>

(* The one-minute timeout, when all nodes have deregistered: an error. *)
WaitTimeout ==
  /\ Timeouts
  /\ ExecAt("wait") /\ state # "Stopping" /\ ~realTime /\ activeNodes = 0
  /\ ExecGoto("disable")
  /\ UNCHANGED <<nodeVars, state, activeNodes, realTime, ctl, starts, stops>>

(* Mutant: callbacks are left on. *)
DisableCallbacks_None ==
  /\ ExecAt("disable")
  /\ NextNode("clearAll")
  /\ UNCHANGED <<flowVars, workerVars, state, activeNodes, realTime, ctl,
                 starts, stops>>

DisableCallbacks ==
  /\ ExecAt("disable")
  /\ callbacks' = [callbacks EXCEPT ![Cur] = FALSE]
  /\ NextNode("clearAll")
  /\ UNCHANGED <<queue, noMore, mode, wakeup, poll, left, workerVars, state,
                 activeNodes, realTime, ctl, starts, stops>>

(* Mutant: queues are not cleared after the run. *)
ClearAllNodeQueues_None ==
  /\ ExecAt("clearAll")
  /\ NextNode("restore")
  /\ UNCHANGED <<flowVars, workerVars, state, activeNodes, realTime, ctl,
                 starts, stops>>

ClearAllNodeQueues ==
  /\ ExecAt("clearAll")
  /\ ClearQueues(Cur)
  /\ NextNode("restore")
  /\ UNCHANGED <<noMore, mode, callbacks, wakeup, poll, left, workerVars,
                 state, activeNodes, realTime, ctl, starts, stops>>

RestoreMode ==
  /\ ExecAt("restore")
  /\ mode' = [mode EXCEPT ![Cur] = "REAL_TIME"]
  /\ noMore' = [noMore EXCEPT ![Cur] = TRUE]
  /\ NextNode("end")
  /\ UNCHANGED <<queue, callbacks, wakeup, poll, left, workerVars, state,
                 activeNodes, realTime, ctl, starts, stops>>

ClearCount ==
  /\ ExecAt("end")
  /\ activeNodes' = 0 /\ ExecGoto("idle")
  /\ UNCHANGED <<nodeVars, state, realTime, ctl, starts, stops>>

(* Mutant: the state is left as it is. *)
EndExecution_KeepsState ==
  /\ ExecAt("idle")
  /\ ExecGoto("ended")
  /\ UNCHANGED <<nodeVars, state, activeNodes, realTime, ctl, starts, stops>>

EndExecution ==
  /\ ExecAt("idle")
  /\ state' = "Idle" /\ ExecGoto("ended")
  /\ UNCHANGED <<nodeVars, activeNodes, realTime, ctl, starts, stops>>

Execute ==
  \/ ClearNode \/ InitializeAllNodes \/ InitializationFails \/ ResetCount
  \/ SetMode \/ AddActive \/ ResetNode \/ Enable \/ Wake \/ Wait
  \/ DisableCallbacks \/ ClearAllNodeQueues \/ RestoreMode \/ ClearCount
  \/ EndExecution

-------------------------------------------------------------------------------
(* deregisterNode(), called by the worker of a node that has finished.         *)

(* Mutant: the counter is not unsigned. *)
Decrement_NoWrap(n) ==
  /\ At(n, "deregister")
  /\ activeNodes' = activeNodes - 1
  /\ Goto(n, "compare")
  /\ UNCHANGED <<flowVars, todo, item, state, exec, realTime, ctl, starts, stops>>

Decrement(n) ==
  /\ At(n, "deregister")
  /\ activeNodes' = (activeNodes + SizeLimit - 1) % SizeLimit
  /\ Goto(n, "compare")
  /\ UNCHANGED <<flowVars, todo, item, state, exec, realTime, ctl, starts, stops>>

(* A source goes on to the finish check, any other node has come from there. *)
AfterDeregister(n) == IF In(n) = {} THEN "finish" ELSE "sleep"

(* The counter is read again. *)
Compare(n) ==
  /\ At(n, "compare")
  /\ Goto(n, IF activeNodes = 0 THEN "lock" ELSE AfterDeregister(n))
  /\ UNCHANGED <<flowVars, todo, item, execVars>>

SetStopping(n) ==
  /\ At(n, "lock")
  /\ state' = "Stopping"
  /\ Goto(n, AfterDeregister(n))
  /\ UNCHANGED <<flowVars, todo, item, activeNodes, exec, realTime, ctl,
                 starts, stops>>

DeregisterNode(n) == Decrement(n) \/ Compare(n) \/ SetStopping(n)

-------------------------------------------------------------------------------

Worker(n) == \/ NodeStep(n) /\ UNCHANGED execVars
             \/ DeregisterNode(n)

Init ==
  /\ NodeInit
  /\ state = "Idle" /\ activeNodes = 0 /\ realTime = FALSE
  /\ exec = [pc |-> "none", at |-> 1]
  /\ ctl = [pc |-> "idle", op |-> "none"]
  /\ starts = MaxStarts /\ stops = MaxStops

Next ==
  \/ Control
  \/ Execute \/ WaitTimeout
  \/ \E n \in Node : Worker(n)

Spec == Init /\ [][Next]_vars

(* The threads are scheduled; a call that was made goes on.  Nobody has to    *)
(* make a call, and no timeout has to fire.                                   *)
Fairness ==
  /\ WF_vars(Execute)
  /\ WF_vars(IsRunning \/ Stop \/ WaitForFinish \/ Join \/ Start)
  /\ \A n \in Node : WF_vars(Worker(n))

FairSpec == Spec /\ Fairness

-------------------------------------------------------------------------------
(* Correctness.                                                                *)

Executing == exec.pc \notin {"none", "ended"}

ExecPC == {"none", "clear", "initialize", "count", "mode", "add", "reset", "enable",
           "wake", "wait", "disable", "clearAll", "restore", "end", "idle", "ended"}

CtlPC == {"idle", "isRunning", "stop", "wait", "join", "start"}

(* Every variable holds a value of its type. *)
TypeOK ==
  /\ NodeTypeOK
  /\ state \in {"Idle", "Starting", "Running", "Stopping"}
  /\ activeNodes \in 0 .. SizeLimit - 1
  /\ exec \in [pc : ExecPC, at : DOMAIN Order]
  /\ realTime \in BOOLEAN
  /\ ctl \in [pc : CtlPC, op : {"none", "start", "stop", "wait"}]
  /\ starts \in 0 .. MaxStarts /\ stops \in 0 .. MaxStops

(* In post-processing a node takes the items of all its pins in the order of   *)
(* time, although every predecessor runs at its own pace (the check for        *)
(* temporal sorting; item is what the node took last, in the only run).        *)
TemporalOrder ==
  [][\A n \in Node : At(n, "input") => item'[n] >= item[n]]_vars

(* The executor's count is that of the nodes that have yet to deregister,      *)
(* whichever of them are just about to: it reaches zero when all are through.  *)
CountAccurate ==
  /\ ~realTime
  /\ exec.pc \in {"mode", "add", "reset", "enable", "wake", "wait", "disable",
                  "clearAll"}
  => (activeNodes + IF ExecAt("add") THEN 1 ELSE 0) % SizeLimit
       = Cardinality({n \in Node : mode[n] = "POST_PROCESSING"})
         + Cardinality({n \in Node : At(n, "deregister")})

(* A pin that has announced that it has no more data does not send any more:   *)
(* its successors rely on it when they sort and when they finish.              *)
NoMoreIsFinal ==
  [][\A e \in Link : ExecAt("wait") /\ Len(queue'[e]) > Len(queue[e])
                     => ~noMore[e[1]]]_vars

(* No data is left in the flow when a run has ended by itself (the check that  *)
(* the flow tests make after every run).                                       *)
NoDataLeft == ~Executing => \A e \in Link : queue[e] = <<>>

(* Every run in post-processing ends: nobody waits for data that does not come *)
(* and no deregistration is missing.                                           *)
ExecutionEnds == Executing ~> ~Executing

(* A node finishes only after the nodes it takes data from, and a source when  *)
(* its file has been read to the end: no node finishes early, before           *)
(* everything is prepared, if nobody stops the run.                            *)
FinishedInTurn ==
  exec.pc \in {"wake", "wait"} =>
    \A n \in Node : mode[n] = "REAL_TIME" =>
      /\ \A e \in In(n) : noMore[e[1]]
      /\ Out(n) # {} /\ Data[n] # <<>> => item[n] = Data[n][Len(Data[n])]

(* Callbacks are on only between start and end of a run, also if the run is    *)
(* stopped while it starts or its nodes finish while it stops; between runs    *)
(* every node is back in real-time mode.                                       *)
QuietOutsideRun ==
  \A n \in Node :
    /\ callbacks[n] => exec.pc \in {"wake", "wait", "disable"}
    /\ ~Executing => mode[n] = "REAL_TIME" /\ noMore[n]

(* A request to stop is not lost: the run it is meant for never goes on, even  *)
(* if it is still starting.                                                    *)
StopHolds ==
  [][Executing /\ state = "Stopping" => state' \in {"Stopping", "Idle"}]_vars

(* "Called by nodes when they finished with sending data": a node that         *)
(* deregisters has no data in its queues that it has yet to handle.            *)
FinishedWithData ==
  \A n \in Node : At(n, "deregister") /\ ExecAt("wait")
                  => \A e \in In(n) : queue[e] = <<>>

(* No two nodes find the counter at zero: each reads it once more after it     *)
(* has lowered it, so that the last two may both take themselves for the last. *)
OneLast == \A m, n \in Node :
             At(m, "lock") /\ (At(n, "lock") \/ At(n, "compare")) => m = n

(* "Waits for a thread to finish its execution": that wait ends, unless two    *)
(* nodes take themselves for the last; the slower one then sets the state to   *)
(* Stopping when the run is over, and nothing sets it back to Idle.            *)
WaitReturns == []OneLast => (CtlAt("wait") ~> CtlAt("idle"))
===============================================================================
