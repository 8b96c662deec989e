-------------------------- MODULE FlowExecutorProofs ---------------------------
(* Proofs about FlowExecutor, for any flow, any calls of the control thread and *)
(* either mode, spurious passes of the workers and timeouts included: types,    *)
(* that a stop is not lost, and that everything is quiet between runs.          *)
(* FlowRunProofs goes on with what holds within a run.                          *)
EXTENDS FlowExecutor, FiniteSetTheorems, TLAPS

-------------------------------------------------------------------------------
(* The invariants that the proofs rest on.                                     *)

(* A pin with poll events belongs to a source that can be read, or whose worker *)
(* is about to look whether there is more to read.                             *)
PollHasData ==
  \A n \in Node :
    /\ left[n] # <<>> => In(n) = {}
    /\ poll[n] => /\ In(n) = {}
                  /\ \/ left[n] # <<>>
                     \/ wpc[n] \in {"invoke", "push", "pollNext"}

(* How a node is between runs. *)
Quiet(n) == mode[n] = "REAL_TIME" /\ noMore[n]

(* Where the loops at the end of execute have got to, and what holds when they  *)
(* are through; a new run does not start before.                               *)
QuietSoFar ==
  /\ \A n \in Node : callbacks[n] => exec.pc \in {"wake", "wait", "disable"}
  /\ ExecAt("disable") => \A i \in 1 .. exec.at - 1 : ~callbacks[Order[i]]
  /\ ExecAt("restore") => \A i \in 1 .. exec.at - 1 : Quiet(Order[i])
  /\ exec.pc \in {"end", "idle", "ended", "none", "clear", "initialize", "count"}
       => \A n \in Node : Quiet(n)

StartsAlone == CtlAt("start") => ExecAt("none")

-------------------------------------------------------------------------------
(* Types.                                                                      *)

(* What the assumptions say of the list of nodes. *)
LEMMA OrderFacts ==
  /\ Cardinality(Node) \in Nat \ {0}
  /\ DOMAIN Order = 1 .. Cardinality(Node) /\ 1 \in DOMAIN Order
  /\ Len(Order) = Cardinality(Node)
  /\ \A i \in DOMAIN Order : Order[i] \in Node
<1>1. Cardinality(Node) \in Nat \ {0}
  BY FlowAssumption, FS_CardinalityType, FS_EmptySet
<1>2. Order \in [1 .. Cardinality(Node) -> Node]
  BY ExecutorAssumption
<1>3. Order \in Seq(Node) /\ Len(Order) = Cardinality(Node)
  BY <1>1, <1>2
<1> QED BY <1>1, <1>2, <1>3

(* A loop over the nodes keeps to the list. *)
LEMMA NextNodeType ==
  ASSUME TypeOK, NEW p \in ExecPC, NextNode(p)
  PROVE  exec' \in [pc : ExecPC, at : DOMAIN Order]
BY OrderFacts DEF TypeOK, NextNode

LEMMA NodeStepType ==
  ASSUME TypeOK, PollHasData, NEW n \in Node, NodeStep(n)
  PROVE  NodeTypeOK'
<1>1. ASSUME NEW p \in WorkerPC, Goto(n, p) PROVE wpc' \in [Node -> WorkerPC]
  BY <1>1 DEF TypeOK, NodeTypeOK, Goto
<1>2. /\ In(n) \in SUBSET Link /\ Out(n) \in SUBSET Link
      /\ \A e \in Link : e[1] \in Node /\ e[2] \in Node
      /\ AfterInvoke(n) \in WorkerPC
  BY FlowAssumption DEF In, Out, AfterInvoke, WorkerPC
<1>3. ASSUME NEW links, WakeTargets(links) PROVE wakeup' \in [Node -> BOOLEAN]
  BY <1>3 DEF WakeTargets, TypeOK, NodeTypeOK
<1>4. CASE Wakeup(n)
  BY <1>4, <1>1 DEF Wakeup, TypeOK, NodeTypeOK, WorkerPC
<1>5. CASE Gate(n)
  <2>1. wpc' \in [Node -> WorkerPC]
    BY <1>5, <1>1 DEF Gate, WorkerPC
  <2> QED BY <1>5, <2>1 DEF Gate, flowVars, TypeOK, NodeTypeOK
<1>6. CASE TakeInput(n)
  <2>1. wpc' \in [Node -> WorkerPC]
    BY <1>6, <1>1 DEF TakeInput, WorkerPC
  <2>2. PICK e \in Earliest(n) : /\ item' = [item EXCEPT ![n] = Head(queue[e])]
                                 /\ queue' = [queue EXCEPT ![e] = Tail(@)]
    BY <1>6 DEF TakeInput
  <2>3. e \in Link /\ queue[e] \in Seq(Nat) /\ queue[e] # <<>>
    BY <2>2 DEF Earliest, In, TypeOK, NodeTypeOK
  <2>4. Head(queue[e]) \in Nat /\ Tail(queue[e]) \in Seq(Nat)
    BY <2>3
  <2> QED BY <1>6, <2>1, <2>2, <2>4 DEF TakeInput, TypeOK, NodeTypeOK
<1>7. CASE NoInput(n) \/ PushDone(n) \/ HasPollEvents(n) \/ NoPoll(n)
  <2>1. wpc' \in [Node -> WorkerPC]
    BY <1>7, <1>1, <1>2 DEF NoInput, PushDone, HasPollEvents, NoPoll, WorkerPC
  <2> QED
    BY <1>7, <2>1
    DEF NoInput, PushDone, HasPollEvents, NoPoll, flowVars, TypeOK, NodeTypeOK
<1>8. CASE InvokeCallbacks(n)
  <2>1. wpc' \in [Node -> WorkerPC]
    BY <1>8, <1>1, <1>2 DEF InvokeCallbacks, WorkerPC
  <2>2. todo' \in [Node -> SUBSET Link]
    BY <1>8, <1>2 DEF InvokeCallbacks, TypeOK, NodeTypeOK
  <2> QED BY <1>8, <2>1, <2>2 DEF InvokeCallbacks, flowVars, TypeOK, NodeTypeOK
<1>9. CASE Push(n)
  <2>1. PICK e \in todo[n] : /\ queue' = [queue EXCEPT ![e] = Append(@, item[n])]
                             /\ WakeTargets({e})
                             /\ todo' = [todo EXCEPT ![n] = @ \ {e}]
    BY <1>9 DEF Push
  <2>2. e \in Link /\ queue[e] \in Seq(Nat) /\ item[n] \in Nat
    BY <2>1 DEF TypeOK, NodeTypeOK
  <2>3. Append(queue[e], item[n]) \in Seq(Nat)
    BY <2>2
  <2>4. queue' \in [Link -> Seq(Nat)]
    BY <2>1, <2>3 DEF TypeOK, NodeTypeOK
  <2>5. wakeup' \in [Node -> BOOLEAN]
    BY <2>1, <1>3
  <2>6. todo' \in [Node -> SUBSET Link]
    BY <2>1 DEF TypeOK, NodeTypeOK
  <2> QED BY <1>9, <2>4, <2>5, <2>6 DEF Push, TypeOK, NodeTypeOK
<1>10. CASE Poll(n)
  <2>1. wpc' \in [Node -> WorkerPC]
    BY <1>10, <1>1 DEF Poll, WorkerPC
  <2>2. left[n] \in Seq(Nat) /\ left[n] # <<>>
    BY <1>10 DEF Poll, At, PollHasData, TypeOK, NodeTypeOK
  <2>3. Head(left[n]) \in Nat /\ Tail(left[n]) \in Seq(Nat)
    BY <2>2
  <2> QED BY <1>10, <2>1, <2>3 DEF Poll, TypeOK, NodeTypeOK
<1>11. CASE PollNext(n)
  <2>1. wpc' \in [Node -> WorkerPC]
    BY <1>11, <1>1 DEF PollNext, WorkerPC
  <2>2. /\ noMore' = noMore \/ noMore' = [noMore EXCEPT ![n] = TRUE]
        /\ wakeup' = wakeup \/ WakeTargets(Out(n))
    BY <1>11 DEF PollNext
  <2>4. noMore' \in [Node -> BOOLEAN]
    BY <2>2 DEF TypeOK, NodeTypeOK
  <2>5. wakeup' \in [Node -> BOOLEAN]
    BY <1>3, <2>2 DEF TypeOK, NodeTypeOK
  <2>3. poll' \in [Node -> BOOLEAN]
    BY <1>11 DEF PollNext, TypeOK, NodeTypeOK
  <2> QED BY <1>11, <2>1, <2>3, <2>4, <2>5 DEF PollNext, TypeOK, NodeTypeOK
<1>12. CASE PollEnd(n) \/ Finish(n)
  <2>1. wpc' \in [Node -> WorkerPC]
    BY <1>12, <1>1 DEF PollEnd, Finish, WorkerPC
  <2>2. wakeup' \in [Node -> BOOLEAN] /\ noMore' \in [Node -> BOOLEAN]
    BY <1>12, <1>3 DEF PollEnd, Finish, TypeOK, NodeTypeOK
  <2> QED BY <1>12, <2>1, <2>2 DEF PollEnd, Finish, TypeOK, NodeTypeOK
<1>13. CASE FinishCheck(n) \/ FinishQueue(n) \/ FinishMore(n)
  <2>1. wpc' \in [Node -> WorkerPC]
    BY <1>13, <1>1 DEF FinishCheck, FinishQueue, FinishMore, WorkerPC
  <2>2. todo' \in [Node -> SUBSET Link]
    BY <1>13, <1>2 DEF FinishCheck, FinishQueue, FinishMore, TypeOK, NodeTypeOK
  <2> QED
    BY <1>13, <2>1, <2>2
    DEF FinishCheck, FinishQueue, FinishMore, flowVars, TypeOK, NodeTypeOK
<1> QED
  BY <1>4, <1>5, <1>6, <1>7, <1>8, <1>9, <1>10, <1>11, <1>12, <1>13 DEF NodeStep

LEMMA ControlType ==
  ASSUME TypeOK, Control
  PROVE  TypeOK'
<1>1. exec' \in [pc : ExecPC, at : DOMAIN Order]
  BY OrderFacts
  DEF Control, Call, IsRunning, Stop, WaitForFinish, Join, Start, TypeOK, ExecPC
<1>2. ctl' \in [pc : CtlPC, op : {"none", "start", "stop", "wait"}]
  BY ExecutorAssumption
  DEF Control, Call, IsRunning, Stop, WaitForFinish, Join, Start, CtlGoto,
      TypeOK, CtlPC
<1>3. starts' \in 0 .. MaxStarts /\ stops' \in 0 .. MaxStops
  BY ExecutorAssumption
  DEF Control, Call, IsRunning, Stop, WaitForFinish, Join, Start, TypeOK
<1>4. state' \in {"Idle", "Starting", "Running", "Stopping"}
  BY DEF Control, Call, IsRunning, Stop, WaitForFinish, Join, Start, TypeOK
<1>5. UNCHANGED <<nodeVars, activeNodes, realTime>>
  BY DEF Control, Call, IsRunning, Stop, WaitForFinish, Join, Start
<1> QED BY <1>1, <1>2, <1>3, <1>4, <1>5 DEF nodeVars, TypeOK, NodeTypeOK

LEMMA ExecuteType ==
  ASSUME TypeOK, Execute \/ WaitTimeout
  PROVE  TypeOK'
<1> USE OrderFacts
<1>1. ASSUME NEW p \in ExecPC, ExecGoto(p) \/ NextNode(p)
      PROVE  exec' \in [pc : ExecPC, at : DOMAIN Order]
  BY <1>1, NextNodeType DEF ExecGoto
<1>2. Cur \in Node
  BY DEF Cur, TypeOK
<1>3. ASSUME ClearQueues(Cur) PROVE queue' \in [Link -> Seq(Nat)]
  BY <1>3 DEF ClearQueues, TypeOK, NodeTypeOK
<1>4. CASE ClearNode \/ ClearAllNodeQueues
  <2>1. exec' \in [pc : ExecPC, at : DOMAIN Order]
    BY <1>4, <1>1 DEF ClearNode, ClearAllNodeQueues, ExecPC
  <2>2. queue' \in [Link -> Seq(Nat)] /\ poll' \in [Node -> BOOLEAN]
    BY <1>4, <1>3 DEF ClearNode, ClearAllNodeQueues, TypeOK, NodeTypeOK
  <2> QED
    BY <1>4, <2>1, <2>2
    DEF ClearNode, ClearAllNodeQueues, workerVars, TypeOK, NodeTypeOK
<1>5. CASE InitializeAllNodes
  <2>1. exec' \in [pc : ExecPC, at : DOMAIN Order]
    BY <1>5, <1>1 DEF InitializeAllNodes, ExecPC
  <2>2. wakeup' \in [Node -> BOOLEAN]
    BY <1>5 DEF InitializeAllNodes, TypeOK, NodeTypeOK
  <2> QED
    BY <1>5, <2>1, <2>2 DEF InitializeAllNodes, workerVars, TypeOK, NodeTypeOK
<1>6. CASE \/ InitializationFails \/ ResetCount \/ Wait \/ WaitTimeout
           \/ ClearCount \/ EndExecution
  <2>1. exec' \in [pc : ExecPC, at : DOMAIN Order]
    BY <1>6, <1>1
    DEF InitializationFails, ResetCount, Wait, WaitTimeout, ClearCount,
        EndExecution, ExecPC
  <2>2. /\ state' \in {"Idle", "Starting", "Running", "Stopping"}
        /\ activeNodes' \in 0 .. SizeLimit - 1
        /\ realTime' \in BOOLEAN
    BY <1>6, ExecutorAssumption
    DEF InitializationFails, ResetCount, Wait, WaitTimeout, ClearCount,
        EndExecution, TypeOK
  <2>3. UNCHANGED <<nodeVars, ctl, starts, stops>>
    BY <1>6
    DEF InitializationFails, ResetCount, Wait, WaitTimeout, ClearCount,
        EndExecution
  <2> QED BY <2>1, <2>2, <2>3 DEF nodeVars, TypeOK, NodeTypeOK
<1>7. CASE SetMode
  <2>1. exec' \in [pc : ExecPC, at : DOMAIN Order]
    BY <1>7, <1>1 DEF SetMode, TypeOK, ExecPC
  <2>2. mode' \in [Node -> {"REAL_TIME", "POST_PROCESSING"}]
    BY <1>7, <1>2 DEF SetMode, TypeOK, NodeTypeOK
  <2> QED BY <1>7, <2>1, <2>2 DEF SetMode, workerVars, TypeOK, NodeTypeOK
<1>8. CASE AddActive
  <2>1. exec' \in [pc : ExecPC, at : DOMAIN Order]
    BY <1>8 DEF AddActive, TypeOK, ExecPC
  <2>2. activeNodes' \in 0 .. SizeLimit - 1
    BY <1>8, ExecutorAssumption DEF AddActive, TypeOK
  <2> QED BY <1>8, <2>1, <2>2 DEF AddActive, nodeVars, TypeOK, NodeTypeOK
<1>9. CASE ResetNode
  <2>1. exec' \in [pc : ExecPC, at : DOMAIN Order]
    BY <1>9, <1>1 DEF ResetNode, TypeOK, ExecPC
  <2>2. left' \in [Node -> Seq(Nat)]
    BY <1>9, <1>2, FlowAssumption DEF ResetNode, TypeOK, NodeTypeOK
  <2>3. noMore' \in [Node -> BOOLEAN] /\ poll' \in [Node -> BOOLEAN]
    BY <1>9, <1>2 DEF ResetNode, TypeOK, NodeTypeOK
  <2> QED BY <1>9, <2>1, <2>2, <2>3 DEF ResetNode, workerVars, TypeOK, NodeTypeOK
<1>10. CASE Enable
  <2>1. exec' \in [pc : ExecPC, at : DOMAIN Order]
    BY <1>10, <1>1 DEF Enable, ExecPC
  <2>2. callbacks' \in [Node -> BOOLEAN]
    BY <1>10 DEF Enable, TypeOK, NodeTypeOK
  <2> QED BY <1>10, <2>1, <2>2 DEF Enable, workerVars, TypeOK, NodeTypeOK
<1>11. CASE Wake \/ DisableCallbacks \/ RestoreMode
  <2>1. exec' \in [pc : ExecPC, at : DOMAIN Order]
    BY <1>11, <1>1 DEF Wake, DisableCallbacks, RestoreMode, ExecPC
  <2>2. /\ wakeup' \in [Node -> BOOLEAN] /\ callbacks' \in [Node -> BOOLEAN]
        /\ noMore' \in [Node -> BOOLEAN]
    BY <1>11 DEF Wake, DisableCallbacks, RestoreMode, TypeOK, NodeTypeOK
  <2>3. mode' \in [Node -> {"REAL_TIME", "POST_PROCESSING"}]
    BY <1>11 DEF Wake, DisableCallbacks, RestoreMode, TypeOK, NodeTypeOK
  <2> QED
    BY <1>11, <2>1, <2>2, <2>3
    DEF Wake, DisableCallbacks, RestoreMode, workerVars, TypeOK, NodeTypeOK
<1> QED
  BY <1>4, <1>5, <1>6, <1>7, <1>8, <1>9, <1>10, <1>11 DEF Execute

LEMMA WorkerType ==
  ASSUME TypeOK, PollHasData, NEW n \in Node, Worker(n)
  PROVE  TypeOK'
<1>1. CASE NodeStep(n) /\ UNCHANGED execVars
  BY <1>1, NodeStepType DEF execVars, TypeOK
<1>2. CASE DeregisterNode(n)
  <2>1. wpc' \in [Node -> WorkerPC]
    BY <1>2
    DEF DeregisterNode, Decrement, Compare, SetStopping, Goto, AfterDeregister,
        TypeOK, NodeTypeOK, WorkerPC
  <2>2. activeNodes' \in 0 .. SizeLimit - 1
    BY <1>2, ExecutorAssumption
    DEF DeregisterNode, Decrement, Compare, SetStopping, execVars, TypeOK
  <2>3. state' \in {"Idle", "Starting", "Running", "Stopping"}
    BY <1>2
    DEF DeregisterNode, Decrement, Compare, SetStopping, execVars, TypeOK
  <2>4. UNCHANGED <<flowVars, todo, item, exec, realTime, ctl, starts, stops>>
    BY <1>2 DEF DeregisterNode, Decrement, Compare, SetStopping, execVars
  <2> QED BY <2>1, <2>2, <2>3, <2>4 DEF flowVars, TypeOK, NodeTypeOK
<1> QED BY <1>1, <1>2 DEF Worker

LEMMA PollHasDataNext ==
  ASSUME TypeOK, PollHasData, [Next]_vars
  PROVE  PollHasData'
<1>1. ASSUME UNCHANGED <<left, poll, wpc>> PROVE PollHasData'
  BY <1>1 DEF PollHasData
<1>2. CASE UNCHANGED vars \/ Control
  BY <1>1, <1>2
  DEF vars, Control, Call, IsRunning, Stop, WaitForFinish, Join, Start, nodeVars
<1>3. CASE Execute \/ WaitTimeout
  <2>1. Cur \in Node
    BY OrderFacts DEF Cur, TypeOK
  <2>2. CASE ClearNode
    BY <2>1, <2>2 DEF ClearNode, workerVars, PollHasData, TypeOK, NodeTypeOK
  <2>3. CASE ResetNode
    <3>1. Data[Cur] # <<>> => In(Cur) = {}
      BY <2>1, FlowAssumption DEF In
    <3> QED
      BY <2>1, <2>3, <3>1
      DEF ResetNode, workerVars, PollHasData, TypeOK, NodeTypeOK
  <2>4. CASE ~ClearNode /\ ~ResetNode
    <3>1. UNCHANGED <<left, poll, wpc>>
      BY <1>3, <2>4
      DEF Execute, WaitTimeout, InitializeAllNodes, InitializationFails, ResetCount,
          SetMode, AddActive, Enable, Wake, Wait, DisableCallbacks,
          ClearAllNodeQueues, RestoreMode, ClearCount, EndExecution, nodeVars,
          workerVars
    <3> QED BY <3>1, <1>1
  <2> QED BY <2>2, <2>3, <2>4
<1>4. ASSUME NEW n \in Node, Worker(n) PROVE PollHasData'
  <2>1. ASSUME NEW p, Goto(n, p), UNCHANGED <<left, poll>>,
               wpc[n] \in {"invoke", "push", "pollNext"} /\ poll[n]
                 => p \in {"invoke", "push", "pollNext"}
        PROVE  PollHasData'
    BY <2>1 DEF Goto, PollHasData, TypeOK, NodeTypeOK
  <2>2. CASE Poll(n)
    <3>1. left[n] \in Seq(Nat) /\ left[n] # <<>> /\ In(n) = {}
      BY <2>2 DEF Poll, At, PollHasData, TypeOK, NodeTypeOK
    <3> QED
      BY <2>2, <3>1 DEF Poll, Goto, PollHasData, TypeOK, NodeTypeOK
  <2>3. CASE PollNext(n)
    BY <2>3 DEF PollNext, Goto, PollHasData, TypeOK, NodeTypeOK
  <2>4. CASE InvokeCallbacks(n) \/ PushDone(n)
    <3>1. \E p \in {"push", AfterInvoke(n)} : Goto(n, p)
      BY <2>4 DEF InvokeCallbacks, PushDone
    <3>2. poll[n] => AfterInvoke(n) = "pollNext"
      BY DEF PollHasData, AfterInvoke
    <3>3. UNCHANGED <<left, poll>>
      BY <2>4 DEF InvokeCallbacks, PushDone, flowVars
    <3> QED BY <3>1, <3>2, <3>3, <2>1
  <2>5. CASE Push(n)
    BY <2>5, <1>1 DEF Push
  <2>6. CASE \/ Wakeup(n) \/ Gate(n) \/ TakeInput(n) \/ NoInput(n)
             \/ HasPollEvents(n) \/ NoPoll(n) \/ PollEnd(n) \/ FinishCheck(n)
             \/ FinishQueue(n) \/ FinishMore(n) \/ Finish(n)
             \/ DeregisterNode(n)
    <3>1. wpc[n] \notin {"invoke", "push", "pollNext"}
      BY <2>6
      DEF At, Wakeup, Gate, TakeInput, NoInput, HasPollEvents, NoPoll, PollEnd,
          FinishCheck, FinishQueue, FinishMore, Finish, DeregisterNode, Decrement,
          Compare, SetStopping
    <3>2. UNCHANGED <<left, poll>>
      BY <2>6
      DEF Wakeup, Gate, TakeInput, NoInput, HasPollEvents, NoPoll, PollEnd,
          FinishCheck, FinishQueue, FinishMore, Finish, DeregisterNode, Decrement,
          Compare, SetStopping, flowVars
    <3>3. \E p : Goto(n, p)
      BY <2>6
      DEF Wakeup, Gate, TakeInput, NoInput, HasPollEvents, NoPoll, PollEnd,
          FinishCheck, FinishQueue, FinishMore, Finish, DeregisterNode, Decrement,
          Compare, SetStopping
    <3> QED BY <3>1, <3>2, <3>3, <2>1
  <2> QED
    BY <1>4, <2>2, <2>3, <2>4, <2>5, <2>6 DEF Worker, NodeStep
<1> QED BY <1>2, <1>3, <1>4 DEF Next

TypeInv == TypeOK /\ PollHasData

LEMMA TypeInvariance == Spec => []TypeInv
<1>1. Init => TypeInv
  <2> SUFFICES ASSUME Init PROVE TypeInv
    OBVIOUS
  <2>1. NodeTypeOK
    BY DEF Init, NodeInit, NodeTypeOK, WorkerPC
  <2>2. 0 \in 0 .. SizeLimit - 1
    BY OrderFacts, ExecutorAssumption
  <2>3. /\ exec \in [pc : ExecPC, at : DOMAIN Order]
        /\ ctl \in [pc : CtlPC, op : {"none", "start", "stop", "wait"}]
    BY OrderFacts DEF Init, ExecPC, CtlPC
  <2>4. starts \in 0 .. MaxStarts /\ stops \in 0 .. MaxStops
    BY ExecutorAssumption DEF Init
  <2>5. TypeOK
    BY <2>1, <2>2, <2>3, <2>4 DEF Init, TypeOK
  <2>6. PollHasData
    BY DEF Init, NodeInit, PollHasData
  <2> QED BY <2>5, <2>6 DEF TypeInv
<1>2. TypeInv /\ [Next]_vars => TypeInv'
  <2> SUFFICES ASSUME TypeInv, [Next]_vars PROVE TypeOK'
    BY PollHasDataNext DEF TypeInv
  <2>1. CASE UNCHANGED vars
    BY <2>1 DEF vars, nodeVars, TypeInv, TypeOK, NodeTypeOK
  <2> QED
    BY <2>1, ControlType, ExecuteType, WorkerType DEF TypeInv, Next
<1> QED BY <1>1, <1>2, PTL DEF Spec

(* Every variable of the executor and of the workers keeps its type: the count  *)
(* stays a size_t and a worker never takes an item that is not there.          *)
THEOREM FlowTypeCorrect == Spec => []TypeOK
BY TypeInvariance, PTL DEF TypeInv

-------------------------------------------------------------------------------
(* A stop is not lost, and between runs everything is quiet.                   *)

LEMMA StartsAloneNext ==
  ASSUME TypeOK, StartsAlone, [Next]_vars
  PROVE  StartsAlone'
<1>1. ASSUME UNCHANGED <<ctl, exec>> PROVE StartsAlone'
  BY <1>1 DEF StartsAlone, CtlAt, ExecAt
<1>2. CASE UNCHANGED vars
  BY <1>1, <1>2 DEF vars
<1>3. CASE Control
  BY <1>3
  DEF Control, Call, IsRunning, Stop, WaitForFinish, Join, Start, CtlGoto,
      StartsAlone, CtlAt, ExecAt, TypeOK
<1>4. CASE Execute \/ WaitTimeout
  BY <1>4
  DEF Execute, ClearNode, InitializeAllNodes, InitializationFails, ResetCount,
      SetMode, AddActive, ResetNode, Enable, Wake, Wait, WaitTimeout,
      DisableCallbacks, ClearAllNodeQueues, RestoreMode, ClearCount,
      EndExecution, StartsAlone, CtlAt, ExecAt
<1>5. ASSUME NEW n \in Node, Worker(n) PROVE StartsAlone'
  BY <1>1, <1>5
  DEF Worker, DeregisterNode, Decrement, Compare, SetStopping, execVars
<1> QED BY <1>2, <1>3, <1>4, <1>5 DEF Next

(* Once a run is stopping nobody takes that back before it has ended: neither   *)
(* the executor that is still starting, nor a second start, nor a worker.      *)
THEOREM StopKept == Spec => StopHolds
<1>1. Init => StartsAlone
  BY DEF Init, StartsAlone, CtlAt
<1>2. TypeInv /\ StartsAlone /\ [Next]_vars => StartsAlone'
  BY StartsAloneNext DEF TypeInv
<1>3. StartsAlone /\ [Next]_vars
        => [Executing /\ state = "Stopping" => state' \in {"Stopping", "Idle"}]_vars
  <2> SUFFICES ASSUME StartsAlone, Next, Executing, state = "Stopping"
               PROVE  state' \in {"Stopping", "Idle"}
    OBVIOUS
  <2>1. CASE Control
    BY <2>1
    DEF Control, Call, IsRunning, Stop, WaitForFinish, Join, Start, StartsAlone,
        Executing, ExecAt
  <2>2. CASE Execute \/ WaitTimeout
    BY <2>2
    DEF Execute, ClearNode, InitializeAllNodes, InitializationFails, ResetCount,
        SetMode, AddActive, ResetNode, Enable, Wake, Wait, WaitTimeout,
        DisableCallbacks, ClearAllNodeQueues, RestoreMode, ClearCount,
        EndExecution
  <2>3. ASSUME NEW n \in Node, Worker(n) PROVE state' = "Stopping"
    BY <2>3
    DEF Worker, DeregisterNode, Decrement, Compare, SetStopping, execVars
  <2> QED BY <2>1, <2>2, <2>3 DEF Next
<1> QED BY <1>1, <1>2, <1>3, TypeInvariance, PTL DEF Spec, StopHolds

(* Workers switch callbacks off, put nodes into real-time mode and announce the *)
(* end of data, and never the other way round.                                 *)
LEMMA WorkerQuiets ==
  ASSUME TypeOK, NEW n \in Node, Worker(n), NEW m \in Node
  PROVE  /\ callbacks'[m] => callbacks[m]
         /\ Quiet(m) => Quiet(m)'
         /\ exec' = exec
<1>. SUFFICES (callbacks'[m] => callbacks[m]) /\ (Quiet(m) => Quiet(m)')
  BY DEF Worker, DeregisterNode, Decrement, Compare, SetStopping, execVars
<1>1. CASE \/ Wakeup(n) \/ Gate(n) \/ TakeInput(n) \/ NoInput(n) \/ InvokeCallbacks(n)
           \/ Push(n) \/ PushDone(n) \/ HasPollEvents(n) \/ Poll(n) \/ NoPoll(n)
           \/ FinishCheck(n) \/ FinishQueue(n) \/ FinishMore(n) \/ DeregisterNode(n)
  <2>1. UNCHANGED <<callbacks, mode, noMore>>
    BY <1>1
    DEF Wakeup, Gate, TakeInput, NoInput, InvokeCallbacks, Push, PushDone,
        HasPollEvents, Poll, NoPoll, FinishCheck, FinishQueue, FinishMore,
        DeregisterNode, Decrement, Compare, SetStopping, flowVars
  <2> QED BY <2>1 DEF Quiet
<1>2. CASE PollNext(n)
  BY <1>2 DEF PollNext, Quiet, TypeOK, NodeTypeOK
<1>3. CASE PollEnd(n) \/ Finish(n)
  <2>1. /\ callbacks' = [callbacks EXCEPT ![n] = FALSE]
        /\ mode' = [mode EXCEPT ![n] = "REAL_TIME"]
        /\ noMore' = noMore \/ noMore' = [noMore EXCEPT ![n] = TRUE]
    BY <1>3 DEF PollEnd, Finish
  <2>2. callbacks'[m] => callbacks[m]
    BY <2>1 DEF TypeOK, NodeTypeOK
  <2>3. mode[m] = "REAL_TIME" => mode'[m] = "REAL_TIME"
    BY <2>1 DEF TypeOK, NodeTypeOK
  <2>4. noMore[m] => noMore'[m]
    BY <2>1 DEF TypeOK, NodeTypeOK
  <2> QED BY <2>2, <2>3, <2>4 DEF Quiet
<1> QED BY <1>1, <1>2, <1>3 DEF Worker, NodeStep

LEMMA QuietSoFarNext ==
  ASSUME TypeOK, StartsAlone, QuietSoFar, [Next]_vars
  PROVE  QuietSoFar'
<1> USE OrderFacts
<1>1. ASSUME UNCHANGED <<callbacks, mode, noMore, exec>> PROVE QuietSoFar'
  BY <1>1 DEF QuietSoFar, Quiet, ExecAt
<1>2. CASE UNCHANGED vars
  BY <1>1, <1>2 DEF vars, nodeVars
<1>3. CASE Control
  <2>1. UNCHANGED <<callbacks, mode, noMore>>
    BY <1>3
    DEF Control, Call, IsRunning, Stop, WaitForFinish, Join, Start, nodeVars
  <2>2. CASE exec' = exec
    BY <2>1, <2>2, <1>1
  <2>3. CASE Join \/ Start
    <3>1. /\ exec.pc \in {"none", "ended"}
          /\ exec'.pc \in {"none", "clear"}
      BY <2>3 DEF Join, Start, StartsAlone, ExecAt, CtlAt, TypeOK
    <3> QED BY <2>1, <3>1 DEF QuietSoFar, Quiet, ExecAt
  <2> QED
    BY <1>3, <2>2, <2>3 DEF Control, Call, IsRunning, Stop, WaitForFinish
<1>4. CASE Execute \/ WaitTimeout
  <2>1. Cur \in Node /\ exec.at \in DOMAIN Order
    BY DEF Cur, TypeOK
  <2>2. CASE ClearNode \/ InitializeAllNodes \/ InitializationFails \/ ResetCount
    <3>1. UNCHANGED <<callbacks, mode, noMore>>
      BY <2>2
      DEF ClearNode, InitializeAllNodes, InitializationFails, ResetCount, nodeVars
    <3>2. /\ exec.pc \in {"clear", "initialize", "count"}
          /\ exec'.pc \in {"clear", "initialize", "count", "mode", "ended"}
      BY <2>2
      DEF ClearNode, InitializeAllNodes, InitializationFails, ResetCount, ExecAt,
          ExecGoto, NextNode, TypeOK
    <3> QED BY <3>1, <3>2 DEF QuietSoFar, Quiet, ExecAt
  <2>3. CASE SetMode \/ AddActive \/ ResetNode \/ Enable \/ Wake \/ Wait \/ WaitTimeout
    <3>1. exec.pc \in {"mode", "add", "reset", "enable", "wake", "wait"}
      BY <2>3
      DEF SetMode, AddActive, ResetNode, Enable, Wake, Wait, WaitTimeout, ExecAt
    <3>2. /\ exec'.pc \in {"mode", "add", "reset", "enable", "wake", "wait", "disable"}
          /\ exec'.pc = "disable" => exec'.at = 1
      BY <2>3
      DEF SetMode, AddActive, ResetNode, Enable, Wake, Wait, WaitTimeout, ExecAt,
          ExecGoto, NextNode, TypeOK
    <3>3. \A n \in Node : callbacks'[n] => exec'.pc \in {"wake", "wait", "disable"}
      <4>1. CASE Enable
        BY <4>1 DEF Enable, ExecGoto
      <4>2. CASE SetMode \/ AddActive \/ ResetNode \/ Wake \/ Wait \/ WaitTimeout
        <5>1. /\ UNCHANGED callbacks
              /\ exec.pc \in {"wake", "wait"}
                   => exec'.pc \in {"wake", "wait", "disable"}
          BY <4>2
          DEF SetMode, AddActive, ResetNode, Wake, Wait, WaitTimeout, nodeVars,
              ExecAt, ExecGoto, NextNode, TypeOK
        <5> QED BY <3>1, <5>1 DEF QuietSoFar
      <4> QED BY <2>3, <4>1, <4>2
    <3> QED BY <3>2, <3>3 DEF QuietSoFar, ExecAt
  <2>4. CASE DisableCallbacks
    <3>1. /\ ExecAt("disable") /\ UNCHANGED <<mode, noMore>>
          /\ callbacks' = [callbacks EXCEPT ![Cur] = FALSE]
      BY <2>4 DEF DisableCallbacks
    <3>2. \A i \in 1 .. exec.at : ~callbacks'[Order[i]]
      BY <2>1, <3>1 DEF QuietSoFar, Cur, TypeOK, NodeTypeOK
    <3>3. CASE exec.at = Len(Order)
      <4>1. exec' = [pc |-> "clearAll", at |-> 1]
        BY <2>4, <3>3 DEF DisableCallbacks, NextNode
      <4>2. \A n \in Node : ~callbacks'[n]
        BY <3>2, <3>3, ExecutorAssumption
      <4> QED BY <4>1, <4>2 DEF QuietSoFar, ExecAt
    <3>4. CASE exec.at # Len(Order)
      <4>1. exec' = [exec EXCEPT !.at = @ + 1]
        BY <2>4, <3>4 DEF DisableCallbacks, NextNode
      <4>2. exec'.pc = "disable" /\ exec'.at = exec.at + 1
        BY <4>1, <3>1 DEF ExecAt, TypeOK
      <4>3. \A n \in Node : callbacks'[n] => exec'.pc \in {"wake", "wait", "disable"}
        BY <4>2
      <4> QED BY <2>1, <3>2, <4>2, <4>3 DEF QuietSoFar, ExecAt
    <3> QED BY <3>3, <3>4
  <2>5. CASE ClearAllNodeQueues
    <3>1. /\ ExecAt("clearAll") /\ UNCHANGED <<callbacks, mode, noMore>>
          /\ \/ exec'.pc = "clearAll"
             \/ exec' = [pc |-> "restore", at |-> 1]
      BY <2>5 DEF ClearAllNodeQueues, NextNode, ExecAt, TypeOK
    <3> QED BY <3>1 DEF QuietSoFar, Quiet, ExecAt
  <2>6. CASE RestoreMode
    <3>1. /\ ExecAt("restore") /\ UNCHANGED callbacks
          /\ mode' = [mode EXCEPT ![Cur] = "REAL_TIME"]
          /\ noMore' = [noMore EXCEPT ![Cur] = TRUE]
      BY <2>6 DEF RestoreMode
    <3>2. \A n \in Node : ~callbacks'[n]
      BY <3>1 DEF QuietSoFar, ExecAt
    <3>3. \A i \in 1 .. exec.at : Quiet(Order[i])'
      BY <2>1, <3>1 DEF QuietSoFar, Quiet, Cur, TypeOK, NodeTypeOK
    <3>4. CASE exec.at = Len(Order)
      <4>1. exec' = [pc |-> "end", at |-> 1]
        BY <2>6, <3>4 DEF RestoreMode, NextNode
      <4>2. \A n \in Node : Quiet(n)'
        BY <3>3, <3>4, ExecutorAssumption
      <4> QED BY <3>2, <4>1, <4>2 DEF QuietSoFar, ExecAt
    <3>5. CASE exec.at # Len(Order)
      <4>1. exec' = [exec EXCEPT !.at = @ + 1]
        BY <2>6, <3>5 DEF RestoreMode, NextNode
      <4>2. exec'.pc = "restore" /\ exec'.at = exec.at + 1
        BY <4>1, <3>1 DEF ExecAt, TypeOK
      <4> QED BY <2>1, <3>2, <3>3, <4>2 DEF QuietSoFar, ExecAt
    <3> QED BY <3>4, <3>5
  <2>7. CASE ClearCount \/ EndExecution
    <3>1. /\ UNCHANGED <<callbacks, mode, noMore>>
          /\ exec.pc \in {"end", "idle"} /\ exec'.pc \in {"idle", "ended"}
      BY <2>7 DEF ClearCount, EndExecution, ExecGoto, ExecAt, nodeVars
    <3> QED BY <3>1 DEF QuietSoFar, Quiet, ExecAt
  <2> QED
    BY <1>4, <2>2, <2>3, <2>4, <2>5, <2>6, <2>7 DEF Execute
<1>5. ASSUME NEW n \in Node, Worker(n) PROVE QuietSoFar'
  <2>1. \A m \in Node : /\ callbacks'[m] => callbacks[m]
                        /\ Quiet(m) => Quiet(m)'
    BY <1>5, WorkerQuiets
  <2>2. exec' = exec
    BY <1>5, WorkerQuiets
  <2>3. \A i \in 1 .. exec.at - 1 : Order[i] \in Node
    BY DEF TypeOK
  <2> QED BY <2>1, <2>2, <2>3 DEF QuietSoFar, ExecAt
<1> QED BY <1>2, <1>3, <1>4, <1>5 DEF Next

LEMMA QuietInvariance == Spec => [](StartsAlone /\ QuietSoFar)
<1>1. Init => StartsAlone /\ QuietSoFar
  BY DEF Init, NodeInit, StartsAlone, QuietSoFar, Quiet, CtlAt, ExecAt
<1>2. TypeInv /\ StartsAlone /\ QuietSoFar /\ [Next]_vars
        => StartsAlone' /\ QuietSoFar'
  BY StartsAloneNext, QuietSoFarNext DEF TypeInv
<1> QED BY <1>1, <1>2, TypeInvariance, PTL DEF Spec

(* Callbacks are on only while a run goes on, and between runs every node is in *)
(* real-time mode with its pins closed, wherever a stop, a timeout or the last  *)
(* node's deregistration falls and however often workers wake by themselves.   *)
THEOREM QuietBetweenRuns == Spec => []QuietOutsideRun
<1>1. StartsAlone /\ QuietSoFar => QuietOutsideRun
  BY DEF QuietSoFar, Quiet, QuietOutsideRun, Executing
<1> QED BY <1>1, QuietInvariance, PTL
===============================================================================
