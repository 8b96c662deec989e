---------------------------- MODULE FlowRunProofs ------------------------------
(* Proofs about one run of FlowExecutor in post-processing, for any flow and    *)
(* any stops, in which workers pass when they are woken and not because their   *)
(* wait timed out: the executor's count is right, and the end of data is final. *)
(* If nobody stops it, items are taken in the order of time and none is left.   *)
EXTENDS FlowExecutorProofs

(* What an initialization may leave woken has links from other nodes, and      *)
(* stands behind those in the list of nodes.                                   *)
WokenBehind ==
  \A n \in Woken :
    /\ In(n) # {}
    /\ \A e \in In(n) : \A i, j \in DOMAIN Order :
         Order[i] = e[1] /\ Order[j] = n => i < j

OneRun == ~Timeouts /\ Modes = {FALSE} /\ MaxStarts = 1 /\ WokenBehind

-------------------------------------------------------------------------------
(* The invariants that the proofs rest on.                                     *)

(* The run is still to come. *)
ToCome == starts = 1 \/ (ctl.op = "start" /\ ~CtlAt("idle"))

Preparing == exec.pc \in {"clear", "initialize", "count", "mode", "add", "reset",
                          "enable"}

Flowing == exec.pc \in {"wake", "wait", "disable", "clearAll"}

Asleep == \A n \in Node : At(n, "sleep") /\ ~wakeup[n]

(* Where a worker is that finds nothing to do. *)
PassPC == {"sleep", "gate", "input", "poll", "finish", "finishQueue", "finishMore"}

IdlePass(n) ==
  /\ wpc[n] \in PassPC
  /\ wpc[n] \in {"finishQueue", "finishMore"}
       => mode[n] = "POST_PROCESSING" /\ todo[n] = In(n)
  /\ n \notin Woken => At(n, "sleep") /\ ~wakeup[n]

(* A node that was woken is not put into post-processing before all that it    *)
(* takes data from may send.                                                   *)
ReadyBehind ==
  \A n \in Woken : mode[n] = "POST_PROCESSING" => \A e \in In(n) : ~noMore[e[1]]

(* Before the workers are woken no data moves: those that the initialization   *)
(* has woken pass without anything to do.                                      *)
RestBefore ==
  /\ realTime = FALSE
  /\ CtlAt("start") => ctl.op = "start"
  /\ ctl.op = "start" => starts = 0
  /\ ToCome => ExecAt("none")
  /\ ToCome \/ exec.pc \in {"clear", "initialize"} => Asleep
  /\ ToCome \/ Preparing => \A e \in Link : queue[e] = <<>>
  /\ Preparing => ReadyBehind /\ \A n \in Node : IdlePass(n)

(* What the preparing loop has done so far. *)
PreparedSoFar ==
  /\ exec.pc \in {"mode", "add", "reset"} =>
       /\ \A i \in DOMAIN Order :
            mode[Order[i]] = IF i < exec.at \/ (i = exec.at /\ ~ExecAt("mode"))
                             THEN "POST_PROCESSING" ELSE "REAL_TIME"
       /\ \A i \in 1 .. exec.at - 1 : Out(Order[i]) # {} => ~noMore[Order[i]]
  /\ ExecAt("enable") /\ state = "Starting" =>
       \A n \in Node : /\ mode[n] = "POST_PROCESSING"
                       /\ Out(n) # {} => ~noMore[n]

(* While the run goes on, the mode of a node tells whether it has finished. *)
ModeTellsOf(n) ==
  /\ callbacks[n] => mode[n] = "POST_PROCESSING"
  /\ wpc[n] \in {"pollNext", "pollEnd", "finishQueue", "finishMore"}
       => mode[n] = "POST_PROCESSING"
  /\ wpc[n] \in {"invoke", "push"} /\ In(n) = {} => mode[n] = "POST_PROCESSING"
  /\ At(n, "pollLoop") /\ ~poll[n] => mode[n] = "POST_PROCESSING"
  /\ At(n, "deregister") => mode[n] = "REAL_TIME"

ModeTells == Flowing => \A n \in Node : ModeTellsOf(n)

Counted == {n \in Node : mode[n] = "POST_PROCESSING"}
Leaving == {n \in Node : At(n, "deregister")}

Counting == exec.pc \in {"mode", "add", "reset", "enable"} \/ Flowing

CountExact ==
  Counting => activeNodes + (IF ExecAt("add") THEN 1 ELSE 0)
                = Cardinality(Counted) + Cardinality(Leaving)

(* A node that may still send has not announced the end of its data. *)
SenderOpen(n) ==
  /\ callbacks[n] /\ Out(n) # {} /\ (In(n) # {} \/ poll[n]) => ~noMore[n]
  /\ At(n, "pollNext") \/ (wpc[n] \in {"invoke", "push"} /\ In(n) = {}) => poll[n]
  /\ At(n, "push") => /\ todo[n] \subseteq Out(n)
                      /\ Out(n) # {} => ~noMore[n]

SendersOpen == exec.pc \in {"wake", "wait"} => \A n \in Node : SenderOpen(n)

RunInv == RestBefore /\ PreparedSoFar /\ ModeTells /\ CountExact /\ SendersOpen

-------------------------------------------------------------------------------
(* Before the run.                                                             *)

(* A worker that passes before the run only moves on to the end of its pass.   *)
LEMMA WorkerBefore ==
  ASSUME OneRun, TypeOK, PollHasData, QuietSoFar, RestBefore, ToCome \/ Preparing,
         NEW n \in Node, Worker(n)
  PROVE  /\ Preparing /\ exec.pc \notin {"clear", "initialize"} /\ ~ToCome
         /\ UNCHANGED <<queue, noMore, mode, poll, left, item, state, activeNodes>>
         /\ IdlePass(n) /\ IdlePass(n)'
         /\ \A m \in Node : wakeup'[m] => wakeup[m]
<1> USE DEF At
<1>1. ~(ToCome \/ exec.pc \in {"clear", "initialize"})
  BY DEF RestBefore, Asleep, Worker, NodeStep, DeregisterNode, Wakeup, Gate,
         TakeInput, NoInput, InvokeCallbacks, Push, PushDone, HasPollEvents, Poll,
         NoPoll, PollNext, PollEnd, FinishCheck, FinishQueue, FinishMore, Finish,
         Decrement, Compare, SetStopping, OneRun
<1>2. /\ Preparing /\ IdlePass(n) /\ ReadyBehind
      /\ \A e \in Link : queue[e] = <<>>
  BY <1>1 DEF RestBefore
<1>3. n \in Woken
  BY <1>2
  DEF OneRun, IdlePass, Worker, NodeStep, DeregisterNode, Wakeup, Gate, TakeInput,
      NoInput, InvokeCallbacks, Push, PushDone, HasPollEvents, Poll, NoPoll,
      PollNext, PollEnd, FinishCheck, FinishQueue, FinishMore, Finish, Decrement,
      Compare, SetStopping
<1>4. In(n) # {} /\ ~poll[n] /\ In(n) \subseteq Link
  BY <1>3 DEF OneRun, WokenBehind, PollHasData, In
<1>5. /\ ~TakeInput(n) /\ ~InvokeCallbacks(n) /\ ~Push(n) /\ ~PushDone(n)
      /\ ~Poll(n) /\ ~NoPoll(n) /\ ~PollNext(n) /\ ~PollEnd(n)
      /\ ~DeregisterNode(n)
  <2>1. ~MayTake(n)
    BY <1>2, <1>4 DEF MayTake
  <2> QED
    BY <1>2, <2>1
    DEF IdlePass, PassPC, TakeInput, InvokeCallbacks, Push, PushDone, Poll, NoPoll,
        PollNext, PollEnd, DeregisterNode, Decrement, Compare, SetStopping
<1>6. ~Finish(n)
  BY <1>2, <1>4 DEF Finish, IdlePass
<1>7. /\ \/ Wakeup(n) \/ Gate(n) \/ NoInput(n) \/ HasPollEvents(n)
         \/ FinishCheck(n) \/ FinishQueue(n) \/ FinishMore(n)
      /\ UNCHANGED execVars
  BY <1>5, <1>6 DEF Worker, NodeStep
<1>8. /\ UNCHANGED <<queue, noMore, mode, poll, left, item, state, activeNodes>>
      /\ \A m \in Node : wakeup'[m] => wakeup[m]
  BY <1>7
  DEF Wakeup, Gate, NoInput, HasPollEvents, FinishCheck, FinishQueue, FinishMore,
      flowVars, execVars, TypeOK, NodeTypeOK
<1>9. IdlePass(n)'
  <2>1. CASE Wakeup(n) \/ Gate(n) \/ NoInput(n) \/ HasPollEvents(n)
    <3>1. wpc'[n] \in {"gate", "input", "poll", "finish"}
      BY <1>4, <2>1
      DEF Wakeup, Gate, NoInput, HasPollEvents, Goto, TypeOK, NodeTypeOK
    <3> QED BY <1>3, <3>1 DEF IdlePass, PassPC
  <2>2. CASE FinishCheck(n)
    <3>1. \/ wpc'[n] = "sleep"
          \/ /\ wpc'[n] = "finishQueue" /\ todo'[n] = In(n)
             /\ mode'[n] = "POST_PROCESSING"
      BY <2>2 DEF FinishCheck, Goto, flowVars, TypeOK, NodeTypeOK
    <3> QED BY <1>3, <3>1 DEF IdlePass, PassPC
  <2>3. CASE FinishQueue(n)
    <3>1. /\ wpc[n] = "finishQueue" /\ UNCHANGED <<mode, todo>>
          /\ wpc'[n] \in {"sleep", "finishMore"}
      BY <2>3 DEF FinishQueue, Goto, flowVars, TypeOK, NodeTypeOK
    <3> QED BY <1>2, <1>3, <3>1 DEF IdlePass, PassPC
  <2>4. CASE FinishMore(n)
    <3>1. wpc[n] = "finishMore" /\ todo[n] = In(n)
      BY <1>2, <2>4 DEF FinishMore, IdlePass
    <3>2. First(todo[n]) \in In(n)
      BY <1>4, <3>1 DEF First
    <3>3. ~noMore[First(todo[n])[1]]
      BY <1>2, <1>3, <3>1, <3>2 DEF IdlePass, ReadyBehind
    <3>4. wpc'[n] = "sleep"
      BY <2>4, <3>3 DEF FinishMore, Goto, TypeOK, NodeTypeOK
    <3> QED BY <1>3, <3>4 DEF IdlePass, PassPC
  <2> QED BY <1>7, <2>1, <2>2, <2>3, <2>4
<1> QED BY <1>1, <1>2, <1>8, <1>9

(* What a worker leaves alone. *)
LEMMA WorkerLeaves ==
  ASSUME NEW n \in Node, Worker(n)
  PROVE  UNCHANGED <<exec, realTime, ctl, starts, stops>>
BY DEF Worker, DeregisterNode, Decrement, Compare, SetStopping, execVars

LEMMA ControlLeaves ==
  ASSUME Control
  PROVE  /\ UNCHANGED <<nodeVars, activeNodes, realTime>>
         /\ state' = "Starting" => state = "Starting" \/ exec'.pc = "clear"
BY DEF Control, Call, IsRunning, Stop, WaitForFinish, Join, Start

(* The control thread only touches the executor when it is not at work. *)
LEMMA ControlOutside ==
  ASSUME TypeOK, StartsAlone, Control
  PROVE  \/ exec' = exec
         \/ exec.pc \in {"none", "ended"} /\ exec'.pc \in {"none", "clear"}
BY DEF Control, Call, IsRunning, Stop, WaitForFinish, Join, Start, StartsAlone,
       CtlAt, ExecAt, TypeOK

(* A worker only touches its own node. *)
LEMMA WorkerOwn ==
  ASSUME TypeOK, NEW n \in Node, Worker(n), NEW m \in Node, m # n
  PROVE  /\ mode'[m] = mode[m] /\ callbacks'[m] = callbacks[m]
         /\ wpc'[m] = wpc[m] /\ poll'[m] = poll[m]
         /\ noMore'[m] = noMore[m] /\ todo'[m] = todo[m]
<1>1. CASE DeregisterNode(n)
  BY <1>1
  DEF DeregisterNode, Decrement, Compare, SetStopping, Goto, flowVars, TypeOK,
      NodeTypeOK
<1>2. CASE \/ Wakeup(n) \/ Gate(n) \/ TakeInput(n) \/ NoInput(n) \/ PushDone(n)
           \/ HasPollEvents(n) \/ Poll(n) \/ NoPoll(n)
  BY <1>2
  DEF Wakeup, Gate, TakeInput, NoInput, PushDone, HasPollEvents, Poll, NoPoll, Goto,
      flowVars, TypeOK, NodeTypeOK
<1>3. CASE InvokeCallbacks(n) \/ FinishCheck(n) \/ FinishQueue(n) \/ FinishMore(n)
  <2>1. todo'[m] = todo[m] /\ wpc'[m] = wpc[m]
    BY <1>3
    DEF InvokeCallbacks, FinishCheck, FinishQueue, FinishMore, Goto, TypeOK,
        NodeTypeOK
  <2> QED
    BY <1>3, <2>1
    DEF InvokeCallbacks, FinishCheck, FinishQueue, FinishMore, flowVars
<1>4. CASE Push(n)
  BY <1>4 DEF Push, TypeOK, NodeTypeOK
<1>5. CASE PollNext(n)
  <2>1. noMore'[m] = noMore[m]
    BY <1>5 DEF PollNext, TypeOK, NodeTypeOK
  <2> QED BY <1>5, <2>1 DEF PollNext, Goto, TypeOK, NodeTypeOK
<1>6. CASE PollEnd(n) \/ Finish(n)
  <2>1. noMore'[m] = noMore[m]
    BY <1>6 DEF PollEnd, Finish, TypeOK, NodeTypeOK
  <2> QED BY <1>6, <2>1 DEF PollEnd, Finish, Goto, TypeOK, NodeTypeOK
<1> QED BY <1>1, <1>2, <1>3, <1>4, <1>5, <1>6 DEF Worker, NodeStep

LEMMA RestBeforeNext ==
  ASSUME OneRun, TypeOK, PollHasData, StartsAlone, QuietSoFar, RestBefore,
         PreparedSoFar, [Next]_vars
  PROVE  RestBefore'
<1> USE DEF ToCome, Preparing, CtlAt, ExecAt, At
<1>1. CASE UNCHANGED vars
  BY <1>1 DEF vars, nodeVars, RestBefore, Asleep, IdlePass, ReadyBehind
<1>2. CASE Control
  <2>1. UNCHANGED <<nodeVars, realTime>>
    BY <1>2, ControlLeaves
  <2>2. ASSUME ToCome' => ToCome, Preparing' => exec' = exec,
               ctl'.pc = "start" => ctl'.op = "start",
               ctl'.op = "start" => starts' = 0, ToCome' => exec'.pc = "none"
        PROVE  RestBefore'
    BY <2>1, <2>2 DEF nodeVars, RestBefore, Asleep, IdlePass, ReadyBehind
  <2>3. CASE Call
    <3>1. starts \in {0, 1}
      BY ExecutorAssumption DEF OneRun, TypeOK
    <3>2. PICK op \in Calls :
            /\ op = "start" => starts > 0
            /\ starts' = IF op = "start" THEN starts - 1 ELSE starts
            /\ ctl' = [op |-> op, pc |-> IF op = "wait" THEN "wait" ELSE "isRunning"]
      BY <2>3 DEF Call
    <3>3. /\ starts' = 1 => starts = 1 /\ op # "start"
          /\ op = "start" => starts = 1 /\ starts' = 0
      BY <3>1, <3>2
    <3>4. exec' = exec /\ ctl'.op = op /\ ctl'.pc # "start"
      BY <2>3, <3>2 DEF Call
    <3>5. ToCome' => ToCome
      BY <3>3, <3>4
    <3>6. ctl'.op = "start" => starts' = 0
      BY <3>3, <3>4
    <3> QED BY <2>2, <3>4, <3>5, <3>6 DEF RestBefore
  <2>4. CASE IsRunning \/ Stop \/ WaitForFinish
    BY <2>2, <2>4 DEF IsRunning, Stop, WaitForFinish, CtlGoto, RestBefore, TypeOK
  <2>5. CASE Join
    <3>1. exec'.pc = "none"
      BY <2>5 DEF Join, TypeOK
    <3> QED BY <2>2, <2>5, <3>1 DEF Join, CtlGoto, RestBefore, TypeOK
  <2>6. CASE Start
    <3>1. /\ ToCome /\ exec.pc = "none" /\ ctl.op = "start"
          /\ ctl'.op = "start" /\ ctl'.pc = "idle" /\ starts' = starts
      BY <2>6 DEF Start, CtlGoto, RestBefore, TypeOK
    <3>2. starts' = 0 /\ ~ToCome' /\ realTime' = FALSE
      BY <2>1, <3>1 DEF RestBefore
    <3>3. Asleep' /\ \A e \in Link : queue'[e] = <<>>
      BY <2>1, <3>1 DEF RestBefore, Asleep, nodeVars
    <3>4. \A n \in Node : mode'[n] = "REAL_TIME"
      BY <2>1, <3>1 DEF QuietSoFar, Quiet, nodeVars
    <3>5. ReadyBehind' /\ \A n \in Node : IdlePass(n)'
      <4>1. \A n \in Woken : n \in Node
        BY ExecutorAssumption
      <4> QED BY <3>3, <3>4, <4>1 DEF Asleep, ReadyBehind, IdlePass, PassPC
    <3> QED BY <3>1, <3>2, <3>3, <3>5 DEF RestBefore
  <2> QED BY <1>2, <2>3, <2>4, <2>5, <2>6 DEF Control
<1>3. CASE Execute \/ WaitTimeout
  <2>1. ~ToCome /\ UNCHANGED <<ctl, starts, wpc, todo>>
    BY <1>3
    DEF Execute, ClearNode, InitializeAllNodes, InitializationFails, ResetCount,
        SetMode, AddActive, ResetNode, Enable, Wake, Wait, WaitTimeout,
        DisableCallbacks, ClearAllNodeQueues, RestoreMode, ClearCount,
        EndExecution, nodeVars, workerVars, RestBefore
  <2>2. realTime' = FALSE
    BY <1>3
    DEF Execute, ClearNode, InitializeAllNodes, InitializationFails, ResetCount,
        SetMode, AddActive, ResetNode, Enable, Wake, Wait, WaitTimeout,
        DisableCallbacks, ClearAllNodeQueues, RestoreMode, ClearCount,
        EndExecution, RestBefore, OneRun
  <2>3. ASSUME Preparing, \A e \in Link : queue'[e] = <<>>,
               exec'.pc \in {"clear", "initialize"} => Asleep',
               ReadyBehind' /\ \A n \in Node : IdlePass(n)'
        PROVE  RestBefore'
    BY <2>1, <2>2, <2>3 DEF RestBefore
  <2>4. ASSUME Preparing
        PROVE  /\ ReadyBehind /\ \A n \in Node : IdlePass(n)
               /\ \A e \in Link : queue[e] = <<>>
    BY <2>4 DEF RestBefore
  <2>5. CASE ClearNode
    <3>1. /\ UNCHANGED <<wpc, wakeup, mode, noMore, todo>> /\ exec.pc = "clear"
          /\ \A e \in Link : queue'[e] = <<>> \/ queue'[e] = queue[e]
      BY <2>5 DEF ClearNode, ClearQueues, workerVars
    <3>2. Asleep'
      BY <3>1 DEF RestBefore, Asleep
    <3>3. ReadyBehind' /\ \A n \in Node : IdlePass(n)'
      BY <2>4, <3>1 DEF ReadyBehind, IdlePass
    <3> QED BY <2>3, <2>4, <3>1, <3>2, <3>3
  <2>6. CASE InitializeAllNodes
    <3>1. /\ UNCHANGED <<wpc, mode, noMore, todo, queue>> /\ exec.pc = "initialize"
          /\ exec'.pc = "count"
          /\ \A n \in Node : wakeup'[n] => wakeup[n] \/ n \in Woken
      BY <2>6 DEF InitializeAllNodes, ExecGoto, workerVars
    <3>2. ReadyBehind' /\ \A n \in Node : IdlePass(n)'
      BY <2>4, <3>1 DEF ReadyBehind, IdlePass
    <3> QED BY <2>3, <2>4, <3>1, <3>2
  <2>7. CASE ResetCount \/ AddActive
    <3>1. /\ UNCHANGED <<wpc, wakeup, mode, noMore, todo, queue>> /\ Preparing
          /\ exec'.pc \notin {"clear", "initialize"}
      BY <2>7 DEF ResetCount, AddActive, ExecGoto, nodeVars, TypeOK
    <3>2. ReadyBehind' /\ \A n \in Node : IdlePass(n)'
      BY <2>4, <3>1 DEF ReadyBehind, IdlePass
    <3> QED BY <2>3, <2>4, <3>1, <3>2
  <2>8. CASE SetMode
    <3>1. /\ UNCHANGED <<wpc, wakeup, noMore, todo, queue>> /\ exec.pc = "mode"
          /\ exec'.pc \notin {"clear", "initialize"}
          /\ mode' = [mode EXCEPT ![Cur] = "POST_PROCESSING"] \/ mode' = mode
      BY <2>8 DEF SetMode, ExecGoto, workerVars, RestBefore, TypeOK
    <3>2. Cur \in Node /\ exec.at \in DOMAIN Order
      BY OrderFacts DEF Cur, TypeOK
    <3>3. \A n \in Node : /\ mode[n] = "POST_PROCESSING" => mode'[n] = "POST_PROCESSING"
                          /\ n # Cur => mode'[n] = mode[n]
      BY <3>1 DEF TypeOK, NodeTypeOK
    <3>4. \A n \in Node : IdlePass(n)'
      BY <2>4, <3>1, <3>3 DEF IdlePass
    <3>5. ASSUME Cur \in Woken, NEW e \in In(Cur) PROVE ~noMore[e[1]]
      <4>1. e[1] \in Node /\ e \in Out(e[1])
        BY FlowAssumption DEF In, Out
      <4>2. PICK i \in DOMAIN Order : Order[i] = e[1]
        BY <4>1, ExecutorAssumption
      <4>3. i < exec.at
        BY <3>2, <3>5, <4>2 DEF OneRun, WokenBehind, Cur
      <4>4. i \in 1 .. exec.at - 1
        BY <3>2, <4>2, <4>3, OrderFacts
      <4> QED BY <3>1, <4>1, <4>2, <4>4 DEF PreparedSoFar
    <3>6. ReadyBehind'
      <4>1. \A n \in Woken : n \in Node
        BY ExecutorAssumption
      <4> QED BY <2>4, <3>1, <3>3, <3>5, <4>1 DEF ReadyBehind
    <3> QED BY <2>3, <2>4, <3>1, <3>4, <3>6
  <2>9. CASE ResetNode
    <3>1. /\ UNCHANGED <<wpc, wakeup, mode, todo, queue>> /\ exec.pc = "reset"
          /\ exec'.pc \notin {"clear", "initialize"}
          /\ \A n \in Node : noMore'[n] => noMore[n]
      BY <2>9 DEF ResetNode, ExecGoto, workerVars, TypeOK, NodeTypeOK
    <3>2. \A n \in Node : IdlePass(n)'
      BY <2>4, <3>1 DEF IdlePass
    <3>3. \A n \in Node : \A e \in In(n) : e[1] \in Node
      BY FlowAssumption DEF In
    <3>4. ReadyBehind'
      <4>1. \A n \in Woken : n \in Node
        BY ExecutorAssumption
      <4> QED BY <2>4, <3>1, <3>3, <4>1 DEF ReadyBehind
    <3> QED BY <2>3, <2>4, <3>1, <3>2, <3>4
  <2>10. CASE \/ InitializationFails \/ Enable \/ Wake \/ Wait \/ WaitTimeout
              \/ DisableCallbacks \/ ClearAllNodeQueues \/ RestoreMode
              \/ ClearCount \/ EndExecution
    <3>1. ~Preparing'
      BY <2>10
      DEF InitializationFails, Enable, Wake, Wait, WaitTimeout, DisableCallbacks,
          ClearAllNodeQueues, RestoreMode, ClearCount, EndExecution, ExecGoto,
          NextNode, TypeOK
    <3> QED BY <2>1, <2>2, <3>1 DEF RestBefore
  <2> QED BY <1>3, <2>5, <2>6, <2>7, <2>8, <2>9, <2>10 DEF Execute
<1>4. ASSUME NEW n \in Node, Worker(n) PROVE RestBefore'
  <2>1. UNCHANGED <<exec, realTime, ctl, starts>>
    BY <1>4, WorkerLeaves
  <2>2. CASE ToCome \/ Preparing
    <3>1. /\ Preparing /\ exec.pc \notin {"clear", "initialize"} /\ ~ToCome
          /\ UNCHANGED <<queue, noMore, mode>> /\ IdlePass(n)'
          /\ \A m \in Node : wakeup'[m] => wakeup[m]
      BY <1>4, <2>2, WorkerBefore
    <3>2. ASSUME NEW m \in Node, m # n PROVE IdlePass(m)'
      <4>1. wpc'[m] = wpc[m] /\ todo'[m] = todo[m]
        BY <1>4, <3>2, WorkerOwn
      <4> QED BY <3>1, <4>1 DEF RestBefore, IdlePass
    <3> QED BY <2>1, <3>1, <3>2 DEF RestBefore, ReadyBehind
  <2>3. CASE ~(ToCome \/ Preparing)
    BY <2>1, <2>3 DEF RestBefore
  <2> QED BY <2>2, <2>3
<1> QED BY <1>1, <1>2, <1>3, <1>4 DEF Next

LEMMA PreparedSoFarNext ==
  ASSUME OneRun, TypeOK, PollHasData, StartsAlone, QuietSoFar, RestBefore,
         PreparedSoFar, [Next]_vars
  PROVE  PreparedSoFar'
<1> USE OrderFacts DEF ExecAt
<1>1. ASSUME UNCHANGED <<mode, noMore, exec>>,
             state' = "Starting" => state = "Starting"
      PROVE  PreparedSoFar'
  BY <1>1 DEF PreparedSoFar
<1>2. CASE UNCHANGED vars
  BY <1>1, <1>2 DEF vars, nodeVars
<1>3. CASE Control
  <2>1. UNCHANGED <<mode, noMore>>
    BY <1>3, ControlLeaves DEF nodeVars
  <2>2. CASE exec'.pc \in {"none", "clear"}
    BY <2>2 DEF PreparedSoFar
  <2>3. CASE exec' = exec /\ exec'.pc # "clear"
    BY <1>1, <1>3, <2>1, <2>3, ControlLeaves
  <2> QED BY <1>3, <2>2, <2>3, ControlOutside
<1>4. CASE Execute \/ WaitTimeout
  <2>1. Cur \in Node /\ exec.at \in DOMAIN Order
    BY DEF Cur, TypeOK
  <2>2. CASE ResetCount
    <3>1. exec' = [pc |-> "mode", at |-> 1] /\ UNCHANGED <<mode, noMore>>
      BY <2>2 DEF ResetCount, ExecGoto, nodeVars
    <3>2. \A n \in Node : mode[n] = "REAL_TIME"
      BY <2>2 DEF ResetCount, QuietSoFar, Quiet
    <3> QED BY <3>1, <3>2 DEF PreparedSoFar
  <2>3. CASE SetMode
    <3>1. CASE state = "Starting"
      <4>1. /\ mode' = [mode EXCEPT ![Cur] = "POST_PROCESSING"]
            /\ exec' = [exec EXCEPT !.pc = "add"]
            /\ exec.pc = "mode" /\ UNCHANGED noMore
        BY <2>3, <3>1 DEF SetMode, RestBefore
      <4>2. exec'.pc = "add" /\ exec'.at = exec.at
        BY <4>1 DEF TypeOK
      <4>3. ASSUME NEW i \in DOMAIN Order
            PROVE  mode'[Order[i]] = IF i <= exec.at THEN "POST_PROCESSING"
                                                     ELSE "REAL_TIME"
        <5>1. CASE i = exec.at
          BY <4>1, <5>1, <2>1 DEF Cur, TypeOK, NodeTypeOK
        <5>2. CASE i # exec.at
          <6>1. Order[i] # Cur
            BY <5>2, <2>1, ExecutorAssumption DEF Cur
          <6> QED BY <4>1, <5>2, <6>1, <2>1 DEF PreparedSoFar, TypeOK, NodeTypeOK
        <5> QED BY <5>1, <5>2
      <4>4. \A i \in 1 .. exec.at - 1 : Out(Order[i]) # {} => ~noMore'[Order[i]]
        BY <4>1 DEF PreparedSoFar
      <4>5. \A i \in DOMAIN Order :
              mode'[Order[i]] = IF i < exec'.at \/ (i = exec'.at /\ exec'.pc # "mode")
                                THEN "POST_PROCESSING" ELSE "REAL_TIME"
        BY <4>2, <4>3, <2>1
      <4> QED BY <4>2, <4>4, <4>5 DEF PreparedSoFar
    <3>2. CASE state # "Starting"
      BY <2>3, <3>2 DEF SetMode, ExecGoto, PreparedSoFar
    <3> QED BY <3>1, <3>2
  <2>4. CASE AddActive
    <3>1. /\ exec.pc = "add" /\ exec'.pc = "reset" /\ exec'.at = exec.at
          /\ UNCHANGED <<mode, noMore>>
      BY <2>4 DEF AddActive, nodeVars, TypeOK
    <3> QED BY <3>1 DEF PreparedSoFar
  <2>5. CASE ResetNode
    <3>1. /\ exec.pc = "reset" /\ UNCHANGED mode
          /\ noMore' = [noMore EXCEPT ![Cur] = @ /\ Out(Cur) = {}]
      BY <2>5 DEF ResetNode
    <3>2. ASSUME NEW i \in 1 .. exec.at, Out(Order[i]) # {}
          PROVE  ~noMore'[Order[i]]
      <4>1. CASE i = exec.at
        BY <3>1, <3>2, <4>1, <2>1 DEF Cur, TypeOK, NodeTypeOK
      <4>2. CASE i # exec.at
        <5>1. Order[i] # Cur /\ i \in DOMAIN Order
          BY <4>2, <2>1, ExecutorAssumption DEF Cur
        <5>2. i \in 1 .. exec.at - 1
          BY <4>2, <2>1
        <5>3. ~noMore[Order[i]]
          BY <3>1, <3>2, <5>2 DEF PreparedSoFar
        <5> QED BY <3>1, <5>1, <5>3 DEF TypeOK, NodeTypeOK
      <4> QED BY <4>1, <4>2
    <3>3. CASE exec.at = Len(Order)
      <4>1. exec' = [pc |-> "enable", at |-> 1]
        BY <2>5, <3>3 DEF ResetNode, ExecGoto
      <4>2. ASSUME NEW n \in Node
            PROVE  mode'[n] = "POST_PROCESSING" /\ (Out(n) # {} => ~noMore'[n])
        <5>1. PICK i \in DOMAIN Order : Order[i] = n
          BY ExecutorAssumption
        <5> QED BY <3>1, <3>2, <3>3, <5>1 DEF PreparedSoFar
      <4> QED BY <4>1, <4>2 DEF PreparedSoFar
    <3>4. CASE exec.at # Len(Order)
      <4>1. exec' = [pc |-> "mode", at |-> exec.at + 1]
        BY <2>5, <3>4 DEF ResetNode
      <4>2. \A i \in DOMAIN Order :
              mode'[Order[i]] = IF i < exec'.at \/ (i = exec'.at /\ exec'.pc # "mode")
                                THEN "POST_PROCESSING" ELSE "REAL_TIME"
        BY <3>1, <4>1, <2>1 DEF PreparedSoFar
      <4>3. \A i \in 1 .. exec'.at - 1 : Out(Order[i]) # {} => ~noMore'[Order[i]]
        <5>1. exec'.at - 1 = exec.at
          BY <4>1, <2>1
        <5> QED BY <3>2, <5>1
      <4> QED BY <4>1, <4>2, <4>3 DEF PreparedSoFar
    <3> QED BY <3>3, <3>4
  <2>6. CASE \/ ClearNode \/ InitializeAllNodes \/ InitializationFails \/ Enable
             \/ Wake \/ Wait \/ WaitTimeout \/ DisableCallbacks
             \/ ClearAllNodeQueues \/ RestoreMode \/ ClearCount \/ EndExecution
    <3>1. exec'.pc \notin {"mode", "add", "reset", "enable"}
      BY <2>6
      DEF ClearNode, InitializeAllNodes, InitializationFails, Enable, Wake, Wait,
          WaitTimeout, DisableCallbacks, ClearAllNodeQueues, RestoreMode,
          ClearCount, EndExecution, ExecGoto, NextNode, TypeOK
    <3> QED BY <3>1 DEF PreparedSoFar
  <2> QED
    BY <1>4, <2>2, <2>3, <2>4, <2>5, <2>6 DEF Execute
<1>5. ASSUME NEW n \in Node, Worker(n) PROVE PreparedSoFar'
  <2>1. exec' = exec /\ (Preparing => UNCHANGED <<mode, noMore, state>>)
    BY <1>5, WorkerBefore, WorkerLeaves
  <2>2. CASE Preparing
    BY <1>1, <2>1, <2>2
  <2>3. CASE ~Preparing
    BY <2>1, <2>3 DEF Preparing, PreparedSoFar
  <2> QED BY <2>2, <2>3
<1> QED BY <1>2, <1>3, <1>4, <1>5 DEF Next

-------------------------------------------------------------------------------
(* During the run.                                                             *)

(* Unless it starts to flow or a worker moves, a run that is flowing goes on as *)
(* it did, or with fewer callbacks.                                            *)
LEMMA FlowGoesOn ==
  ASSUME OneRun, TypeOK, StartsAlone, Flowing',
         UNCHANGED vars \/ Control \/ Execute \/ WaitTimeout, ~Enable
  PROVE  /\ Flowing
         /\ exec'.pc \in {"wake", "wait"} => exec.pc \in {"wake", "wait"}
         /\ UNCHANGED <<mode, wpc, poll, noMore, todo, activeNodes>>
         /\ \A n \in Node : callbacks'[n] => callbacks[n]
<1> USE DEF Flowing
<1>1. CASE UNCHANGED vars
  BY <1>1 DEF vars, nodeVars
<1>2. CASE Control
  <2>1. exec' = exec
    BY <1>2, ControlOutside
  <2> QED BY <1>2, <2>1, ControlLeaves DEF nodeVars
<1>3. CASE Wake \/ Wait \/ DisableCallbacks \/ ClearAllNodeQueues
  <2>1. /\ Flowing
        /\ exec'.pc \in {"wake", "wait"} => exec.pc \in {"wake", "wait"}
    BY <1>3
    DEF Wake, Wait, DisableCallbacks, ClearAllNodeQueues, ExecAt, ExecGoto,
        NextNode, TypeOK
  <2>2. UNCHANGED <<mode, wpc, poll, noMore, todo, activeNodes>>
    BY <1>3
    DEF Wake, Wait, DisableCallbacks, ClearAllNodeQueues, nodeVars, workerVars
  <2>3. \A n \in Node : callbacks'[n] => callbacks[n]
    BY <1>3
    DEF Wake, Wait, DisableCallbacks, ClearAllNodeQueues, nodeVars, TypeOK,
        NodeTypeOK
  <2> QED BY <2>1, <2>2, <2>3
<1>4. CASE \/ ClearNode \/ InitializeAllNodes \/ InitializationFails \/ ResetCount
           \/ SetMode \/ AddActive \/ ResetNode \/ RestoreMode \/ ClearCount
           \/ EndExecution
  BY <1>4
  DEF ClearNode, InitializeAllNodes, InitializationFails, ResetCount, SetMode,
      AddActive, ResetNode, RestoreMode, ClearCount, EndExecution, ExecAt, ExecGoto,
      NextNode, TypeOK
<1>5. ~WaitTimeout
  BY DEF WaitTimeout, OneRun
<1> QED BY <1>1, <1>2, <1>3, <1>4, <1>5 DEF Execute

(* When callbacks are enabled no worker has anything to do, and all nodes are   *)
(* counted.                                                                    *)
LEMMA FlowBegins ==
  ASSUME TypeOK, QuietSoFar, RestBefore, PreparedSoFar, Enable
  PROVE  /\ \A n \in Node : wpc'[n] \in PassPC /\ IdlePass(n)
         /\ UNCHANGED <<mode, wpc, poll, noMore, todo, activeNodes>>
         /\ \A n \in Node : callbacks'[n] => mode[n] = "POST_PROCESSING"
         /\ \A n \in Node : callbacks'[n] /\ Out(n) # {} => ~noMore[n]
<1>1. ExecAt("enable") /\ UNCHANGED <<mode, wpc, poll, noMore, todo, activeNodes>>
  BY DEF Enable, workerVars
<1>2. \A n \in Node : wpc'[n] \in PassPC /\ IdlePass(n)
  BY <1>1 DEF RestBefore, Preparing, ExecAt, IdlePass
<1>3. CASE state = "Starting"
  BY <1>1, <1>2, <1>3 DEF PreparedSoFar
<1>4. CASE state # "Starting"
  <2>1. \A n \in Node : ~callbacks'[n]
    BY <1>1, <1>4 DEF Enable, QuietSoFar, ExecAt
  <2> QED BY <1>1, <1>2, <2>1
<1> QED BY <1>3, <1>4

LEMMA ModeTellsWorker ==
  ASSUME TypeOK, NEW n \in Node, Worker(n), ModeTellsOf(n)
  PROVE  ModeTellsOf(n)'
<1> USE DEF ModeTellsOf, At
<1>1. CASE DeregisterNode(n)
  BY <1>1
  DEF DeregisterNode, Decrement, Compare, SetStopping, Goto, AfterDeregister,
      flowVars, TypeOK, NodeTypeOK
<1>2. CASE Wakeup(n) \/ Gate(n) \/ NoInput(n) \/ HasPollEvents(n)
  BY <1>2
  DEF Wakeup, Gate, NoInput, HasPollEvents, Goto, flowVars, TypeOK, NodeTypeOK
<1>3. CASE TakeInput(n)
  <2>1. In(n) # {}
    BY <1>3 DEF TakeInput, MayTake
  <2> QED BY <1>3, <2>1 DEF TakeInput, Goto, TypeOK, NodeTypeOK
<1>4. CASE InvokeCallbacks(n) \/ PushDone(n)
  <2>1. UNCHANGED <<mode, callbacks, poll>>
    BY <1>4 DEF InvokeCallbacks, PushDone, flowVars
  <2>2. /\ wpc[n] \in {"invoke", "push"}
        /\ wpc'[n] \in {"push", AfterInvoke(n)}
    BY <1>4 DEF InvokeCallbacks, PushDone, Goto, TypeOK, NodeTypeOK
  <2> QED BY <2>1, <2>2 DEF AfterInvoke
<1>5. CASE Push(n)
  BY <1>5 DEF Push
<1>6. CASE Poll(n) \/ NoPoll(n)
  BY <1>6 DEF Poll, NoPoll, Goto, flowVars, TypeOK, NodeTypeOK
<1>7. CASE PollNext(n)
  BY <1>7 DEF PollNext, Goto, TypeOK, NodeTypeOK
<1>8. CASE PollEnd(n) \/ Finish(n)
  BY <1>8 DEF PollEnd, Finish, Goto, TypeOK, NodeTypeOK
<1>9. CASE FinishCheck(n) \/ FinishQueue(n) \/ FinishMore(n)
  <2>1. UNCHANGED <<mode, callbacks, poll>>
    BY <1>9 DEF FinishCheck, FinishQueue, FinishMore, flowVars
  <2>2. /\ wpc'[n] \in {"sleep", "finishQueue", "finishMore"}
        /\ wpc'[n] # "sleep" => mode[n] = "POST_PROCESSING"
    BY <1>9
    DEF FinishCheck, FinishQueue, FinishMore, Goto, TypeOK, NodeTypeOK
  <2> QED BY <2>1, <2>2
<1> QED
  BY <1>1, <1>2, <1>3, <1>4, <1>5, <1>6, <1>7, <1>8, <1>9 DEF Worker, NodeStep

LEMMA ModeTellsNext ==
  ASSUME OneRun, TypeOK, StartsAlone, QuietSoFar, RestBefore, PreparedSoFar,
         ModeTells, [Next]_vars
  PROVE  ModeTells'
<1> SUFFICES ASSUME Flowing', NEW m \in Node PROVE ModeTellsOf(m)'
  BY DEF ModeTells
<1>1. CASE Enable
  <2>1. wpc'[m] \in PassPC /\ IdlePass(m)
    BY <1>1, FlowBegins
  <2>2. mode' = mode /\ wpc' = wpc
    BY <1>1, FlowBegins
  <2>3. callbacks'[m] => mode[m] = "POST_PROCESSING"
    BY <1>1, FlowBegins
  <2> QED BY <2>1, <2>2, <2>3 DEF ModeTellsOf, IdlePass, PassPC, At
<1>2. CASE ~Enable /\ (UNCHANGED vars \/ Control \/ Execute \/ WaitTimeout)
  BY <1>2, FlowGoesOn DEF ModeTells, ModeTellsOf, At
<1>3. ASSUME NEW n \in Node, Worker(n) PROVE ModeTellsOf(m)'
  <2>1. Flowing
    BY <1>3, WorkerLeaves DEF Flowing
  <2>2. CASE m = n
    BY <1>3, <2>1, <2>2, ModeTellsWorker DEF ModeTells
  <2>3. CASE m # n
    BY <1>3, <2>1, <2>3, WorkerOwn DEF ModeTells, ModeTellsOf, At
  <2> QED BY <2>2, <2>3
<1> QED BY <1>1, <1>2, <1>3 DEF Next, Execute

-------------------------------------------------------------------------------
(* The count of active nodes.                                                  *)

LEMMA Remainder ==
  ASSUME NEW l \in Nat, NEW x \in Nat, x < l
  PROVE  x % l = x
OBVIOUS

LEMMA RemainderOnce ==
  ASSUME NEW l \in Nat, NEW x \in Nat, x < l
  PROVE  (x + l) % l = x
OBVIOUS

LEMMA CountedFinite ==
  /\ IsFiniteSet(Counted) /\ Cardinality(Counted) \in Nat
  /\ IsFiniteSet(Leaving) /\ Cardinality(Leaving) \in Nat
  /\ Cardinality(Counted) <= Cardinality(Node)
  /\ Cardinality(Leaving) <= Cardinality(Node)
BY FlowAssumption, FS_Subset, FS_CardinalityType DEF Counted, Leaving

(* A node that finishes moves from those that are counted to those that leave.  *)
LEMMA FinishCounts ==
  ASSUME TypeOK, NEW n \in Node, ModeTellsOf(n), PollEnd(n) \/ Finish(n)
  PROVE  Cardinality(Counted') + Cardinality(Leaving')
           = Cardinality(Counted) + Cardinality(Leaving)
<1>1. /\ n \in Counted /\ n \notin Leaving
      /\ mode' = [mode EXCEPT ![n] = "REAL_TIME"]
      /\ wpc' = [wpc EXCEPT ![n] = "deregister"]
  BY DEF PollEnd, Finish, Goto, ModeTellsOf, At, Counted, Leaving
<1>2. Counted' = Counted \ {n}
  BY <1>1 DEF Counted, TypeOK, NodeTypeOK
<1>3. Leaving' = Leaving \cup {n}
  BY <1>1 DEF Leaving, At, TypeOK, NodeTypeOK
<1>4. Cardinality(Counted') = Cardinality(Counted) - 1
  BY <1>1, <1>2, CountedFinite, FS_RemoveElement
<1>5. Cardinality(Leaving') = Cardinality(Leaving) + 1
  BY <1>1, <1>3, CountedFinite, FS_AddElement
<1> QED BY <1>4, <1>5, CountedFinite

(* One that deregisters leaves, and the counter goes down; it is not yet zero. *)
LEMMA DecrementCounts ==
  ASSUME TypeOK, NEW n \in Node, Decrement(n),
         activeNodes = Cardinality(Counted) + Cardinality(Leaving)
  PROVE  /\ activeNodes' = Cardinality(Counted') + Cardinality(Leaving')
         /\ activeNodes' \in Nat
<1>1. n \in Leaving /\ Counted' = Counted /\ Leaving' = Leaving \ {n}
  BY DEF Decrement, Goto, flowVars, Counted, Leaving, At, TypeOK, NodeTypeOK
<1>2. Cardinality(Leaving') = Cardinality(Leaving) - 1 /\ Cardinality(Leaving) # 0
  BY <1>1, CountedFinite, FS_RemoveElement, FS_EmptySet
<1>3. activeNodes - 1 \in Nat /\ activeNodes - 1 < SizeLimit /\ SizeLimit \in Nat
  BY <1>2, CountedFinite, ExecutorAssumption DEF TypeOK
<1>4. (activeNodes - 1 + SizeLimit) % SizeLimit = activeNodes - 1
  BY <1>3, RemainderOnce
<1>5. activeNodes + SizeLimit - 1 = activeNodes - 1 + SizeLimit /\ activeNodes \in Nat
  BY <1>3 DEF TypeOK
<1>6. activeNodes' = activeNodes - 1
  BY <1>4, <1>5 DEF Decrement
<1> QED BY <1>1, <1>2, <1>3, <1>5, <1>6, CountedFinite

LEMMA CountExactNext ==
  ASSUME OneRun, TypeOK, PollHasData, StartsAlone, QuietSoFar, RestBefore,
         PreparedSoFar, ModeTells, CountExact, [Next]_vars
  PROVE  CountExact'
<1> USE DEF Counting, Flowing
<1>1. ASSUME UNCHANGED <<mode, wpc, activeNodes>>, Counting' => Counting,
             exec'.pc = "add" <=> exec.pc = "add"
      PROVE  CountExact'
  BY <1>1 DEF CountExact, Counted, Leaving, At, ExecAt
<1>2. ASSUME ~Counting' PROVE CountExact'
  BY <1>2 DEF CountExact
<1>3. CASE UNCHANGED vars
  BY <1>1, <1>3 DEF vars, nodeVars
<1>4. CASE Control
  <2>1. UNCHANGED <<mode, wpc, activeNodes>>
    BY <1>4, ControlLeaves DEF nodeVars
  <2> QED BY <2>1, <1>1, <1>2, <1>4, ControlOutside
<1>5. CASE Execute \/ WaitTimeout
  <2>1. Cur \in Node /\ exec.at \in DOMAIN Order
    BY OrderFacts DEF Cur, TypeOK
  <2>2. CASE ResetCount
    <3>1. /\ activeNodes' = 0 /\ exec'.pc = "mode" /\ UNCHANGED <<mode, wpc>>
          /\ exec.pc = "count"
      BY <2>2 DEF ResetCount, ExecGoto, ExecAt, nodeVars
    <3>2. Counted = {} /\ Leaving = {}
      BY <3>1
      DEF Counted, Leaving, QuietSoFar, Quiet, RestBefore, Preparing, IdlePass,
          PassPC, At
    <3>3. Counted' = {} /\ Leaving' = {}
      BY <3>1, <3>2 DEF Counted, Leaving, At
    <3> QED BY <3>1, <3>3, FS_EmptySet DEF CountExact, ExecAt
  <2>3. CASE SetMode
    <3>1. CASE state = "Starting"
      <4>1. /\ mode' = [mode EXCEPT ![Cur] = "POST_PROCESSING"]
            /\ exec' = [exec EXCEPT !.pc = "add"]
            /\ exec.pc = "mode" /\ UNCHANGED <<wpc, activeNodes>>
        BY <2>3, <3>1 DEF SetMode, RestBefore, ExecAt, workerVars
      <4>2. Cur \notin Counted
        BY <4>1, <2>1, OrderFacts DEF PreparedSoFar, ExecAt, Cur, Counted
      <4>3. Counted' = Counted \cup {Cur} /\ Leaving' = Leaving
        BY <4>1, <2>1 DEF Counted, Leaving, At, TypeOK, NodeTypeOK
      <4>4. Cardinality(Counted') = Cardinality(Counted) + 1
        BY <4>2, <4>3, CountedFinite, FS_AddElement
      <4>5. exec'.pc = "add"
        BY <4>1 DEF TypeOK
      <4>6. activeNodes \in Nat
        BY DEF TypeOK
      <4> QED
        BY <4>1, <4>3, <4>4, <4>5, <4>6, CountedFinite DEF CountExact, ExecAt
    <3>2. CASE state # "Starting"
      BY <2>3, <3>2, <1>1 DEF SetMode, ExecGoto, ExecAt, workerVars
    <3> QED BY <3>1, <3>2
  <2>4. CASE AddActive
    <3>1. /\ activeNodes' = (activeNodes + 1) % SizeLimit
          /\ exec.pc = "add" /\ exec'.pc = "reset" /\ UNCHANGED <<mode, wpc>>
      BY <2>4 DEF AddActive, ExecAt, nodeVars, TypeOK
    <3>2. activeNodes + 1 = Cardinality(Counted) + Cardinality(Leaving)
      BY <3>1 DEF CountExact, ExecAt
    <3>3. activeNodes + 1 \in Nat /\ SizeLimit \in Nat /\ activeNodes + 1 < SizeLimit
      BY <3>2, CountedFinite, OrderFacts, ExecutorAssumption DEF TypeOK
    <3>4. activeNodes' = activeNodes + 1
      BY <3>1, <3>3, Remainder
    <3>5. Counted' = Counted /\ Leaving' = Leaving
      BY <3>1 DEF Counted, Leaving, At
    <3> QED BY <3>1, <3>2, <3>3, <3>4, <3>5 DEF CountExact, ExecAt
  <2>5. CASE ResetNode \/ Enable \/ Wake \/ Wait \/ DisableCallbacks \/ ClearAllNodeQueues
    <3>1. UNCHANGED <<mode, wpc, activeNodes>>
      BY <2>5
      DEF ResetNode, Enable, Wake, Wait, DisableCallbacks, ClearAllNodeQueues,
          nodeVars, workerVars
    <3>2. Counting /\ exec.pc # "add" /\ exec'.pc # "add"
      BY <2>5
      DEF ResetNode, Enable, Wake, Wait, DisableCallbacks, ClearAllNodeQueues,
          ExecAt, ExecGoto, NextNode, TypeOK
    <3> QED BY <3>1, <3>2, <1>1
  <2>6. CASE \/ ClearNode \/ InitializeAllNodes \/ InitializationFails
             \/ RestoreMode \/ ClearCount \/ EndExecution
    <3>1. ~Counting'
      BY <2>6
      DEF ClearNode, InitializeAllNodes, InitializationFails, RestoreMode,
          ClearCount, EndExecution, ExecAt, ExecGoto, NextNode, TypeOK
    <3> QED BY <3>1, <1>2
  <2>7. ~WaitTimeout
    BY DEF WaitTimeout, OneRun
  <2> QED BY <1>5, <2>2, <2>3, <2>4, <2>5, <2>6, <2>7 DEF Execute
<1>6. ASSUME NEW n \in Node, Worker(n) PROVE CountExact'
  <2>1. exec' = exec
    BY <1>6, WorkerLeaves
  <2>p. CASE Preparing
    <3>1. /\ UNCHANGED <<mode, activeNodes>>
          /\ wpc[n] # "deregister" /\ wpc'[n] # "deregister"
      BY <1>6, <2>p, WorkerBefore DEF IdlePass, PassPC
    <3>2. Counted' = Counted /\ Leaving' = Leaving
      BY <1>6, <3>1, WorkerOwn DEF Counted, Leaving, At
    <3> QED BY <2>1, <3>1, <3>2 DEF CountExact, ExecAt
  <2>2. CASE ~Preparing /\ ~Flowing
    BY <2>1, <2>2, <1>2 DEF Preparing
  <2>3. CASE Flowing
    <3>1. /\ activeNodes = Cardinality(Counted) + Cardinality(Leaving)
          /\ ModeTellsOf(n) /\ exec'.pc # "add"
      BY <2>1, <2>3 DEF CountExact, ModeTells, ExecAt, TypeOK
    <3>2. CASE PollEnd(n) \/ Finish(n)
      <4>1. activeNodes' = activeNodes
        BY <1>6, <3>2
        DEF Worker, execVars, DeregisterNode, Decrement, Compare, SetStopping,
            PollEnd, Finish, At
      <4> QED BY <2>1, <3>1, <3>2, <4>1, FinishCounts DEF CountExact, ExecAt
    <3>3. CASE Decrement(n)
      <4>1. /\ activeNodes' = Cardinality(Counted') + Cardinality(Leaving')
            /\ activeNodes' \in Nat
        BY <3>1, <3>3, DecrementCounts
      <4> QED BY <3>1, <4>1 DEF CountExact, ExecAt
    <3>4. CASE ~PollEnd(n) /\ ~Finish(n) /\ ~Decrement(n)
      <4>1. UNCHANGED <<mode, activeNodes>>
        BY <1>6, <3>4
        DEF Worker, NodeStep, DeregisterNode, Wakeup, Gate, TakeInput, NoInput,
            InvokeCallbacks, Push, PushDone, HasPollEvents, Poll, NoPoll, PollNext,
            FinishCheck, FinishQueue, FinishMore, Compare, SetStopping, flowVars,
            execVars
      <4>2. wpc[n] # "deregister" /\ wpc'[n] # "deregister"
        BY <1>6, <3>4
        DEF Worker, NodeStep, DeregisterNode, Wakeup, Gate, TakeInput, NoInput,
            InvokeCallbacks, Push, PushDone, HasPollEvents, Poll, NoPoll, PollNext,
            FinishCheck, FinishQueue, FinishMore, Compare, SetStopping, Goto, At,
            AfterInvoke, AfterDeregister, TypeOK, NodeTypeOK
      <4>3. Leaving' = Leaving /\ Counted' = Counted
        BY <4>1, <4>2, <1>6, WorkerOwn DEF Leaving, Counted, At
      <4> QED BY <2>1, <3>1, <4>1, <4>3 DEF CountExact, ExecAt
    <3> QED BY <3>2, <3>3, <3>4
  <2> QED BY <2>2, <2>3, <2>p
<1> QED BY <1>3, <1>4, <1>5, <1>6 DEF Next

-------------------------------------------------------------------------------
(* The end of the data.                                                        *)

LEMMA SenderOpenWorker ==
  ASSUME TypeOK, PollHasData, NEW n \in Node, Worker(n), SenderOpen(n)
  PROVE  SenderOpen(n)'
<1> USE DEF SenderOpen, At
<1>1. CASE DeregisterNode(n)
  BY <1>1
  DEF DeregisterNode, Decrement, Compare, SetStopping, Goto, AfterDeregister,
      flowVars, TypeOK, NodeTypeOK
<1>2. CASE \/ Wakeup(n) \/ Gate(n) \/ NoInput(n) \/ HasPollEvents(n) \/ NoPoll(n)
           \/ FinishQueue(n) \/ FinishMore(n) \/ FinishCheck(n)
  <2>1. UNCHANGED <<callbacks, poll, noMore>>
    BY <1>2
    DEF Wakeup, Gate, NoInput, HasPollEvents, NoPoll, FinishQueue, FinishMore,
        FinishCheck, flowVars
  <2>2. wpc'[n] \notin {"invoke", "push", "pollNext"}
    BY <1>2
    DEF Wakeup, Gate, NoInput, HasPollEvents, NoPoll, FinishQueue, FinishMore,
        FinishCheck, Goto, TypeOK, NodeTypeOK
  <2> QED BY <2>1, <2>2
<1>3. CASE TakeInput(n)
  <2>1. In(n) # {}
    BY <1>3 DEF TakeInput, MayTake
  <2> QED BY <1>3, <2>1 DEF TakeInput, Goto, TypeOK, NodeTypeOK
<1>4. CASE InvokeCallbacks(n)
  <2>1. UNCHANGED <<callbacks, poll, noMore>>
    BY <1>4 DEF InvokeCallbacks, flowVars
  <2>2. CASE callbacks[n]
    <3>1. todo'[n] = Out(n) /\ wpc'[n] = "push" /\ wpc[n] = "invoke"
      BY <1>4, <2>2 DEF InvokeCallbacks, Goto, TypeOK, NodeTypeOK
    <3>2. In(n) = {} => poll[n]
      BY <3>1
    <3>3. Out(n) # {} => ~noMore[n]
      BY <2>2, <3>2
    <3> QED BY <2>1, <3>1, <3>2, <3>3
  <2>3. CASE ~callbacks[n]
    <3>1. wpc'[n] = AfterInvoke(n) /\ wpc[n] = "invoke"
      BY <1>4, <2>3 DEF InvokeCallbacks, Goto, TypeOK, NodeTypeOK
    <3> QED BY <2>1, <2>3, <3>1 DEF AfterInvoke
  <2> QED BY <2>2, <2>3
<1>5. CASE Push(n)
  <2>1. /\ UNCHANGED <<callbacks, poll, noMore, wpc>>
        /\ todo'[n] \subseteq todo[n]
    BY <1>5 DEF Push, TypeOK, NodeTypeOK
  <2> QED BY <2>1
<1>6. CASE PushDone(n)
  <2>1. UNCHANGED <<callbacks, poll, noMore>>
    BY <1>6 DEF PushDone, flowVars
  <2>2. wpc'[n] = AfterInvoke(n) /\ wpc[n] = "push"
    BY <1>6 DEF PushDone, Goto, TypeOK, NodeTypeOK
  <2> QED BY <2>1, <2>2 DEF AfterInvoke
<1>7. CASE Poll(n)
  <2>1. UNCHANGED <<callbacks, poll, noMore>> /\ poll[n] /\ wpc'[n] = "invoke"
    BY <1>7 DEF Poll, Goto, TypeOK, NodeTypeOK
  <2> QED BY <2>1
<1>8. CASE PollNext(n)
  <2>1. poll[n] /\ In(n) = {}
    BY <1>8 DEF PollNext, PollHasData
  <2>2. wpc'[n] = "pollLoop" /\ UNCHANGED callbacks
    BY <1>8 DEF PollNext, Goto, TypeOK, NodeTypeOK
  <2>3. CASE left[n] # <<>>
    BY <1>8, <2>1, <2>2, <2>3 DEF PollNext
  <2>4. CASE left[n] = <<>>
    <3>1. ~poll'[n]
      BY <1>8, <2>4 DEF PollNext, TypeOK, NodeTypeOK
    <3> QED BY <2>1, <2>2, <3>1
  <2> QED BY <2>3, <2>4
<1>9. CASE PollEnd(n) \/ Finish(n)
  <2>1. ~callbacks'[n] /\ wpc'[n] = "deregister"
    BY <1>9 DEF PollEnd, Finish, Goto, TypeOK, NodeTypeOK
  <2> QED BY <2>1
<1> QED
  BY <1>1, <1>2, <1>3, <1>4, <1>5, <1>6, <1>7, <1>8, <1>9 DEF Worker, NodeStep

LEMMA SendersOpenNext ==
  ASSUME OneRun, TypeOK, PollHasData, StartsAlone, QuietSoFar, RestBefore,
         PreparedSoFar, SendersOpen, [Next]_vars
  PROVE  SendersOpen'
<1> SUFFICES ASSUME exec'.pc \in {"wake", "wait"}, NEW m \in Node
             PROVE  SenderOpen(m)'
  BY DEF SendersOpen
<1>0. Flowing'
  BY DEF Flowing
<1>1. CASE Enable
  <2>1. wpc'[m] \in PassPC
    BY <1>1, FlowBegins
  <2>2. callbacks'[m] /\ Out(m) # {} => ~noMore[m]
    BY <1>1, FlowBegins
  <2>3. noMore' = noMore
    BY <1>1, FlowBegins
  <2> QED BY <2>1, <2>2, <2>3 DEF SenderOpen, PassPC, At
<1>2. CASE ~Enable /\ (UNCHANGED vars \/ Control \/ Execute \/ WaitTimeout)
  <2>1. SenderOpen(m)
    BY <1>0, <1>2, FlowGoesOn DEF SendersOpen
  <2>2. /\ UNCHANGED <<mode, wpc, poll, noMore, todo>>
        /\ callbacks'[m] => callbacks[m]
    BY <1>0, <1>2, FlowGoesOn
  <2> QED BY <2>1, <2>2 DEF SenderOpen, At
<1>3. ASSUME NEW n \in Node, Worker(n) PROVE SenderOpen(m)'
  <2>1. \A k \in Node : SenderOpen(k)
    BY <1>3, WorkerLeaves DEF SendersOpen
  <2>2. CASE m = n
    BY <1>3, <2>1, <2>2, SenderOpenWorker
  <2>3. CASE m # n
    BY <1>3, <2>1, <2>3, WorkerOwn DEF SenderOpen, At
  <2> QED BY <2>2, <2>3
<1> QED BY <1>1, <1>2, <1>3 DEF Next, Execute

-------------------------------------------------------------------------------
(* The theorems.                                                               *)

LEMMA RunInvariance == OneRun => (Spec => []RunInv)
<1> SUFFICES ASSUME OneRun PROVE Spec => []RunInv
  OBVIOUS
<1>1. Init => RunInv
  <2> SUFFICES ASSUME Init PROVE RunInv
    OBVIOUS
  <2>1. exec.pc = "none" /\ ctl.pc = "idle" /\ ctl.op = "none" /\ realTime = FALSE
    BY DEF Init
  <2>2. \A n \in Node : wpc[n] = "sleep" /\ ~wakeup[n]
    BY DEF Init, NodeInit
  <2>4. \A e \in Link : queue[e] = <<>>
    BY DEF Init, NodeInit
  <2>3. RestBefore
    BY <2>1, <2>2, <2>4 DEF RestBefore, Asleep, Preparing, CtlAt, ExecAt, At
  <2> QED
    BY <2>1, <2>3
    DEF RunInv, PreparedSoFar, ModeTells, Flowing, CountExact, Counting, SendersOpen,
        ExecAt
<1>2. TypeInv /\ StartsAlone /\ QuietSoFar /\ RunInv /\ [Next]_vars => RunInv'
  BY RestBeforeNext, PreparedSoFarNext, ModeTellsNext, CountExactNext,
     SendersOpenNext
  DEF RunInv, TypeInv
<1> QED BY <1>1, <1>2, TypeInvariance, QuietInvariance, PTL DEF Spec

(* The executor's count is that of the nodes still to deregister, at every step *)
(* of the preparing loop, of every worker and of a stop that comes between: it  *)
(* neither wraps nor reaches zero before the last node is through.             *)
THEOREM CountIsAccurate == OneRun => (Spec => []CountAccurate)
<1> SUFFICES ASSUME OneRun PROVE Spec => []CountAccurate
  OBVIOUS
<1>1. TypeInv /\ RunInv => CountAccurate
  <2> SUFFICES ASSUME TypeOK, CountExact,
                      exec.pc \in {"mode", "add", "reset", "enable", "wake", "wait",
                                   "disable", "clearAll"}
               PROVE  (activeNodes + IF ExecAt("add") THEN 1 ELSE 0) % SizeLimit
                        = Cardinality(Counted) + Cardinality(Leaving)
    BY DEF CountAccurate, Counted, Leaving, TypeInv, RunInv
  <2> DEFINE count == activeNodes + IF ExecAt("add") THEN 1 ELSE 0
  <2>1. count = Cardinality(Counted) + Cardinality(Leaving)
    BY DEF CountExact, Counting, Flowing
  <2>2. count \in Nat /\ SizeLimit \in Nat /\ count < SizeLimit
    BY <2>1, CountedFinite, OrderFacts, ExecutorAssumption
  <2> QED BY <2>1, <2>2, Remainder
<1> QED BY <1>1, RunInvariance, TypeInvariance, PTL

(* A pin that has announced the end of its data does not send any more, for any *)
(* flow: not from an item its worker was just about to pass on, and not when    *)
(* the finished node is woken again.                                           *)
THEOREM EndOfDataFinal == OneRun => (Spec => NoMoreIsFinal)
<1> SUFFICES ASSUME OneRun PROVE Spec => NoMoreIsFinal
  OBVIOUS
<1>1. TypeInv /\ RunInv /\ [Next]_vars
        => [\A e \in Link : ExecAt("wait") /\ Len(queue'[e]) > Len(queue[e])
                            => ~noMore[e[1]]]_vars
  <2> SUFFICES ASSUME TypeOK, SendersOpen, Next, NEW e \in Link, ExecAt("wait"),
                      Len(queue'[e]) > Len(queue[e])
               PROVE  ~noMore[e[1]]
    BY DEF TypeInv, RunInv
  <2>0. queue[e] \in Seq(Nat) /\ Len(queue[e]) \in Nat /\ queue' # queue
    BY DEF TypeOK, NodeTypeOK
  <2>1. ~Control
    BY <2>0, ControlLeaves DEF nodeVars
  <2>2. ~Execute /\ ~WaitTimeout
    BY <2>0
    DEF Execute, ClearNode, InitializeAllNodes, InitializationFails, ResetCount,
        SetMode, AddActive, ResetNode, Enable, Wake, Wait, WaitTimeout,
        DisableCallbacks, ClearAllNodeQueues, RestoreMode, ClearCount,
        EndExecution, ExecAt, nodeVars
  <2>3. PICK n \in Node : Worker(n)
    BY <2>1, <2>2 DEF Next
  <2>4. CASE Push(n)
    <3>1. PICK f \in todo[n] : queue' = [queue EXCEPT ![f] = Append(@, item[n])]
      BY <2>4 DEF Push
    <3>2. e = f
      BY <2>0, <3>1 DEF TypeOK, NodeTypeOK
    <3>3. SenderOpen(n) /\ At(n, "push")
      BY <2>4 DEF SendersOpen, ExecAt, Push
    <3>4. e \in Out(n) /\ (Out(n) # {} => ~noMore[n])
      BY <3>2, <3>3 DEF SenderOpen
    <3> QED BY <3>4 DEF Out
  <2>5. CASE TakeInput(n)
    <3>1. PICK f \in Earliest(n) : queue' = [queue EXCEPT ![f] = Tail(@)]
      BY <2>5 DEF TakeInput
    <3>2. f = e /\ queue[f] # <<>>
      BY <2>0, <3>1 DEF Earliest, TypeOK, NodeTypeOK
    <3>3. queue'[e] = Tail(queue[e])
      BY <3>1, <3>2 DEF TypeOK, NodeTypeOK
    <3>4. Len(Tail(queue[e])) = Len(queue[e]) - 1
      BY <2>0, <3>2
    <3> QED BY <2>0, <3>3, <3>4
  <2>6. CASE ~Push(n) /\ ~TakeInput(n)
    BY <2>0, <2>3, <2>6
    DEF Worker, NodeStep, DeregisterNode, Wakeup, Gate, NoInput, InvokeCallbacks,
        PushDone, HasPollEvents, Poll, NoPoll, PollNext, PollEnd, FinishCheck,
        FinishQueue, FinishMore, Finish, Decrement, Compare, SetStopping, flowVars
  <2> QED BY <2>4, <2>5, <2>6
<1> QED BY <1>1, RunInvariance, TypeInvariance, PTL DEF Spec, NoMoreIsFinal

-------------------------------------------------------------------------------
(* The data of such a run when nothing stops it: items are taken in the order   *)
(* of time, and none is left when the run has ended.                            *)

(* The run is started once and never stopped. *)
Undisturbed == OneRun /\ MaxStops = 0

InOrder(s) == \A i, j \in DOMAIN s : i <= j => s[i] <= s[j]

(* Every data file is in the order of time. *)
DataInTime == \A n \in Node : InOrder(Data[n])

-------------------------------------------------------------------------------
(* The invariants that the proofs rest on.                                     *)

(* The executor is not stopped while it prepares a run, and nothing has been    *)
(* taken before.                                                                *)
NotStopped ==
  /\ stops = 0 /\ ctl.op # "stop" /\ ~CtlAt("stop")
  /\ CtlAt("isRunning") => ctl.op = "start"
  /\ ToCome => state = "Idle"
  /\ Preparing => state = "Starting"
  /\ ToCome \/ Preparing => \A n \in Node : item[n] = 0

InRun == exec.pc \in {"wake", "wait"}

(* A node that has finished, or is about to, has nothing left to expect.       *)
FinishedOf(n) ==
  /\ mode[n] = "REAL_TIME" => \A e \in In(n) : noMore[e[1]]
  /\ wpc[n] \in {"finishQueue", "finishMore"}
       => \A e \in In(n) \ todo[n] : noMore[e[1]]
  /\ wpc[n] \in {"pollLoop", "pollNext", "pollEnd"} => In(n) = {}
  /\ At(n, "push") => mode[n] = "POST_PROCESSING"

Finished == InRun => \A n \in Node : FinishedOf(n)

(* The last node is through: from then on nobody sends.                        *)
RunOver == ~InRun \/ state = "Stopping" \/ \E n \in Node : At(n, "lock")

Silent == RunOver => \A n \in Node : ~callbacks[n] /\ ~At(n, "push")

(* How far the queues have been cleared after the run. *)
ClearedSoFar ==
  /\ ExecAt("clearAll") =>
       \A i \in 1 .. exec.at - 1 : \A e \in In(Order[i]) : queue[e] = <<>>
  /\ exec.pc \notin {"wake", "wait", "disable", "clearAll"}
       => \A e \in Link : queue[e] = <<>>

(* What a queue holds is in order, after all that its node has taken and not    *)
(* after what its predecessor has sent last.                                   *)
QueueInOrder(e) ==
  /\ InOrder(queue[e])
  /\ \A i \in DOMAIN queue[e] : /\ item[e[2]] <= queue[e][i]
                                /\ queue[e][i] <= item[e[1]]

LeftInOrder(n) ==
  /\ InOrder(left[n])
  /\ \A i \in DOMAIN left[n] : item[n] <= left[n][i]

(* A node does not get ahead of a predecessor that may still send. *)
Behind == InRun => \A e \in Link : noMore[e[1]] \/ item[e[2]] <= item[e[1]]

AllInOrder ==
  /\ \A e \in Link : QueueInOrder(e)
  /\ \A n \in Node : LeftInOrder(n)
  /\ Behind

(* Data files: rewound while the run is prepared, and read to the end before    *)
(* their nodes finish.                                                         *)
HasFile(n) == Out(n) # {} /\ Data[n] # <<>>

FileReady(n) == HasFile(n) => poll[n] /\ left[n] = Data[n]

FilesPrepared ==
  /\ exec.pc \in {"mode", "add", "reset"}
       => \A i \in 1 .. exec.at - 1 : FileReady(Order[i])
  /\ ExecAt("enable") => \A n \in Node : FileReady(n)

ReadToEnd == {"pollEnd", "finish", "finishQueue", "finishMore", "deregister",
              "compare", "lock"}

Last(s) == s[Len(s)]

FileRead(n) ==
  /\ mode[n] = "POST_PROCESSING" => callbacks[n]
  /\ mode[n] = "REAL_TIME" => left[n] = <<>>
  /\ poll[n] \/ left[n] = <<>>
  /\ wpc[n] \in ReadToEnd => left[n] = <<>>
  /\ left[n] = <<>> \/ Last(left[n]) = Last(Data[n])
  /\ left[n] = <<>> => item[n] = Last(Data[n])

FilesRead == InRun => \A n \in Node : HasFile(n) => FileRead(n)

DataInv == NotStopped /\ Finished /\ Silent /\ ClearedSoFar

FileInv == FilesPrepared /\ FilesRead

-------------------------------------------------------------------------------
(* Sequences in the order of time.                                             *)

LEMMA OrderedTail ==
  ASSUME NEW s \in Seq(Nat), s # <<>>, InOrder(s)
  PROVE  /\ InOrder(Tail(s))
         /\ Head(s) \in Nat
         /\ \A i \in DOMAIN s : Head(s) <= s[i]
         /\ \A i \in DOMAIN Tail(s) : i + 1 \in DOMAIN s /\ Tail(s)[i] = s[i + 1]
<1>1. Len(s) \in Nat \ {0} /\ DOMAIN s = 1 .. Len(s) /\ Head(s) = s[1]
  OBVIOUS
<1>2. /\ DOMAIN Tail(s) = 1 .. Len(s) - 1
      /\ \A i \in 1 .. Len(s) - 1 : Tail(s)[i] = s[i + 1]
  BY SMT
<1>3. \A i \in 1 .. Len(s) - 1 : i + 1 \in 1 .. Len(s)
  BY <1>1
<1>4. InOrder(Tail(s))
  BY <1>1, <1>2, <1>3 DEF InOrder
<1>5. s[1] \in Nat /\ 1 \in DOMAIN s
  BY <1>1
<1>6. \A i \in DOMAIN s : s[1] <= s[i]
  BY <1>1, <1>5 DEF InOrder
<1> QED BY <1>1, <1>2, <1>3, <1>4, <1>5, <1>6

LEMMA OrderedAppend ==
  ASSUME NEW s \in Seq(Nat), InOrder(s), NEW x \in Nat,
         \A i \in DOMAIN s : s[i] <= x
  PROVE  /\ InOrder(Append(s, x))
         /\ \A i \in DOMAIN Append(s, x) :
              \/ Append(s, x)[i] = x
              \/ i \in DOMAIN s /\ Append(s, x)[i] = s[i]
<1>1. /\ Len(s) \in Nat /\ DOMAIN s = 1 .. Len(s)
      /\ DOMAIN Append(s, x) = 1 .. Len(s) + 1
  OBVIOUS
<1>2. /\ Append(s, x)[Len(s) + 1] = x
      /\ \A i \in 1 .. Len(s) : Append(s, x)[i] = s[i]
  OBVIOUS
<1>3. \A i \in 1 .. Len(s) + 1 : i \in 1 .. Len(s) \/ i = Len(s) + 1
  BY <1>1
<1>4. ASSUME NEW i \in DOMAIN Append(s, x), NEW j \in DOMAIN Append(s, x), i <= j
      PROVE  Append(s, x)[i] <= Append(s, x)[j]
  <2>1. CASE j = Len(s) + 1
    BY <1>1, <1>2, <1>3, <2>1
  <2>2. CASE j \in 1 .. Len(s)
    <3>1. i \in 1 .. Len(s)
      BY <1>1, <1>4, <2>2
    <3> QED BY <1>1, <1>2, <1>4, <2>2, <3>1 DEF InOrder
  <2> QED BY <1>1, <1>3, <2>1, <2>2
<1> QED BY <1>1, <1>2, <1>3, <1>4 DEF InOrder

-------------------------------------------------------------------------------
(* What the steps do to the data.                                              *)

LEMMA LinkFacts ==
  ASSUME NEW e \in Link
  PROVE  /\ e[1] \in Node /\ e[2] \in Node /\ e[1] # e[2]
         /\ e \in In(e[2]) /\ e \in Out(e[1])
BY FlowAssumption DEF In, Out

(* The control thread and the executor take nothing, and only clear queues.    *)
LEMMA OthersLeave ==
  ASSUME TypeOK, UNCHANGED vars \/ Control \/ Execute
  PROVE  /\ UNCHANGED workerVars
         /\ \A e \in Link : queue'[e] = queue[e] \/ queue'[e] = <<>>
<1>1. CASE UNCHANGED vars \/ Control
  BY <1>1, ControlLeaves DEF vars, nodeVars, workerVars
<1>2. CASE ClearNode \/ ClearAllNodeQueues
  BY <1>2 DEF ClearNode, ClearAllNodeQueues, ClearQueues, TypeOK, NodeTypeOK
<1>3. CASE \/ InitializeAllNodes \/ InitializationFails \/ ResetCount \/ SetMode
           \/ AddActive \/ ResetNode \/ Enable \/ Wake \/ Wait \/ DisableCallbacks
           \/ RestoreMode \/ ClearCount \/ EndExecution
  BY <1>3
  DEF InitializeAllNodes, InitializationFails, ResetCount, SetMode, AddActive,
      ResetNode, Enable, Wake, Wait, DisableCallbacks, RestoreMode, ClearCount,
      EndExecution, nodeVars, workerVars
<1> QED BY <1>1, <1>2, <1>3 DEF Execute

(* The end of data is announced and not taken back by a worker. *)
LEMMA NoMoreGrows ==
  ASSUME TypeOK, NEW n \in Node, Worker(n), NEW m \in Node, noMore[m]
  PROVE  noMore'[m]
<1>1. CASE PollNext(n)
  BY <1>1 DEF PollNext, TypeOK, NodeTypeOK
<1>2. CASE Finish(n) \/ PollEnd(n)
  BY <1>2 DEF Finish, PollEnd, TypeOK, NodeTypeOK
<1>3. CASE ~PollNext(n) /\ ~Finish(n) /\ ~PollEnd(n)
  BY <1>3
  DEF Worker, NodeStep, DeregisterNode, Wakeup, Gate, TakeInput, NoInput,
      InvokeCallbacks, Push, PushDone, HasPollEvents, Poll, NoPoll, FinishCheck,
      FinishQueue, FinishMore, Decrement, Compare, SetStopping, flowVars
<1> QED BY <1>1, <1>2, <1>3

(* A worker changes queues by taking and pushing, and its source by polling.   *)
LEMMA WorkerData ==
  ASSUME NEW n \in Node, Worker(n)
  PROVE  /\ TakeInput(n) \/ Push(n) \/ queue' = queue
         /\ Poll(n) \/ left' = left
         /\ TakeInput(n) \/ Poll(n) \/ item' = item
BY DEF Worker, NodeStep, DeregisterNode, Wakeup, Gate, TakeInput, NoInput,
       InvokeCallbacks, Push, PushDone, HasPollEvents, Poll, NoPoll, PollNext,
       PollEnd, FinishCheck, FinishQueue, FinishMore, Finish, Decrement, Compare,
       SetStopping, flowVars

LEMMA TakeInputEffect ==
  ASSUME TypeOK, NEW n \in Node, TakeInput(n)
  PROVE  \E f \in Link :
           /\ f \in In(n) /\ queue[f] # <<>> /\ queue[f] \in Seq(Nat)
           /\ \A e \in In(n) : queue[e] # <<>> => Head(queue[f]) <= Head(queue[e])
           /\ item'[n] = Head(queue[f]) /\ queue'[f] = Tail(queue[f])
           /\ \A m \in Node : m # n => item'[m] = item[m]
           /\ \A e \in Link : e # f => queue'[e] = queue[e]
<1>1. PICK f \in Earliest(n) : /\ item' = [item EXCEPT ![n] = Head(queue[f])]
                               /\ queue' = [queue EXCEPT ![f] = Tail(@)]
  BY DEF TakeInput
<1>2. f \in Link /\ f \in In(n) /\ queue[f] # <<>> /\ queue[f] \in Seq(Nat)
  BY <1>1 DEF Earliest, In, TypeOK, NodeTypeOK
<1>3. \A e \in In(n) : queue[e] # <<>> => Head(queue[f]) <= Head(queue[e])
  BY <1>1 DEF Earliest
<1>4. item'[n] = Head(queue[f]) /\ \A m \in Node : m # n => item'[m] = item[m]
  BY <1>1 DEF TypeOK, NodeTypeOK
<1>5. queue'[f] = Tail(queue[f]) /\ \A e \in Link : e # f => queue'[e] = queue[e]
  BY <1>1, <1>2 DEF TypeOK, NodeTypeOK
<1> QED BY <1>2, <1>3, <1>4, <1>5

LEMMA PollEffect ==
  ASSUME TypeOK, PollHasData, NEW n \in Node, Poll(n)
  PROVE  /\ In(n) = {} /\ left[n] \in Seq(Nat) /\ left[n] # <<>>
         /\ item'[n] = Head(left[n]) /\ left'[n] = Tail(left[n])
         /\ \A m \in Node : m # n => item'[m] = item[m] /\ left'[m] = left[m]
         /\ queue' = queue
<1>1. poll[n] /\ wpc[n] = "pollLoop"
  BY DEF Poll, At
<1>2. In(n) = {} /\ left[n] # <<>> /\ left[n] \in Seq(Nat)
  BY <1>1 DEF PollHasData, TypeOK, NodeTypeOK
<1> QED BY <1>2 DEF Poll, TypeOK, NodeTypeOK

-------------------------------------------------------------------------------
(* Nobody stops the run, and it ends when all nodes are through.               *)

LEMMA NotStoppedNext ==
  ASSUME Undisturbed, TypeOK, PollHasData, StartsAlone, QuietSoFar, RestBefore,
         NotStopped, [Next]_vars
  PROVE  NotStopped'
<1> USE DEF CtlAt, ExecAt
<1>0. OneRun
  BY DEF Undisturbed
<1>s. stops' = 0
  <2>1. CASE UNCHANGED stops
    BY <2>1 DEF NotStopped
  <2>2. CASE Call
    <3>1. PICK op \in Calls : /\ op = "stop" => stops > 0
                             /\ stops' = IF op = "stop" THEN stops - 1 ELSE stops
      BY <2>2 DEF Call
    <3>2. op # "stop"
      BY <3>1 DEF NotStopped
    <3> QED BY <3>1, <3>2 DEF NotStopped
  <2>3. CASE Control /\ ~Call
    BY <2>1, <2>3 DEF Control, IsRunning, Stop, WaitForFinish, Join, Start
  <2>4. CASE Execute \/ WaitTimeout
    BY <2>1, <2>4
    DEF Execute, ClearNode, InitializeAllNodes, InitializationFails, ResetCount,
        SetMode, AddActive, ResetNode, Enable, Wake, Wait, WaitTimeout,
        DisableCallbacks, ClearAllNodeQueues, RestoreMode, ClearCount,
        EndExecution
  <2> QED BY <2>1, <2>2, <2>3, <2>4, WorkerLeaves DEF Next, vars
<1>1. CASE UNCHANGED vars
  BY <1>1 DEF vars, nodeVars, NotStopped, ToCome, Preparing
<1>2. CASE Control
  <2>1. item' = item
    BY <1>2, ControlLeaves DEF nodeVars
  <2>2. CASE Call
    <3>1. PICK op \in Calls :
            /\ op = "start" => starts > 0
            /\ op = "stop" => stops > 0
            /\ starts' = IF op = "start" THEN starts - 1 ELSE starts
            /\ ctl' = [op |-> op, pc |-> IF op = "wait" THEN "wait" ELSE "isRunning"]
      BY <2>2 DEF Call
    <3>2. starts \in {0, 1}
      BY <1>0, ExecutorAssumption DEF OneRun, TypeOK
    <3>3. op # "stop" /\ (op # "wait" => op = "start")
      BY <3>1, ExecutorAssumption DEF NotStopped
    <3>4. starts' = 1 \/ op = "start" => starts = 1
      BY <3>1, <3>2
    <3>5. /\ ctl'.op = op /\ ctl'.pc # "stop"
          /\ ctl'.pc = "isRunning" => op # "wait"
          /\ UNCHANGED <<state, exec>>
      BY <2>2, <3>1 DEF Call
    <3>6. ToCome' => ToCome
      BY <3>4, <3>5 DEF ToCome
    <3> QED BY <1>s, <2>1, <3>3, <3>5, <3>6 DEF NotStopped, Preparing
  <2>3. CASE IsRunning
    <3>1. /\ ctl' = [ctl EXCEPT !.pc = IF state # "Idle" THEN "stop" ELSE "join"]
          /\ ctl.pc = "isRunning" /\ UNCHANGED <<state, exec, starts>>
      BY <2>3 DEF IsRunning, CtlGoto
    <3>2. ctl.op = "start"
      BY <3>1 DEF NotStopped
    <3>3. ToCome /\ state = "Idle"
      BY <3>1, <3>2 DEF ToCome, NotStopped
    <3>4. ctl'.pc = "join" /\ ctl'.op = ctl.op
      BY <3>1, <3>3 DEF TypeOK
    <3> QED BY <1>s, <2>1, <3>1, <3>3, <3>4 DEF NotStopped, Preparing
  <2>4. CASE WaitForFinish \/ Join
    <3>1. /\ ctl'.op = ctl.op /\ ctl'.pc \in {"join", "start", "idle"}
          /\ ctl.pc # "idle" /\ UNCHANGED <<state, starts>>
          /\ exec'.pc \in {exec.pc, "none"}
      BY <2>4 DEF WaitForFinish, Join, CtlGoto, TypeOK
    <3>2. (ToCome' => ToCome) /\ (Preparing' => Preparing)
      BY <3>1 DEF ToCome, Preparing
    <3> QED BY <1>s, <2>1, <3>1, <3>2 DEF NotStopped
  <2>5. CASE Start
    <3>1. /\ ctl'.op = ctl.op /\ ctl'.pc = "idle" /\ ctl.pc = "start"
          /\ state' = "Starting" /\ starts' = starts
      BY <2>5 DEF Start, CtlGoto, TypeOK
    <3>2. ctl.op = "start" /\ starts = 0 /\ ToCome
      BY <3>1 DEF RestBefore, ToCome
    <3> QED BY <1>s, <2>1, <3>1, <3>2 DEF NotStopped, ToCome
  <2> QED BY <1>2, <2>2, <2>3, <2>4, <2>5 DEF Control, Stop, NotStopped
<1>3. CASE Execute \/ WaitTimeout
  <2>1. ~WaitTimeout
    BY <1>0 DEF WaitTimeout, OneRun
  <2>2. ~ToCome
    BY <1>3
    DEF Execute, ClearNode, InitializeAllNodes, InitializationFails, ResetCount,
        SetMode, AddActive, ResetNode, Enable, Wake, Wait, WaitTimeout,
        DisableCallbacks, ClearAllNodeQueues, RestoreMode, ClearCount,
        EndExecution, RestBefore
  <2>3. UNCHANGED <<ctl, starts, item>>
    BY <1>3
    DEF Execute, ClearNode, InitializeAllNodes, InitializationFails, ResetCount,
        SetMode, AddActive, ResetNode, Enable, Wake, Wait, WaitTimeout,
        DisableCallbacks, ClearAllNodeQueues, RestoreMode, ClearCount,
        EndExecution, nodeVars, workerVars
  <2>4. Preparing' => Preparing /\ state' = state
    <3>1. CASE \/ ClearNode \/ InitializeAllNodes \/ ResetCount \/ SetMode
               \/ AddActive \/ ResetNode
      BY <3>1
      DEF ClearNode, InitializeAllNodes, ResetCount, SetMode, AddActive, ResetNode,
          Preparing
    <3>2. CASE \/ InitializationFails \/ Enable \/ Wake \/ Wait \/ DisableCallbacks
               \/ ClearAllNodeQueues \/ RestoreMode \/ ClearCount \/ EndExecution
      BY <3>2
      DEF InitializationFails, Enable, Wake, Wait, DisableCallbacks,
          ClearAllNodeQueues, RestoreMode, ClearCount, EndExecution, ExecGoto,
          NextNode, TypeOK, Preparing
    <3> QED BY <1>3, <2>1, <3>1, <3>2 DEF Execute
  <2> QED BY <1>s, <2>2, <2>3, <2>4 DEF NotStopped, ToCome
<1>4. ASSUME NEW n \in Node, Worker(n) PROVE NotStopped'
  <2>1. ToCome \/ Preparing => UNCHANGED <<state, item>>
    BY <1>0, <1>4, WorkerBefore
  <2>2. UNCHANGED <<ctl, exec, starts>>
    BY <1>4, WorkerLeaves
  <2>3. (ToCome' <=> ToCome) /\ (Preparing' <=> Preparing)
    BY <2>2 DEF ToCome, Preparing
  <2> QED BY <1>s, <2>1, <2>2, <2>3 DEF NotStopped
<1> QED BY <1>1, <1>2, <1>3, <1>4 DEF Next

LEMMA FinishedWorker ==
  ASSUME TypeOK, PollHasData, NEW n \in Node, Worker(n), ModeTellsOf(n), FinishedOf(n)
  PROVE  FinishedOf(n)'
<1> USE DEF FinishedOf, At
<1>0. \A m \in Node : noMore[m] => noMore'[m]
  BY NoMoreGrows
<1>l. \A e \in In(n) : e[1] \in Node
  BY LinkFacts DEF In
<1>1. CASE DeregisterNode(n)
  <2>1. /\ UNCHANGED <<mode, noMore, todo>>
        /\ wpc'[n] \notin {"finishQueue", "finishMore", "pollLoop", "pollNext",
                           "pollEnd", "push"}
    BY <1>1
    DEF DeregisterNode, Decrement, Compare, SetStopping, Goto, AfterDeregister,
        flowVars, TypeOK, NodeTypeOK
  <2> QED BY <2>1
<1>2. CASE \/ Wakeup(n) \/ Gate(n) \/ TakeInput(n) \/ NoInput(n)
  <2>1. /\ UNCHANGED <<mode, noMore, todo>>
        /\ wpc'[n] \notin {"finishQueue", "finishMore", "pollLoop", "pollNext",
                           "pollEnd", "push"}
    BY <1>2
    DEF Wakeup, Gate, TakeInput, NoInput, Goto, flowVars, TypeOK, NodeTypeOK
  <2> QED BY <2>1
<1>3. CASE InvokeCallbacks(n) \/ PushDone(n) \/ Push(n)
  <2>0. AfterInvoke(n) # "push"
    BY DEF AfterInvoke
  <2>1. /\ UNCHANGED <<mode, noMore>>
        /\ wpc'[n] = "push" => wpc[n] = "push" \/ callbacks[n]
        /\ wpc'[n] \in {"push", AfterInvoke(n)}
    <3>1. CASE InvokeCallbacks(n)
      BY <3>1, <2>0 DEF InvokeCallbacks, Goto, flowVars, TypeOK, NodeTypeOK
    <3>2. CASE PushDone(n)
      BY <3>2, <2>0 DEF PushDone, Goto, flowVars, TypeOK, NodeTypeOK
    <3>3. CASE Push(n)
      BY <3>3 DEF Push
    <3> QED BY <1>3, <3>1, <3>2, <3>3
  <2>2. wpc'[n] = "push" => mode[n] = "POST_PROCESSING"
    BY <2>1 DEF ModeTellsOf
  <2> QED BY <2>1, <2>2 DEF AfterInvoke
<1>4. CASE HasPollEvents(n) \/ NoPoll(n) \/ Poll(n)
  <2>1. /\ UNCHANGED <<mode, noMore>>
        /\ wpc'[n] \notin {"finishQueue", "finishMore", "push"}
        /\ wpc'[n] \in {"pollLoop", "pollNext", "pollEnd"}
             => poll[n] \/ wpc[n] = "pollLoop"
    BY <1>4
    DEF HasPollEvents, NoPoll, Poll, Goto, flowVars, TypeOK, NodeTypeOK
  <2>2. poll[n] => In(n) = {}
    BY DEF PollHasData
  <2> QED BY <2>1, <2>2
<1>5. CASE PollNext(n)
  <2>1. UNCHANGED mode /\ wpc'[n] = "pollLoop" /\ wpc[n] = "pollNext"
    BY <1>5 DEF PollNext, Goto, TypeOK, NodeTypeOK
  <2> QED BY <1>0, <1>l, <2>1
<1>6. CASE PollEnd(n)
  <2>1. In(n) = {} /\ wpc'[n] = "deregister"
    BY <1>6 DEF PollEnd, Goto, TypeOK, NodeTypeOK
  <2> QED BY <2>1
<1>7. CASE FinishCheck(n)
  <2>1. /\ UNCHANGED <<mode, noMore>>
        /\ \/ wpc'[n] = "sleep"
           \/ wpc'[n] = "finishQueue" /\ todo'[n] = In(n)
    BY <1>7 DEF FinishCheck, Goto, flowVars, TypeOK, NodeTypeOK
  <2> QED BY <2>1
<1>8. CASE FinishQueue(n)
  <2>1. /\ UNCHANGED <<mode, noMore, todo>> /\ wpc[n] = "finishQueue"
        /\ wpc'[n] \in {"sleep", "finishMore"}
    BY <1>8 DEF FinishQueue, Goto, flowVars, TypeOK, NodeTypeOK
  <2> QED BY <2>1
<1>9. CASE FinishMore(n)
  <2>1. /\ UNCHANGED <<mode, noMore>> /\ wpc[n] = "finishMore"
        /\ \/ wpc'[n] = "sleep"
           \/ /\ wpc'[n] = "finishQueue"
              /\ \E e : noMore[e[1]] /\ todo'[n] = todo[n] \ {e}
    <3> DEFINE e == First(todo[n])
    <3> HIDE DEF e
    <3>1. /\ UNCHANGED <<mode, noMore>> /\ wpc[n] = "finishMore"
          /\ IF noMore[e[1]]
             THEN todo' = [todo EXCEPT ![n] = @ \ {e}] /\ Goto(n, "finishQueue")
             ELSE Goto(n, "sleep") /\ UNCHANGED todo
      BY <1>9 DEF FinishMore, flowVars, e
    <3>2. CASE noMore[e[1]]
      <4>1. todo'[n] = todo[n] \ {e} /\ wpc'[n] = "finishQueue"
        BY <3>1, <3>2 DEF Goto, TypeOK, NodeTypeOK
      <4> QED BY <3>1, <3>2, <4>1
    <3>3. CASE ~noMore[e[1]]
      BY <3>1, <3>3 DEF Goto, TypeOK, NodeTypeOK
    <3> QED BY <3>1, <3>2, <3>3
  <2> QED BY <2>1
<1>10. CASE Finish(n)
  <2>1. wpc'[n] = "deregister" /\ \A e \in In(n) : noMore[e[1]]
    BY <1>10 DEF Finish, Goto, TypeOK, NodeTypeOK
  <2> QED BY <1>0, <1>l, <2>1
<1> QED
  BY <1>1, <1>2, <1>3, <1>4, <1>5, <1>6, <1>7, <1>8, <1>9, <1>10
  DEF Worker, NodeStep

LEMMA FinishedNext ==
  ASSUME OneRun, TypeOK, PollHasData, StartsAlone, QuietSoFar, RestBefore,
         PreparedSoFar, ModeTells, NotStopped, Finished, [Next]_vars
  PROVE  Finished'
<1> SUFFICES ASSUME InRun', NEW m \in Node PROVE FinishedOf(m)'
  BY DEF Finished
<1>0. Flowing'
  BY DEF Flowing, InRun
<1>l. \A e \in In(m) : e[1] \in Node
  BY LinkFacts DEF In
<1>1. CASE Enable
  <2>1. ExecAt("enable") /\ state = "Starting"
    BY <1>1 DEF Enable, NotStopped, Preparing, ExecAt
  <2>2. mode[m] = "POST_PROCESSING" /\ mode' = mode
    BY <1>1, <2>1 DEF PreparedSoFar, Enable
  <2>3. /\ wpc'[m] \in PassPC /\ UNCHANGED <<wpc, todo>>
        /\ IdlePass(m)
    BY <1>1, FlowBegins
  <2> QED BY <2>2, <2>3 DEF FinishedOf, IdlePass, PassPC, At
<1>2. CASE ~Enable /\ (UNCHANGED vars \/ Control \/ Execute \/ WaitTimeout)
  <2>1. UNCHANGED <<mode, wpc, noMore, todo>> /\ InRun
    BY <1>0, <1>2, FlowGoesOn DEF InRun
  <2> QED BY <2>1 DEF Finished, FinishedOf, At
<1>3. ASSUME NEW n \in Node, Worker(n) PROVE FinishedOf(m)'
  <2>1. InRun /\ Flowing
    BY <1>3, WorkerLeaves DEF InRun, Flowing
  <2>2. \A k \in Node : FinishedOf(k) /\ ModeTellsOf(k)
    BY <2>1 DEF Finished, ModeTells
  <2>3. CASE m = n
    BY <1>3, <2>2, <2>3, FinishedWorker
  <2>4. CASE m # n
    <3>1. mode'[m] = mode[m] /\ wpc'[m] = wpc[m] /\ todo'[m] = todo[m]
      BY <1>3, <2>4, WorkerOwn
    <3>2. \A e \in In(m) : noMore[e[1]] => noMore'[e[1]]
      BY <1>3, <1>l, NoMoreGrows
    <3> QED BY <2>2, <3>1, <3>2 DEF FinishedOf, At
  <2> QED BY <2>3, <2>4
<1> QED BY <1>1, <1>2, <1>3 DEF Next, Execute

(* With callbacks off a worker does not start to send. *)
LEMMA WorkerSilent ==
  ASSUME TypeOK, NEW n \in Node, Worker(n), NEW m \in Node, ~callbacks[m],
         ~At(m, "push")
  PROVE  ~callbacks'[m] /\ ~At(m, "push")'
<1>1. ~callbacks'[m]
  BY WorkerQuiets
<1>2. CASE m # n
  BY <1>1, <1>2, WorkerOwn DEF At
<1>3. CASE m = n
  <2>1. CASE InvokeCallbacks(n) \/ PushDone(n)
    <3>1. Goto(n, AfterInvoke(n))
      BY <1>3, <2>1 DEF InvokeCallbacks, PushDone
    <3> QED BY <1>1, <1>3, <3>1 DEF Goto, AfterInvoke, At, TypeOK, NodeTypeOK
  <2>2. CASE Push(n)
    BY <1>3, <2>2 DEF Push
  <2>3. CASE \/ Wakeup(n) \/ Gate(n) \/ TakeInput(n) \/ NoInput(n)
             \/ HasPollEvents(n) \/ Poll(n) \/ NoPoll(n) \/ PollNext(n)
             \/ PollEnd(n)
    BY <1>1, <1>3, <2>3
    DEF Wakeup, Gate, TakeInput, NoInput, HasPollEvents, Poll, NoPoll, PollNext,
        PollEnd, Goto, At, TypeOK, NodeTypeOK
  <2>4. CASE FinishCheck(n) \/ FinishQueue(n) \/ FinishMore(n) \/ Finish(n)
    BY <1>1, <1>3, <2>4
    DEF FinishCheck, FinishQueue, FinishMore, Finish, Goto, At, TypeOK, NodeTypeOK
  <2>5. CASE DeregisterNode(n)
    BY <1>1, <1>3, <2>5
    DEF DeregisterNode, Decrement, Compare, SetStopping, AfterDeregister, Goto, At,
        TypeOK, NodeTypeOK
  <2> QED BY <2>1, <2>2, <2>3, <2>4, <2>5 DEF Worker, NodeStep
<1> QED BY <1>2, <1>3

(* Who finds the count at zero is the last: all nodes have finished. *)
LEMMA LastOne ==
  ASSUME TypeOK, ModeTells, CountExact, Finished, InRun, activeNodes = 0,
         NEW m \in Node
  PROVE  ~callbacks[m] /\ ~At(m, "push")
<1>1. 0 = Cardinality(Counted) + Cardinality(Leaving)
  BY DEF CountExact, Counting, Flowing, InRun, ExecAt
<1>2. Cardinality(Counted) = 0
  BY <1>1, CountedFinite
<1>3. Counted = {}
  BY <1>2, CountedFinite, FS_EmptySet
<1>4. mode[m] # "POST_PROCESSING"
  BY <1>3 DEF Counted
<1> QED BY <1>4 DEF ModeTells, ModeTellsOf, Flowing, InRun, Finished, FinishedOf

LEMMA SilentNext ==
  ASSUME OneRun, TypeOK, StartsAlone, QuietSoFar, RestBefore, PreparedSoFar,
         ModeTells, CountExact, NotStopped, Finished, Silent, [Next]_vars
  PROVE  Silent'
<1> SUFFICES ASSUME RunOver', NEW m \in Node PROVE ~callbacks'[m] /\ ~At(m, "push")'
  BY DEF Silent
<1> USE DEF At, ExecAt
<1>1. CASE RunOver
  <2>1. ~callbacks[m] /\ ~At(m, "push")
    BY <1>1 DEF Silent
  <2>2. CASE UNCHANGED <<callbacks, wpc>>
    BY <2>1, <2>2
  <2>3. CASE UNCHANGED vars \/ Control
    BY <2>2, <2>3, ControlLeaves DEF vars, nodeVars
  <2>4. CASE Enable
    <3>1. CASE state = "Starting"
      <4>1. state' = "Running" /\ exec'.pc = "wake"
        BY <2>4, <3>1 DEF Enable, ExecGoto
      <4>2. \A n \in Node : wpc'[n] \in PassPC
        BY <2>4, FlowBegins
      <4> QED BY <4>1, <4>2 DEF RunOver, InRun, PassPC
    <3>2. CASE state # "Starting"
      BY <2>2, <2>4, <3>2 DEF Enable, workerVars
    <3> QED BY <3>1, <3>2
  <2>5. CASE DisableCallbacks
    BY <2>1, <2>5 DEF DisableCallbacks, workerVars, TypeOK, NodeTypeOK
  <2>6. CASE Execute /\ ~Enable /\ ~DisableCallbacks
    <3>1. UNCHANGED <<callbacks, wpc>>
      BY <2>6
      DEF Execute, ClearNode, InitializeAllNodes, InitializationFails, ResetCount,
          SetMode, AddActive, ResetNode, Wake, Wait, ClearAllNodeQueues,
          RestoreMode, ClearCount, EndExecution, nodeVars, workerVars
    <3> QED BY <3>1, <2>2
  <2>7. CASE WaitTimeout
    BY <2>7 DEF WaitTimeout, OneRun
  <2>8. ASSUME NEW n \in Node, Worker(n) PROVE ~callbacks'[m] /\ ~At(m, "push")'
    BY <2>1, <2>8, WorkerSilent
  <2> QED BY <2>3, <2>4, <2>5, <2>6, <2>7, <2>8 DEF Next
<1>2. CASE ~RunOver
  <2>0. InRun /\ state # "Stopping" /\ \A n \in Node : wpc[n] # "lock"
    BY <1>2 DEF RunOver
  <2>1. CASE UNCHANGED vars
    BY <2>0, <2>1 DEF vars, nodeVars, RunOver, InRun
  <2>2. CASE Control
    <3>1. UNCHANGED <<exec, wpc>>
      BY <2>0, <2>2, ControlOutside, ControlLeaves DEF InRun, nodeVars
    <3>2. state' # "Stopping"
      BY <2>0, <2>2
      DEF Control, Call, IsRunning, Stop, WaitForFinish, Join, Start, NotStopped
    <3> QED BY <2>0, <3>1, <3>2 DEF RunOver, InRun
  <2>3. CASE Execute
    <3>1. Wake
      BY <2>0, <2>3
      DEF Execute, ClearNode, InitializeAllNodes, InitializationFails, ResetCount,
          SetMode, AddActive, ResetNode, Enable, Wait, DisableCallbacks,
          ClearAllNodeQueues, RestoreMode, ClearCount, EndExecution, InRun
    <3>2. InRun' /\ UNCHANGED <<state, wpc>>
      BY <3>1 DEF Wake, NextNode, InRun, workerVars, TypeOK
    <3> QED BY <2>0, <3>2 DEF RunOver
  <2>4. CASE WaitTimeout
    BY <2>4 DEF WaitTimeout, OneRun
  <2>5. ASSUME NEW n \in Node, Worker(n) PROVE ~callbacks'[m] /\ ~At(m, "push")'
    <3>1. CASE Compare(n) /\ activeNodes = 0
      <4>1. ~callbacks[m] /\ ~At(m, "push")
        BY <2>0, <3>1, LastOne
      <4> QED BY <2>5, <4>1, WorkerSilent
    <3>2. CASE ~(Compare(n) /\ activeNodes = 0)
      <4>1. state' = state /\ exec' = exec
        <5>1. ~SetStopping(n)
          BY <2>0 DEF SetStopping
        <5> QED BY <2>5, <5>1, WorkerLeaves
            DEF Worker, DeregisterNode, Decrement, Compare, execVars
      <4>2. wpc'[n] # "lock"
        <5>1. CASE DeregisterNode(n)
          BY <2>0, <3>2, <5>1
          DEF DeregisterNode, Decrement, Compare, SetStopping, Goto,
              AfterDeregister, TypeOK, NodeTypeOK
        <5>2. CASE \/ Wakeup(n) \/ Gate(n) \/ TakeInput(n) \/ NoInput(n)
                   \/ HasPollEvents(n) \/ Poll(n) \/ NoPoll(n) \/ PollNext(n)
                   \/ PollEnd(n) \/ FinishCheck(n)
          BY <5>2
          DEF Wakeup, Gate, TakeInput, NoInput, HasPollEvents, Poll, NoPoll,
              PollNext, PollEnd, FinishCheck, Goto, TypeOK, NodeTypeOK
        <5>3. CASE \/ InvokeCallbacks(n) \/ PushDone(n) \/ Push(n)
                   \/ FinishQueue(n) \/ FinishMore(n) \/ Finish(n)
          <6>1. AfterInvoke(n) # "lock"
            BY DEF AfterInvoke
          <6>2. CASE InvokeCallbacks(n) \/ FinishMore(n)
            <7>1. \E p \in {"push", AfterInvoke(n), "finishQueue", "sleep"} :
                    Goto(n, p)
              BY <6>2 DEF InvokeCallbacks, FinishMore
            <7> QED BY <6>1, <7>1 DEF Goto, TypeOK, NodeTypeOK
          <6>3. CASE PushDone(n) \/ Push(n) \/ FinishQueue(n) \/ Finish(n)
            BY <2>0, <6>1, <6>3
            DEF PushDone, Push, FinishQueue, Finish, Goto, TypeOK, NodeTypeOK
          <6> QED BY <5>3, <6>2, <6>3
        <5> QED BY <2>5, <5>1, <5>2, <5>3 DEF Worker, NodeStep
      <4>3. \A k \in Node : wpc'[k] # "lock"
        BY <2>0, <2>5, <4>2, WorkerOwn
      <4> QED BY <2>0, <4>1, <4>3 DEF RunOver, InRun
    <3> QED BY <3>1, <3>2
  <2> QED BY <2>1, <2>2, <2>3, <2>4, <2>5 DEF Next
<1> QED BY <1>1, <1>2

LEMMA ClearedNext ==
  ASSUME OneRun, TypeOK, StartsAlone, Silent, ClearedSoFar, [Next]_vars
  PROVE  ClearedSoFar'
<1> USE OrderFacts DEF ExecAt
<1>1. ASSUME exec' = exec,
             \A e \in Link : ~InRun /\ queue[e] = <<>> => queue'[e] = <<>>
      PROVE  ClearedSoFar'
  <2>1. \A i \in DOMAIN Order : In(Order[i]) \subseteq Link
    BY DEF In
  <2>2. \A i \in 1 .. exec.at - 1 : i \in DOMAIN Order
    BY DEF TypeOK
  <2>3. CASE exec.pc = "clearAll"
    BY <1>1, <2>1, <2>2, <2>3 DEF ClearedSoFar, InRun
  <2>4. CASE exec.pc # "clearAll"
    BY <1>1, <2>4 DEF ClearedSoFar, InRun
  <2> QED BY <2>3, <2>4
<1>2. ASSUME exec'.pc \in {"wake", "wait", "disable"} PROVE ClearedSoFar'
  BY <1>2 DEF ClearedSoFar
<1>3. ASSUME exec.pc \notin {"wake", "wait", "disable", "clearAll"},
             exec'.pc # "clearAll",
             \A e \in Link : queue'[e] = queue[e] \/ queue'[e] = <<>>
      PROVE  ClearedSoFar'
  BY <1>3 DEF ClearedSoFar
<1>4. CASE UNCHANGED vars
  BY <1>1, <1>4 DEF vars, nodeVars
<1>5. CASE Control
  <2>1. queue' = queue
    BY <1>5, ControlLeaves DEF nodeVars
  <2>2. CASE exec' = exec
    BY <2>1, <2>2, <1>1
  <2>3. CASE exec.pc \in {"none", "ended"} /\ exec'.pc \in {"none", "clear"}
    BY <2>1, <2>3, <1>3
  <2> QED BY <1>5, <2>2, <2>3, ControlOutside
<1>6. CASE Execute
  <2>1. \A e \in Link : queue'[e] = queue[e] \/ queue'[e] = <<>>
    BY <1>6, OthersLeave
  <2>2. CASE Enable \/ Wake \/ Wait
    <3>1. exec'.pc \in {"wake", "wait", "disable"}
      BY <2>2 DEF Enable, Wake, Wait, ExecGoto, NextNode, TypeOK
    <3> QED BY <3>1, <1>2
  <2>3. CASE DisableCallbacks
    <3>1. exec'.pc = "disable" \/ (exec'.pc = "clearAll" /\ exec'.at = 1)
      BY <2>3 DEF DisableCallbacks, NextNode, TypeOK
    <3> QED BY <3>1 DEF ClearedSoFar
  <2>4. CASE ClearAllNodeQueues
    <3>1. /\ exec.pc = "clearAll" /\ exec.at \in DOMAIN Order /\ Cur = Order[exec.at]
          /\ queue' = [e \in Link |-> IF e[2] = Cur THEN <<>> ELSE queue[e]]
      BY <2>4 DEF ClearAllNodeQueues, ClearQueues, Cur, TypeOK
    <3>2. ASSUME NEW i \in 1 .. exec.at, NEW e \in In(Order[i]) PROVE queue'[e] = <<>>
      <4>1. e \in Link /\ e[2] = Order[i]
        BY DEF In
      <4>2. CASE i = exec.at
        BY <3>1, <4>1, <4>2
      <4>3. CASE i # exec.at
        <5>1. i \in 1 .. exec.at - 1
          BY <3>1, <4>3
        <5>2. queue[e] = <<>>
          BY <3>1, <5>1 DEF ClearedSoFar
        <5> QED BY <3>1, <4>1, <5>2
      <4> QED BY <4>2, <4>3
    <3>3. CASE exec.at = Len(Order)
      <4>1. exec' = [pc |-> "restore", at |-> 1]
        BY <2>4, <3>3 DEF ClearAllNodeQueues, NextNode
      <4>2. ASSUME NEW e \in Link PROVE queue'[e] = <<>>
        <5>1. PICK i \in DOMAIN Order : Order[i] = e[2]
          BY LinkFacts, ExecutorAssumption
        <5>2. i \in 1 .. exec.at /\ e \in In(Order[i])
          BY <3>1, <3>3, <5>1, LinkFacts
        <5> QED BY <3>2, <5>2
      <4> QED BY <4>1, <4>2 DEF ClearedSoFar
    <3>4. CASE exec.at # Len(Order)
      <4>1. exec'.pc = "clearAll" /\ exec'.at = exec.at + 1
        BY <2>4, <3>1, <3>4 DEF ClearAllNodeQueues, NextNode, TypeOK
      <4>2. exec'.at - 1 = exec.at
        BY <3>1, <4>1
      <4> QED BY <3>2, <4>1, <4>2 DEF ClearedSoFar
    <3> QED BY <3>3, <3>4
  <2>5. CASE \/ ClearNode \/ InitializeAllNodes \/ InitializationFails \/ ResetCount
             \/ SetMode \/ AddActive \/ ResetNode \/ RestoreMode \/ ClearCount
             \/ EndExecution
    <3>1. exec.pc \notin {"wake", "wait", "disable", "clearAll"}
      BY <2>5
      DEF ClearNode, InitializeAllNodes, InitializationFails, ResetCount, SetMode,
          AddActive, ResetNode, RestoreMode, ClearCount, EndExecution
    <3>2. exec'.pc # "clearAll"
      BY <2>5
      DEF ClearNode, InitializeAllNodes, InitializationFails, ResetCount, SetMode,
          AddActive, ResetNode, RestoreMode, ClearCount, EndExecution, ExecGoto,
          NextNode, TypeOK
    <3> QED BY <2>1, <3>1, <3>2, <1>3
  <2> QED BY <1>6, <2>2, <2>3, <2>4, <2>5 DEF Execute
<1>7. CASE WaitTimeout
  BY <1>7 DEF WaitTimeout, OneRun
<1>8. ASSUME NEW n \in Node, Worker(n) PROVE ClearedSoFar'
  <2>1. exec' = exec
    BY <1>8, WorkerLeaves
  <2>2. ASSUME NEW e \in Link, ~InRun, queue[e] = <<>> PROVE queue'[e] = <<>>
    <3>1. ~Push(n)
      BY <2>2 DEF Silent, RunOver, Push
    <3>2. CASE TakeInput(n)
      BY <2>2, <3>2, TakeInputEffect
    <3> QED BY <1>8, <2>2, <3>1, <3>2, WorkerData
  <2> QED BY <2>1, <2>2, <1>1
<1> QED BY <1>4, <1>5, <1>6, <1>7, <1>8 DEF Next

-------------------------------------------------------------------------------
(* The order of time.                                                          *)

(* What a worker takes or reads is not before what it took last. *)
LEMMA ItemGrows ==
  ASSUME TypeOK, PollHasData, AllInOrder, NEW n \in Node, Worker(n)
  PROVE  /\ item[n] \in Nat /\ item'[n] \in Nat /\ item[n] <= item'[n]
         /\ \A m \in Node : m # n => item'[m] = item[m]
<1>0. item[n] \in Nat
  BY DEF TypeOK, NodeTypeOK
<1>1. CASE TakeInput(n)
  <2>1. PICK f \in Link :
          /\ f \in In(n) /\ queue[f] # <<>> /\ queue[f] \in Seq(Nat)
          /\ item'[n] = Head(queue[f])
          /\ \A m \in Node : m # n => item'[m] = item[m]
    BY <1>1, TakeInputEffect
  <2>2. /\ f[2] = n /\ 1 \in DOMAIN queue[f] /\ Head(queue[f]) = queue[f][1]
        /\ queue[f][1] \in Nat
    BY <2>1 DEF In
  <2>3. item[n] <= queue[f][1]
    BY <2>2 DEF AllInOrder, QueueInOrder
  <2> QED BY <1>0, <2>1, <2>2, <2>3
<1>2. CASE Poll(n)
  <2>1. /\ left[n] \in Seq(Nat) /\ left[n] # <<>> /\ item'[n] = Head(left[n])
        /\ \A m \in Node : m # n => item'[m] = item[m]
    BY <1>2, PollEffect
  <2>2. 1 \in DOMAIN left[n] /\ Head(left[n]) = left[n][1] /\ left[n][1] \in Nat
    BY <2>1
  <2>3. item[n] <= left[n][1]
    BY <2>2 DEF AllInOrder, LeftInOrder
  <2> QED BY <1>0, <2>1, <2>2, <2>3
<1>3. CASE item' = item
  BY <1>0, <1>3
<1> QED BY <1>1, <1>2, <1>3, WorkerData

LEMMA QueueInOrderWorker ==
  ASSUME TypeOK, PollHasData, SendersOpen, Silent, AllInOrder, NEW n \in Node,
         Worker(n), NEW e \in Link
  PROVE  QueueInOrder(e)'
<1>0. /\ QueueInOrder(e) /\ queue[e] \in Seq(Nat)
      /\ \A i \in DOMAIN queue[e] : queue[e][i] \in Nat
      /\ item[n] \in Nat /\ item[e[1]] \in Nat /\ item[e[2]] \in Nat
  BY LinkFacts DEF AllInOrder, TypeOK, NodeTypeOK
<1>1. /\ item'[n] \in Nat /\ item[n] <= item'[n]
      /\ \A m \in Node : m # n => item'[m] = item[m]
  BY ItemGrows
<1>2. e[1] \in Node /\ e[2] \in Node /\ e[1] # e[2]
  BY LinkFacts
<1>3. item[e[1]] <= item'[e[1]] /\ item'[e[1]] \in Nat
  BY <1>0, <1>1, <1>2
<1>4. CASE TakeInput(n)
  <2>1. PICK f \in Link :
          /\ f \in In(n) /\ queue[f] # <<>> /\ queue[f] \in Seq(Nat)
          /\ \A g \in In(n) : queue[g] # <<>> => Head(queue[f]) <= Head(queue[g])
          /\ item'[n] = Head(queue[f]) /\ queue'[f] = Tail(queue[f])
          /\ \A g \in Link : g # f => queue'[g] = queue[g]
    BY <1>4, TakeInputEffect
  <2>2. CASE e = f
    <3>1. e[2] = n /\ item'[e[2]] = Head(queue[e]) /\ queue'[e] = Tail(queue[e])
      BY <2>1, <2>2 DEF In
    <3>2. /\ InOrder(Tail(queue[e])) /\ Head(queue[e]) \in Nat
          /\ \A i \in DOMAIN queue[e] : Head(queue[e]) <= queue[e][i]
          /\ \A i \in DOMAIN Tail(queue[e]) :
               i + 1 \in DOMAIN queue[e] /\ Tail(queue[e])[i] = queue[e][i + 1]
      BY <1>0, <2>1, <2>2, OrderedTail DEF QueueInOrder
    <3>3. ASSUME NEW i \in DOMAIN queue'[e]
          PROVE  item'[e[2]] <= queue'[e][i] /\ queue'[e][i] <= item'[e[1]]
      <4>1. i + 1 \in DOMAIN queue[e] /\ queue'[e][i] = queue[e][i + 1]
        BY <3>1, <3>2
      <4>2. Head(queue[e]) <= queue[e][i + 1]
        BY <3>2, <4>1
      <4>3. queue[e][i + 1] <= item[e[1]] /\ queue[e][i + 1] \in Nat
        BY <1>0, <4>1 DEF QueueInOrder
      <4>4. item'[e[2]] <= queue[e][i + 1]
        BY <3>1, <4>2
      <4>5. queue[e][i + 1] <= item'[e[1]]
        BY <1>0, <1>3, <4>3
      <4> QED BY <4>1, <4>4, <4>5
    <3> QED BY <3>1, <3>2, <3>3 DEF QueueInOrder
  <2>3. CASE e # f
    <3>1. queue'[e] = queue[e]
      BY <2>1, <2>3
    <3>2. ASSUME NEW i \in DOMAIN queue[e]
          PROVE  item'[e[2]] <= queue[e][i] /\ queue[e][i] <= item'[e[1]]
      <4>1. /\ queue[e][i] <= item[e[1]] /\ item[e[2]] <= queue[e][i]
            /\ queue[e][i] \in Nat
        BY <1>0 DEF QueueInOrder
      <4>2. queue[e][i] <= item'[e[1]]
        BY <1>0, <1>3, <4>1
      <4>3. CASE e[2] = n
        <5>1. e \in In(n) /\ queue[e] # <<>>
          BY <4>3, LinkFacts
        <5>2. Head(queue[f]) <= Head(queue[e])
          BY <2>1, <5>1
        <5>3. Head(queue[e]) <= queue[e][i] /\ Head(queue[e]) \in Nat
          BY <1>0, <5>1, OrderedTail DEF QueueInOrder
        <5>4. item'[e[2]] = Head(queue[f]) /\ Head(queue[f]) \in Nat
          BY <1>1, <2>1, <4>3
        <5> QED BY <4>1, <4>2, <5>2, <5>3, <5>4
      <4>4. CASE e[2] # n
        BY <1>1, <1>2, <4>1, <4>2, <4>4
      <4> QED BY <4>3, <4>4
    <3> QED BY <1>0, <3>1, <3>2 DEF QueueInOrder
  <2> QED BY <2>2, <2>3
<1>5. CASE Push(n)
  <2>1. PICK f \in todo[n] : queue' = [queue EXCEPT ![f] = Append(@, item[n])]
    BY <1>5 DEF Push
  <2>2. item' = item /\ At(n, "push")
    BY <1>5 DEF Push
  <2>3. CASE e = f
    <3>1. InRun /\ SenderOpen(n)
      BY <2>2 DEF Silent, RunOver, SendersOpen, InRun
    <3>2. e[1] = n /\ ~noMore[n]
      BY <2>2, <2>3, <3>1, LinkFacts DEF SenderOpen, Out
    <3>3. item[e[2]] <= item[n]
      BY <3>1, <3>2 DEF AllInOrder, Behind
    <3>4. queue'[e] = Append(queue[e], item[n])
      BY <2>1, <2>3 DEF TypeOK, NodeTypeOK
    <3>5. /\ InOrder(Append(queue[e], item[n]))
          /\ \A i \in DOMAIN Append(queue[e], item[n]) :
               \/ Append(queue[e], item[n])[i] = item[n]
               \/ i \in DOMAIN queue[e] /\ Append(queue[e], item[n])[i] = queue[e][i]
      BY <1>0, <3>2, OrderedAppend DEF QueueInOrder
    <3>6. ASSUME NEW i \in DOMAIN queue'[e]
          PROVE  item'[e[2]] <= queue'[e][i] /\ queue'[e][i] <= item'[e[1]]
      <4>1. CASE queue'[e][i] = item[n]
        BY <1>0, <2>2, <3>2, <3>3, <4>1
      <4>2. CASE i \in DOMAIN queue[e] /\ queue'[e][i] = queue[e][i]
        BY <1>0, <2>2, <4>2 DEF QueueInOrder
      <4> QED BY <3>4, <3>5, <4>1, <4>2
    <3> QED BY <3>4, <3>5, <3>6 DEF QueueInOrder
  <2>4. CASE e # f
    <3>1. queue'[e] = queue[e]
      BY <2>1, <2>4 DEF TypeOK, NodeTypeOK
    <3> QED BY <1>0, <2>2, <3>1 DEF QueueInOrder
  <2> QED BY <2>3, <2>4
<1>6. CASE queue' = queue /\ ~TakeInput(n)
  <2>1. item'[e[2]] = item[e[2]]
    <3>1. CASE Poll(n)
      <4>1. In(n) = {} /\ e \in In(e[2])
        BY <3>1, PollEffect, LinkFacts
      <4> QED BY <1>1, <1>2, <4>1
    <3> QED BY <1>6, <3>1, WorkerData
  <2>2. \A i \in DOMAIN queue[e] : queue[e][i] <= item'[e[1]]
    BY <1>0, <1>3 DEF QueueInOrder
  <2> QED BY <1>0, <1>6, <2>1, <2>2 DEF QueueInOrder
<1> QED BY <1>4, <1>5, <1>6, WorkerData

LEMMA LeftInOrderWorker ==
  ASSUME TypeOK, PollHasData, AllInOrder, NEW n \in Node, Worker(n), NEW m \in Node
  PROVE  LeftInOrder(m)'
<1>0. LeftInOrder(m) /\ left[m] \in Seq(Nat)
  BY DEF AllInOrder, TypeOK, NodeTypeOK
<1>1. CASE Poll(n)
  <2>1. /\ left[n] \in Seq(Nat) /\ left[n] # <<>>
        /\ item'[n] = Head(left[n]) /\ left'[n] = Tail(left[n])
        /\ \A k \in Node : k # n => item'[k] = item[k] /\ left'[k] = left[k]
    BY <1>1, PollEffect
  <2>2. CASE m = n
    <3>1. /\ InOrder(Tail(left[n]))
          /\ \A i \in DOMAIN left[n] : Head(left[n]) <= left[n][i]
          /\ \A i \in DOMAIN Tail(left[n]) :
               i + 1 \in DOMAIN left[n] /\ Tail(left[n])[i] = left[n][i + 1]
      BY <1>0, <2>1, <2>2, OrderedTail DEF LeftInOrder
    <3> QED BY <2>1, <2>2, <3>1 DEF LeftInOrder
  <2>3. CASE m # n
    BY <1>0, <2>1, <2>3 DEF LeftInOrder
  <2> QED BY <2>2, <2>3
<1>2. CASE TakeInput(n)
  <2>1. In(n) # {} /\ left' = left
    BY <1>2 DEF TakeInput, MayTake
  <2>2. CASE m = n
    <3>1. left[m] = <<>>
      BY <2>1, <2>2 DEF PollHasData
    <3>2. DOMAIN left'[m] = {}
      BY <2>1, <3>1
    <3> QED BY <3>2 DEF LeftInOrder, InOrder
  <2>3. CASE m # n
    <3>1. item'[m] = item[m]
      BY <2>3, ItemGrows
    <3> QED BY <1>0, <2>1, <3>1 DEF LeftInOrder
  <2> QED BY <2>2, <2>3
<1>3. CASE left' = left /\ item' = item
  BY <1>0, <1>3 DEF LeftInOrder
<1> QED BY <1>1, <1>2, <1>3, WorkerData

LEMMA BehindWorker ==
  ASSUME TypeOK, PollHasData, Finished, AllInOrder, NEW n \in Node, Worker(n), InRun,
         NEW e \in Link
  PROVE  noMore'[e[1]] \/ item'[e[2]] <= item'[e[1]]
<1>1. e[1] \in Node /\ e[2] \in Node /\ e[1] # e[2]
  BY LinkFacts
<1>2. SUFFICES ASSUME ~noMore[e[1]] PROVE item'[e[2]] <= item'[e[1]]
  BY <1>1, NoMoreGrows
<1>3. item[e[2]] <= item[e[1]] /\ item[e[1]] \in Nat /\ item[e[2]] \in Nat
  BY <1>1, <1>2 DEF AllInOrder, Behind, TypeOK, NodeTypeOK
<1>4. /\ item'[n] \in Nat /\ item[n] <= item'[n] /\ item[n] \in Nat
      /\ \A m \in Node : m # n => item'[m] = item[m]
  BY ItemGrows
<1>5. CASE e[2] # n
  BY <1>1, <1>3, <1>4, <1>5
<1>6. CASE e[2] = n
  <2>0. e \in In(n) /\ item'[e[1]] = item[e[1]]
    BY <1>1, <1>4, <1>6, LinkFacts
  <2>1. CASE TakeInput(n)
    <3>1. mode[n] = "POST_PROCESSING"
      BY <1>2, <2>0 DEF Finished, FinishedOf, TypeOK, NodeTypeOK
    <3>2. queue[e] # <<>>
      BY <1>2, <2>0, <2>1, <3>1 DEF TakeInput, MayTake, AllPinsHaveData
    <3>3. queue[e] \in Seq(Nat) /\ 1 \in DOMAIN queue[e] /\ Head(queue[e]) = queue[e][1]
      BY <3>2 DEF TypeOK, NodeTypeOK
    <3>4. queue[e][1] <= item[e[1]] /\ queue[e][1] \in Nat
      BY <3>3 DEF AllInOrder, QueueInOrder
    <3>5. item'[n] <= Head(queue[e])
      BY <2>0, <2>1, <3>2, TakeInputEffect
    <3> QED BY <1>3, <1>4, <1>6, <2>0, <3>3, <3>4, <3>5
  <2>2. CASE Poll(n)
    BY <2>0, <2>2, PollEffect
  <2>3. CASE item' = item
    BY <1>3, <2>3
  <2> QED BY <2>1, <2>2, <2>3, WorkerData
<1> QED BY <1>5, <1>6

LEMMA AllInOrderNext ==
  ASSUME OneRun, DataInTime, TypeOK, PollHasData, StartsAlone, QuietSoFar,
         RestBefore, PreparedSoFar, SendersOpen, NotStopped, Finished, Silent,
         AllInOrder, [Next]_vars
  PROVE  AllInOrder'
<1>1. CASE UNCHANGED vars \/ Control \/ Execute
  <2>1. item' = item /\ \A e \in Link : queue'[e] = queue[e] \/ queue'[e] = <<>>
    BY <1>1, OthersLeave DEF workerVars
  <2>2. ASSUME NEW e \in Link PROVE QueueInOrder(e)'
    <3>1. CASE queue'[e] = queue[e]
      BY <2>1, <3>1 DEF AllInOrder, QueueInOrder
    <3>2. CASE queue'[e] = <<>>
      <4>1. DOMAIN queue'[e] = {}
        BY <3>2
      <4> QED BY <4>1 DEF QueueInOrder, InOrder
    <3> QED BY <2>1, <3>1, <3>2
  <2>3. ASSUME NEW n \in Node PROVE LeftInOrder(n)'
    <3>1. CASE ResetNode
      <4>1. left' = [left EXCEPT ![Cur] = Data[Cur]] /\ item[n] = 0
        BY <3>1 DEF ResetNode, NotStopped, Preparing, ExecAt
      <4>2. CASE n = Cur
        <5>1. left'[n] = Data[n] /\ item'[n] = 0
          BY <2>1, <4>1, <4>2 DEF TypeOK, NodeTypeOK
        <5>2. InOrder(Data[n]) /\ Data[n] \in Seq(Nat)
          BY FlowAssumption DEF DataInTime
        <5>3. \A i \in DOMAIN Data[n] : Data[n][i] \in Nat
          BY <5>2
        <5> QED BY <5>1, <5>2, <5>3 DEF LeftInOrder
      <4>3. CASE n # Cur
        <5>1. left'[n] = left[n]
          BY <4>1, <4>3 DEF TypeOK, NodeTypeOK
        <5> QED BY <2>1, <5>1 DEF AllInOrder, LeftInOrder
      <4> QED BY <4>2, <4>3
    <3>2. CASE ~ResetNode
      <4>1. left' = left
        BY <1>1, <3>2, ControlLeaves
        DEF vars, Execute, ClearNode, InitializeAllNodes, InitializationFails,
            ResetCount, SetMode, AddActive, Enable, Wake, Wait, DisableCallbacks,
            ClearAllNodeQueues, RestoreMode, ClearCount, EndExecution, nodeVars
      <4> QED BY <2>1, <4>1 DEF AllInOrder, LeftInOrder
    <3> QED BY <3>1, <3>2
  <2>4. Behind'
    <3> SUFFICES ASSUME InRun', NEW e \in Link
                 PROVE  noMore'[e[1]] \/ item'[e[2]] <= item'[e[1]]
      BY DEF Behind
    <3>1. CASE Enable
      <4>1. item[e[1]] = 0 /\ item[e[2]] = 0
        BY <3>1, LinkFacts DEF Enable, ExecAt, Preparing, NotStopped
      <4> QED BY <2>1, <4>1
    <3>2. CASE ~Enable
      <4>1. InRun /\ noMore' = noMore
        BY <1>1, <3>2, FlowGoesOn DEF Flowing, InRun
      <4> QED BY <2>1, <4>1 DEF AllInOrder, Behind
    <3> QED BY <3>1, <3>2
  <2> QED BY <2>2, <2>3, <2>4 DEF AllInOrder
<1>2. CASE WaitTimeout
  BY <1>2 DEF WaitTimeout, OneRun
<1>3. ASSUME NEW n \in Node, Worker(n) PROVE AllInOrder'
  <2>1. \A e \in Link : QueueInOrder(e)'
    BY <1>3, QueueInOrderWorker
  <2>2. \A m \in Node : LeftInOrder(m)'
    BY <1>3, LeftInOrderWorker
  <2>3. InRun' => InRun
    BY <1>3, WorkerLeaves DEF InRun
  <2>4. InRun => \A e \in Link : noMore'[e[1]] \/ item'[e[2]] <= item'[e[1]]
    BY <1>3, BehindWorker
  <2> QED BY <2>1, <2>2, <2>3, <2>4 DEF AllInOrder, Behind
<1> QED BY <1>1, <1>2, <1>3 DEF Next

-------------------------------------------------------------------------------
(* Data files are read to their end.                                           *)

LEMMA FilesPreparedNext ==
  ASSUME Undisturbed, TypeOK, PollHasData, StartsAlone, QuietSoFar, RestBefore,
         NotStopped, FilesPrepared, [Next]_vars
  PROVE  FilesPrepared'
<1> USE OrderFacts DEF ExecAt
<1>0. OneRun
  BY DEF Undisturbed
<1>1. ASSUME UNCHANGED <<left, poll, exec>> PROVE FilesPrepared'
  BY <1>1 DEF FilesPrepared, FileReady
<1>2. ASSUME exec'.pc \notin {"mode", "add", "reset", "enable"} PROVE FilesPrepared'
  BY <1>2 DEF FilesPrepared
<1>3. CASE UNCHANGED vars
  BY <1>1, <1>3 DEF vars, nodeVars
<1>4. CASE Control
  <2>1. UNCHANGED <<left, poll>>
    BY <1>4, ControlLeaves DEF nodeVars
  <2> QED BY <1>1, <1>2, <1>4, <2>1, ControlOutside
<1>5. CASE Execute \/ WaitTimeout
  <2>1. Cur \in Node /\ exec.at \in DOMAIN Order
    BY DEF Cur, TypeOK
  <2>2. CASE ResetCount
    <3>1. exec'.pc = "mode" /\ exec'.at = 1
      BY <2>2 DEF ResetCount, ExecGoto
    <3> QED BY <3>1 DEF FilesPrepared
  <2>3. CASE SetMode \/ AddActive
    <3>1. /\ UNCHANGED <<left, poll>> /\ exec'.at = exec.at
          /\ exec.pc \in {"mode", "add"} /\ exec'.pc \in {"mode", "add", "reset"}
      BY <2>3
      DEF SetMode, AddActive, nodeVars, TypeOK, NotStopped, Preparing, RestBefore
    <3> QED BY <3>1 DEF FilesPrepared, FileReady
  <2>4. CASE ResetNode
    <3>1. /\ exec.pc = "reset"
          /\ left' = [left EXCEPT ![Cur] = Data[Cur]]
          /\ poll' = [poll EXCEPT ![Cur] = Data[Cur] # <<>> /\ Out(Cur) # {}]
      BY <2>4 DEF ResetNode
    <3>2. ASSUME NEW i \in 1 .. exec.at PROVE FileReady(Order[i])'
      <4>1. CASE i = exec.at
        BY <2>1, <3>1, <4>1 DEF Cur, FileReady, HasFile, TypeOK, NodeTypeOK
      <4>2. CASE i # exec.at
        <5>1. Order[i] # Cur /\ Order[i] \in Node
          BY <2>1, <4>2, ExecutorAssumption DEF Cur
        <5>2. i \in 1 .. exec.at - 1
          BY <2>1, <4>2
        <5>3. FileReady(Order[i])
          BY <3>1, <5>2 DEF FilesPrepared
        <5>4. left'[Order[i]] = left[Order[i]] /\ poll'[Order[i]] = poll[Order[i]]
          BY <3>1, <5>1 DEF TypeOK, NodeTypeOK
        <5> QED BY <5>3, <5>4 DEF FileReady
      <4> QED BY <4>1, <4>2
    <3>3. CASE exec.at = Len(Order)
      <4>1. exec'.pc = "enable"
        BY <2>4, <3>3 DEF ResetNode, ExecGoto
      <4>2. \A n \in Node : FileReady(n)'
        <5> SUFFICES ASSUME NEW n \in Node PROVE FileReady(n)'
          OBVIOUS
        <5>1. PICK i \in DOMAIN Order : Order[i] = n
          BY ExecutorAssumption
        <5> QED BY <3>2, <3>3, <5>1
      <4> QED BY <4>1, <4>2 DEF FilesPrepared
    <3>4. CASE exec.at # Len(Order)
      <4>1. exec'.pc = "mode" /\ exec'.at - 1 = exec.at
        BY <2>1, <2>4, <3>4 DEF ResetNode
      <4> QED BY <3>2, <4>1 DEF FilesPrepared
    <3> QED BY <3>3, <3>4
  <2>5. CASE \/ ClearNode \/ InitializeAllNodes \/ InitializationFails \/ Enable
             \/ Wake \/ Wait \/ WaitTimeout \/ DisableCallbacks
             \/ ClearAllNodeQueues \/ RestoreMode \/ ClearCount \/ EndExecution
    <3>1. exec'.pc \notin {"mode", "add", "reset", "enable"}
      BY <2>5
      DEF ClearNode, InitializeAllNodes, InitializationFails, Enable, Wake, Wait,
          WaitTimeout, DisableCallbacks, ClearAllNodeQueues, RestoreMode,
          ClearCount, EndExecution, ExecGoto, NextNode, TypeOK
    <3> QED BY <3>1, <1>2
  <2> QED BY <1>5, <2>2, <2>3, <2>4, <2>5 DEF Execute
<1>6. ASSUME NEW n \in Node, Worker(n) PROVE FilesPrepared'
  <2>1. exec' = exec /\ (Preparing => UNCHANGED <<left, poll>>)
    BY <1>0, <1>6, WorkerBefore, WorkerLeaves
  <2>2. CASE Preparing
    BY <1>1, <2>1, <2>2
  <2>3. CASE ~Preparing
    BY <1>2, <2>1, <2>3 DEF Preparing
  <2> QED BY <2>2, <2>3
<1> QED BY <1>3, <1>4, <1>5, <1>6 DEF Next

(* Taking the first of some items leaves the same one last. *)
LEMMA LastOfTail ==
  ASSUME NEW s \in Seq(Nat), s # <<>>
  PROVE  /\ Tail(s) = <<>> => Head(s) = Last(s)
         /\ Tail(s) # <<>> => Last(Tail(s)) = Last(s)
<1>1. /\ Len(s) \in Nat \ {0} /\ Head(s) = s[1]
      /\ Tail(s) \in Seq(Nat) /\ Len(Tail(s)) = Len(s) - 1
  OBVIOUS
<1>e. \A t \in Seq(Nat) : t = <<>> <=> Len(t) = 0
  OBVIOUS
<1>2. CASE Len(s) = 1
  <2>1. Tail(s) = <<>>
    <3>1. Len(Tail(s)) = 0
      BY <1>1, <1>2
    <3> QED BY <1>1, <1>e, <3>1, Zenon
  <2> QED BY <1>1, <1>2, <2>1 DEF Last
<1>3. CASE Len(s) # 1
  <2>1. Tail(s) # <<>>
    <3>1. Len(Tail(s)) # 0
      BY <1>1, <1>3
    <3> QED BY <1>1, <1>e, <3>1, Zenon
  <2>2. Tail(s)[Len(s) - 1] = s[Len(s)]
    BY <1>1, <1>3, SMT
  <2> QED BY <1>1, <2>1, <2>2 DEF Last
<1> QED BY <1>2, <1>3

(* A worker reads its own file in this way. *)
LEMMA FileReadWorker ==
  ASSUME TypeOK, PollHasData, NEW n \in Node, Worker(n), HasFile(n), ModeTellsOf(n),
         FileRead(n)
  PROVE  FileRead(n)'
<1> USE DEF At
<1>0. In(n) = {}
  BY FlowAssumption DEF HasFile, In
<1>1. CASE Poll(n)
  <2>1. /\ left[n] \in Seq(Nat) /\ left[n] # <<>>
        /\ item'[n] = Head(left[n]) /\ left'[n] = Tail(left[n])
    BY <1>1, PollEffect
  <2>2. /\ UNCHANGED <<mode, callbacks, poll>> /\ poll[n] /\ callbacks[n]
        /\ wpc'[n] = "invoke" /\ mode[n] = "POST_PROCESSING"
    BY <1>1 DEF Poll, Goto, ModeTellsOf, TypeOK, NodeTypeOK
  <2>3. Last(left[n]) = Last(Data[n])
    BY <2>1 DEF FileRead
  <2>4. left'[n] = <<>> \/ Last(left'[n]) = Last(Data[n])
    BY <2>1, <2>3, LastOfTail
  <2>5. left'[n] = <<>> => item'[n] = Last(Data[n])
    BY <2>1, <2>3, LastOfTail
  <2> QED BY <2>2, <2>4, <2>5 DEF FileRead, ReadToEnd
<1>2. CASE ~Poll(n)
  <2>1. ~TakeInput(n)
    BY <1>0 DEF TakeInput, MayTake
  <2>2. left' = left /\ item' = item
    BY <1>2, <2>1, WorkerData
  <2>3. /\ mode'[n] = "POST_PROCESSING" => callbacks'[n]
        /\ mode'[n] = "REAL_TIME" => left[n] = <<>>
        /\ poll'[n] \/ left[n] = <<>>
        /\ wpc'[n] \in ReadToEnd => left[n] = <<>>
    <3>1. CASE DeregisterNode(n)
      BY <3>1
      DEF DeregisterNode, Decrement, Compare, SetStopping, flowVars, FileRead,
          ReadToEnd
    <3>2. CASE Wakeup(n) \/ NoInput(n) \/ HasPollEvents(n) \/ NoPoll(n)
      BY <3>2
      DEF Wakeup, NoInput, HasPollEvents, NoPoll, Goto, flowVars, FileRead,
          ReadToEnd, TypeOK, NodeTypeOK
    <3>3. CASE Gate(n)
      <4>1. UNCHANGED <<mode, callbacks, poll>> /\ wpc'[n] = "poll"
        BY <1>0, <3>3
        DEF Gate, Active, Goto, flowVars, FileRead, TypeOK, NodeTypeOK
      <4> QED BY <4>1 DEF FileRead, ReadToEnd
    <3>4. CASE InvokeCallbacks(n) \/ PushDone(n) \/ Push(n)
      <4>1. /\ UNCHANGED <<mode, callbacks, poll>>
            /\ wpc'[n] \in {"push", "pollNext"}
        BY <1>0, <3>4
        DEF InvokeCallbacks, PushDone, Push, AfterInvoke, Goto, flowVars, TypeOK,
            NodeTypeOK
      <4> QED BY <4>1 DEF FileRead, ReadToEnd
    <3>5. CASE PollNext(n)
      <4>1. /\ UNCHANGED <<mode, callbacks>> /\ wpc'[n] = "pollLoop"
            /\ poll'[n] = (left[n] # <<>>)
        BY <3>5 DEF PollNext, Goto, TypeOK, NodeTypeOK
      <4> QED BY <4>1 DEF FileRead, ReadToEnd
    <3>6. CASE PollEnd(n) \/ Finish(n)
      <4>1. /\ wpc[n] \in ReadToEnd /\ mode'[n] = "REAL_TIME"
        BY <3>6 DEF PollEnd, Finish, ReadToEnd, TypeOK, NodeTypeOK
      <4> QED BY <4>1 DEF FileRead
    <3>7. CASE FinishCheck(n) \/ FinishQueue(n) \/ FinishMore(n)
      <4>1. /\ UNCHANGED <<mode, callbacks, poll>> /\ wpc[n] \in ReadToEnd
        BY <3>7 DEF FinishCheck, FinishQueue, FinishMore, flowVars, ReadToEnd
      <4> QED BY <4>1 DEF FileRead
    <3> QED
      BY <1>2, <2>1, <3>1, <3>2, <3>3, <3>4, <3>5, <3>6, <3>7 DEF Worker, NodeStep
  <2> QED BY <2>2, <2>3 DEF FileRead
<1> QED BY <1>1, <1>2

LEMMA FilesReadNext ==
  ASSUME Undisturbed, TypeOK, PollHasData, StartsAlone, QuietSoFar, RestBefore,
         PreparedSoFar, ModeTells, NotStopped, FilesPrepared, FilesRead, [Next]_vars
  PROVE  FilesRead'
<1> SUFFICES ASSUME InRun', NEW m \in Node, HasFile(m) PROVE FileRead(m)'
  BY DEF FilesRead, HasFile
<1>0. Flowing' /\ OneRun
  BY DEF Flowing, InRun, Undisturbed
<1>1. CASE Enable
  <2>1. ExecAt("enable") /\ state = "Starting"
    BY <1>1 DEF Enable, NotStopped, Preparing, ExecAt
  <2>2. /\ mode[m] = "POST_PROCESSING" /\ callbacks'[m]
        /\ UNCHANGED <<mode, poll, left, wpc>>
    BY <1>1, <2>1 DEF PreparedSoFar, Enable, workerVars
  <2>3. poll[m] /\ left[m] = Data[m] /\ Data[m] # <<>>
    BY <2>1 DEF FilesPrepared, FileReady, HasFile
  <2>4. wpc[m] = "sleep"
    <3>1. In(m) = {}
      BY FlowAssumption DEF HasFile, In
    <3>2. m \notin Woken
      BY <1>0, <3>1 DEF OneRun, WokenBehind
    <3> QED BY <2>1, <3>2 DEF RestBefore, Preparing, ExecAt, IdlePass, At
  <2> QED BY <2>2, <2>3, <2>4 DEF FileRead, ReadToEnd
<1>2. CASE ~Enable /\ (UNCHANGED vars \/ Control \/ Execute \/ WaitTimeout)
  <2>1. UNCHANGED <<mode, wpc, poll>> /\ InRun
    BY <1>0, <1>2, FlowGoesOn DEF InRun
  <2>2. UNCHANGED <<callbacks, left, item>>
    BY <1>2, <1>0, <2>1, ControlLeaves
    DEF vars, nodeVars, workerVars, InRun, Execute, ClearNode, InitializeAllNodes,
        InitializationFails, ResetCount, SetMode, AddActive, ResetNode, Wake, Wait,
        DisableCallbacks, ClearAllNodeQueues, RestoreMode, ClearCount,
        EndExecution, WaitTimeout, OneRun, ExecAt
  <2> QED BY <2>1, <2>2 DEF FilesRead, FileRead
<1>3. ASSUME NEW n \in Node, Worker(n) PROVE FileRead(m)'
  <2>1. InRun /\ Flowing
    BY <1>3, WorkerLeaves DEF InRun, Flowing
  <2>2. FileRead(m) /\ ModeTellsOf(m)
    BY <2>1 DEF FilesRead, ModeTells
  <2>3. CASE m = n
    BY <1>3, <2>2, <2>3, FileReadWorker
  <2>4. CASE m # n
    <3>1. /\ mode'[m] = mode[m] /\ wpc'[m] = wpc[m] /\ poll'[m] = poll[m]
          /\ callbacks'[m] = callbacks[m]
      BY <1>3, <2>4, WorkerOwn
    <3>2. left'[m] = left[m] /\ item'[m] = item[m]
      BY <1>3, <2>4, WorkerData DEF TakeInput, Poll, TypeOK, NodeTypeOK
    <3> QED BY <2>2, <3>1, <3>2 DEF FileRead
  <2> QED BY <2>3, <2>4
<1> QED BY <1>1, <1>2, <1>3 DEF Next, Execute

-------------------------------------------------------------------------------
(* The theorems.                                                               *)

LEMMA DataInvariance == Undisturbed => (Spec => []DataInv)
<1> SUFFICES ASSUME Undisturbed PROVE Spec => []DataInv
  OBVIOUS
<1>1. Init => DataInv
  <2> SUFFICES ASSUME Init PROVE DataInv
    OBVIOUS
  <2>1. /\ exec.pc = "none" /\ ctl.pc = "idle" /\ ctl.op = "none" /\ state = "Idle"
        /\ stops = 0
    BY DEF Init, Undisturbed
  <2>2. \A n \in Node : item[n] = 0 /\ ~callbacks[n] /\ wpc[n] = "sleep"
    BY DEF Init, NodeInit
  <2>3. \A e \in Link : queue[e] = <<>>
    BY DEF Init, NodeInit
  <2>4. NotStopped
    BY <2>1, <2>2 DEF NotStopped, CtlAt, Preparing
  <2> QED
    BY <2>1, <2>2, <2>3, <2>4
    DEF DataInv, Finished, InRun, Silent, ClearedSoFar, ExecAt, At
<1>2. TypeInv /\ StartsAlone /\ QuietSoFar /\ RunInv /\ DataInv /\ [Next]_vars
        => DataInv'
  BY NotStoppedNext, FinishedNext, SilentNext, ClearedNext
  DEF RunInv, TypeInv, DataInv, Undisturbed
<1>3. Spec => []RunInv
  BY RunInvariance DEF Undisturbed
<1> QED BY <1>1, <1>2, <1>3, TypeInvariance, QuietInvariance, PTL DEF Spec

(* When a run in post-processing has ended by itself no data is left in the     *)
(* queues, for any flow and any data: after the last node is through nobody     *)
(* sends any more, so that what has been cleared stays so.                     *)
THEOREM NothingLeft == Undisturbed => (Spec => []NoDataLeft)
<1> SUFFICES ASSUME Undisturbed PROVE Spec => []NoDataLeft
  OBVIOUS
<1>1. DataInv => NoDataLeft
  BY DEF DataInv, ClearedSoFar, NoDataLeft, Executing
<1> QED BY <1>1, DataInvariance, PTL

(* No node finishes before those it takes data from, nor before its file has    *)
(* been read to the end, for any flow: workers that the initialization has     *)
(* woken and that pass while modes are set, one node after the other, find     *)
(* nothing to finish as long as no node stands before one it takes data from.  *)
THEOREM FinishInTurn == Undisturbed => (Spec => []FinishedInTurn)
<1> SUFFICES ASSUME Undisturbed PROVE Spec => []FinishedInTurn
  OBVIOUS
<1>1. Init => FileInv
  <2> SUFFICES ASSUME Init PROVE FileInv
    OBVIOUS
  <2>1. exec.pc = "none"
    BY DEF Init
  <2> QED BY <2>1 DEF FileInv, FilesPrepared, FilesRead, InRun, ExecAt
<1>2. /\ TypeInv /\ StartsAlone /\ QuietSoFar /\ RunInv /\ DataInv /\ FileInv
      /\ [Next]_vars
      => FileInv'
  BY FilesPreparedNext, FilesReadNext DEF RunInv, TypeInv, DataInv, FileInv
<1>3. DataInv /\ FileInv => FinishedInTurn
  <2> SUFFICES ASSUME DataInv, FileInv, InRun, NEW n \in Node, mode[n] = "REAL_TIME"
               PROVE  /\ \A e \in In(n) : noMore[e[1]]
                      /\ Out(n) # {} /\ Data[n] # <<>>
                           => item[n] = Data[n][Len(Data[n])]
    BY DEF FinishedInTurn, InRun
  <2>1. \A e \in In(n) : noMore[e[1]]
    BY DEF DataInv, Finished, FinishedOf
  <2>2. HasFile(n) => item[n] = Last(Data[n])
    BY DEF FileInv, FilesRead, FileRead
  <2> QED BY <2>1, <2>2 DEF HasFile, Last
<1>4. Spec => []RunInv
  BY RunInvariance DEF Undisturbed
<1> QED
  BY <1>1, <1>2, <1>3, <1>4, DataInvariance, TypeInvariance, QuietInvariance, PTL
  DEF Spec

(* A node takes the items of all its pins in the order of time, for any flow    *)
(* whose sources hold data in the order of time: none of its predecessors sends *)
(* anything before what the node has taken, however far the others have got.   *)
THEOREM TakenInOrder == Undisturbed /\ DataInTime => (Spec => TemporalOrder)
<1> SUFFICES ASSUME Undisturbed, DataInTime PROVE Spec => TemporalOrder
  OBVIOUS
<1>1. Init => AllInOrder
  <2> SUFFICES ASSUME Init PROVE AllInOrder
    OBVIOUS
  <2>1. exec.pc = "none"
    BY DEF Init
  <2>2. \A n \in Node : DOMAIN left[n] = {}
    BY DEF Init, NodeInit
  <2>3. \A e \in Link : DOMAIN queue[e] = {}
    BY DEF Init, NodeInit
  <2> QED
    BY <2>1, <2>2, <2>3
    DEF AllInOrder, QueueInOrder, LeftInOrder, InOrder, Behind, InRun
<1>2. /\ TypeInv /\ StartsAlone /\ QuietSoFar /\ RunInv /\ DataInv /\ AllInOrder
      /\ [Next]_vars
      => AllInOrder'
  BY AllInOrderNext DEF RunInv, TypeInv, DataInv, Undisturbed
<1>3. TypeInv /\ AllInOrder /\ [Next]_vars
        => [\A n \in Node : At(n, "input") => item'[n] >= item[n]]_vars
  <2> SUFFICES ASSUME TypeOK, PollHasData, AllInOrder, Next, NEW n \in Node
               PROVE  item'[n] >= item[n]
    BY DEF TypeInv
  <2>0. item[n] \in Nat
    BY DEF TypeOK, NodeTypeOK
  <2>1. CASE Control \/ Execute
    BY <2>0, <2>1, OthersLeave DEF workerVars
  <2>2. CASE WaitTimeout
    BY <2>0, <2>2 DEF WaitTimeout, nodeVars
  <2>3. ASSUME NEW m \in Node, Worker(m) PROVE item'[n] >= item[n]
    <3>1. /\ item[m] \in Nat /\ item'[m] \in Nat /\ item[m] <= item'[m]
          /\ \A k \in Node : k # m => item'[k] = item[k]
      BY <2>3, ItemGrows
    <3> QED BY <2>0, <3>1
  <2> QED BY <2>1, <2>2, <2>3 DEF Next
<1>4. Spec => []RunInv
  BY RunInvariance DEF Undisturbed
<1> QED
  BY <1>1, <1>2, <1>3, <1>4, TypeInvariance, QuietInvariance, DataInvariance, PTL
  DEF Spec, TemporalOrder
===============================================================================
