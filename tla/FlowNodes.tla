------------------------------ MODULE FlowNodes -------------------------------
(***************************************************************************)
(* Nodes while a flow runs: the queues of the input pins, and what worker  *)
(* threads do with them (the second half of Node::workerThread, and        *)
(* Node::invokeCallbacks in src/internal/Node/Node.cpp).  A source polls   *)
(* its data in the order of time, every other node takes the earliest item *)
(* of its queues and passes it on.  In post-processing a node that has     *)
(* nothing left to expect says so to its successors and to the executor    *)
(* (FlowExecutor extends this module with the executor's side).            *)
(*                                                                         *)
(* Nodes are initialized throughout.  An item is its time stamp.  A        *)
(* wakeWorker() is one step with the push or the flag that it announces: a *)
(* worker that is up already meets the item either way.                    *)
(***************************************************************************)
EXTENDS Naturals, Sequences, FiniteSets

CONSTANTS Node,      (* the nodes of the flow                                *)
          Link,      (* <<m, n>>: m's output pin feeds an input pin of n     *)
          Data,      (* what the data file of a node holds: its time stamps  *)
          Timeouts   (* are there passes of a worker nobody asked for?       *)

ASSUME FlowAssumption ==
  /\ IsFiniteSet(Node) /\ Node # {}
  /\ Link \subseteq {e \in Node \X Node : e[1] # e[2]}
  /\ Data \in [Node -> Seq(Nat)]
  /\ \A e \in Link : Data[e[2]] = <<>>
  /\ Timeouts \in BOOLEAN

VARIABLES
  queue,      (* InputPin::queue, by link                                    *)
  noMore,     (* OutputPin::noMoreDataAvailable                              *)
  mode,       (* Node::_mode                                                 *)
  callbacks,  (* Node::callbacksEnabled                                      *)
  wakeup,     (* Node::_workerWakeup                                         *)
  poll,       (* Node::pollEvents holds the output pin                       *)
  left,       (* data the source has still to read                           *)
  wpc,        (* where the worker of a node is                               *)
  todo,       (* links the worker still has to visit                         *)
  item        (* the item the worker is handling                             *)

flowVars == <<queue, noMore, mode, callbacks, wakeup, poll, left>>
workerVars == <<wpc, todo, item>>
nodeVars == <<queue, noMore, mode, callbacks, wakeup, poll, left, wpc, todo, item>>

In(n)  == {e \in Link : e[2] = n}
Out(n) == {e \in Link : e[1] = n}

(* Input pins are visited in a fixed order. *)
First(links) == CHOOSE e \in links : TRUE

WorkerPC == {"sleep", "gate", "input", "invoke", "push", "poll", "pollLoop",
             "pollNext", "pollEnd", "finish", "finishQueue", "finishMore", "deregister",
             "compare", "lock"}

At(n, p) == wpc[n] = p

Goto(n, p) == wpc' = [wpc EXCEPT ![n] = p]

(* wakeWorker() on the nodes that some links lead to. *)
WakeTargets(links) ==
  wakeup' = [n \in Node |-> wakeup[n] \/ \E e \in links : e[2] = n]

(* May the worker handle data now? *)
Active(n) == callbacks[n] \/ mode[n] = "REAL_TIME"

(* wait_for() returns, woken or (without a wakeup) by its timeout. *)
Wakeup(n) ==
  /\ At(n, "sleep")
  /\ wakeup[n] \/ Timeouts
  /\ wakeup' = [wakeup EXCEPT ![n] = FALSE]
  /\ Goto(n, "gate")
  /\ UNCHANGED <<queue, noMore, mode, callbacks, poll, left, todo, item>>

Gate(n) ==
  /\ At(n, "gate")
  /\ Goto(n, CASE Active(n) /\ In(n) # {} -> "input"
               [] Active(n) /\ In(n) = {} -> "poll"
               [] OTHER -> "finish")
  /\ UNCHANGED <<flowVars, todo, item>>

(* Mutant: one predecessor that has data is enough. *)
AllPinsHaveData_Any(n) ==
  \E e \in In(n) : queue[e] # <<>> \/ noMore[e[1]]

(* In post-processing: is there an item of every predecessor that may still   *)
(* send one?  The reads of one pin need not be atomic here: the choice of the *)
(* item looks at the queues anew.                                             *)
AllPinsHaveData(n) ==
  \A e \in In(n) : queue[e] # <<>> \/ noMore[e[1]]

MayTake(n) == /\ Active(n)
              /\ mode[n] = "POST_PROCESSING" => AllPinsHaveData(n)
              /\ \E e \in In(n) : queue[e] # <<>>

Earliest(n) == {e \in In(n) : /\ queue[e] # <<>>
                              /\ \A f \in In(n) : queue[f] # <<>>
                                   => Head(queue[e]) <= Head(queue[f])}

(* The callback of the pin with the earliest item takes it from the queue. *)
TakeInput(n) ==
  /\ At(n, "input") /\ MayTake(n)
  /\ \E e \in Earliest(n) :
       /\ item' = [item EXCEPT ![n] = Head(queue[e])]
       /\ queue' = [queue EXCEPT ![e] = Tail(@)]
  /\ Goto(n, "invoke")
  /\ UNCHANGED <<noMore, mode, callbacks, wakeup, poll, left, todo>>

NoInput(n) ==
  /\ At(n, "input") /\ ~MayTake(n)
  /\ Goto(n, "poll")
  /\ UNCHANGED <<flowVars, todo, item>>

(* Where a callback returns to. *)
AfterInvoke(n) == IF In(n) = {} THEN "pollNext" ELSE "input"

(* invokeCallbacks: enabled callbacks are looked up once, at its start. *)
InvokeCallbacks(n) ==
  /\ At(n, "invoke")
  /\ IF callbacks[n]
     THEN todo' = [todo EXCEPT ![n] = Out(n)] /\ Goto(n, "push")
     ELSE Goto(n, AfterInvoke(n)) /\ UNCHANGED todo
  /\ UNCHANGED <<flowVars, item>>

(* Every linked pin gets the item, and its node is woken. *)
Push(n) ==
  /\ At(n, "push")
  /\ \E e \in todo[n] :
       /\ queue' = [queue EXCEPT ![e] = Append(@, item[n])]
       /\ WakeTargets({e})
       /\ todo' = [todo EXCEPT ![n] = @ \ {e}]
  /\ UNCHANGED <<noMore, mode, callbacks, poll, left, wpc, item>>

PushDone(n) ==
  /\ At(n, "push") /\ todo[n] = {}
  /\ Goto(n, AfterInvoke(n))
  /\ UNCHANGED <<flowVars, todo, item>>

HasPollEvents(n) ==
  /\ At(n, "poll")
  /\ Goto(n, IF poll[n] THEN "pollLoop" ELSE "finish")
  /\ UNCHANGED <<flowVars, todo, item>>

(* Poll events are handled while callbacks are enabled: the item that was     *)
(* peeked is read and sent.                                                   *)
Poll(n) ==
  /\ At(n, "pollLoop") /\ poll[n] /\ callbacks[n]
  /\ item' = [item EXCEPT ![n] = Head(left[n])]
  /\ left' = [left EXCEPT ![n] = Tail(@)]
  /\ Goto(n, "invoke")
  /\ UNCHANGED <<queue, noMore, mode, callbacks, wakeup, poll, todo>>

(* The loop ends without an event left (then the source is finished), or      *)
(* because callbacks have been disabled.                                      *)
NoPoll(n) ==
  /\ At(n, "pollLoop") /\ ~(poll[n] /\ callbacks[n])
  /\ Goto(n, IF poll[n] THEN "finish" ELSE "pollEnd")
  /\ UNCHANGED <<flowVars, todo, item>>

(* Mutant: off by one, the pin is done while one item is left. *)
PollNext_Early(n) ==
  /\ At(n, "pollNext")
  /\ poll' = [poll EXCEPT ![n] = left[n] # <<>>]
  /\ IF Len(left[n]) > 1
     THEN UNCHANGED <<noMore, wakeup>>
     ELSE noMore' = [noMore EXCEPT ![n] = TRUE] /\ WakeTargets(Out(n))
  /\ Goto(n, "pollLoop")
  /\ UNCHANGED <<queue, mode, callbacks, left, todo, item>>

(* Peek the next item: none means that this pin has no more data. *)
PollNext(n) ==
  /\ At(n, "pollNext")
  /\ poll' = [poll EXCEPT ![n] = left[n] # <<>>]
  /\ IF left[n] # <<>>
     THEN UNCHANGED <<noMore, wakeup>>
     ELSE noMore' = [noMore EXCEPT ![n] = TRUE] /\ WakeTargets(Out(n))
  /\ Goto(n, "pollLoop")
  /\ UNCHANGED <<queue, mode, callbacks, left, todo, item>>

(* All pins are polled: the source is finished, in either mode.  A pin that is *)
(* not yet marked is marked now.                                               *)
PollEnd(n) ==
  /\ At(n, "pollEnd")
  /\ callbacks' = [callbacks EXCEPT ![n] = FALSE]
  /\ noMore' = [noMore EXCEPT ![n] = TRUE]
  /\ IF noMore[n] THEN UNCHANGED wakeup ELSE WakeTargets(Out(n))
  /\ mode' = [mode EXCEPT ![n] = "REAL_TIME"]
  /\ Goto(n, "deregister")
  /\ UNCHANGED <<queue, poll, left, todo, item>>

(* "Check if node finished", in post-processing only. *)
FinishCheck(n) ==
  /\ At(n, "finish")
  /\ IF mode[n] = "POST_PROCESSING"
     THEN todo' = [todo EXCEPT ![n] = In(n)] /\ Goto(n, "finishQueue")
     ELSE Goto(n, "sleep") /\ UNCHANGED todo
  /\ UNCHANGED <<flowVars, item>>

(* For every pin it reads first whether the queue is empty ...                *)
FinishQueue(n) ==
  /\ At(n, "finishQueue") /\ todo[n] # {}
  /\ Goto(n, IF queue[First(todo[n])] = <<>> THEN "finishMore"
                                                      ELSE "sleep")
  /\ UNCHANGED <<flowVars, todo, item>>

(* ... and then whether its predecessor may still send. *)
FinishMore(n) ==
  /\ At(n, "finishMore")
  /\ LET e == First(todo[n]) IN
       IF noMore[e[1]]
       THEN todo' = [todo EXCEPT ![n] = @ \ {e}] /\ Goto(n, "finishQueue")
       ELSE Goto(n, "sleep") /\ UNCHANGED todo
  /\ UNCHANGED <<flowVars, item>>

(* Mutant: a finished node stays in post-processing mode. *)
Finish_KeepsMode(n) ==
  /\ At(n, "finishQueue") /\ todo[n] = {}
  /\ callbacks' = [callbacks EXCEPT ![n] = FALSE]
  /\ noMore' = [noMore EXCEPT ![n] = TRUE]
  /\ WakeTargets(Out(n))
  /\ Goto(n, "deregister")
  /\ UNCHANGED <<queue, mode, poll, left, todo, item>>

(* All pins are through: the node is finished. *)
Finish(n) ==
  /\ At(n, "finishQueue") /\ todo[n] = {}
  /\ callbacks' = [callbacks EXCEPT ![n] = FALSE]
  /\ noMore' = [noMore EXCEPT ![n] = TRUE]
  /\ WakeTargets(Out(n))
  /\ mode' = [mode EXCEPT ![n] = "REAL_TIME"]
  /\ Goto(n, "deregister")
  /\ UNCHANGED <<queue, poll, left, todo, item>>

NodeStep(n) ==
  \/ Wakeup(n) \/ Gate(n) \/ TakeInput(n) \/ NoInput(n) \/ InvokeCallbacks(n)
  \/ Push(n) \/ PushDone(n) \/ HasPollEvents(n) \/ Poll(n) \/ NoPoll(n)
  \/ PollNext(n) \/ PollEnd(n) \/ FinishCheck(n) \/ FinishQueue(n) \/ FinishMore(n)
  \/ Finish(n)

(* Between two runs nothing is queued and no worker has anything to do. *)
NodeInit ==
  /\ queue = [e \in Link |-> <<>>]
  /\ noMore = [n \in Node |-> TRUE]
  /\ mode = [n \in Node |-> "REAL_TIME"]
  /\ callbacks = [n \in Node |-> FALSE]
  /\ wakeup = [n \in Node |-> FALSE]
  /\ poll = [n \in Node |-> FALSE]
  /\ left = [n \in Node |-> <<>>]
  /\ wpc = [n \in Node |-> "sleep"]
  /\ todo = [n \in Node |-> {}]
  /\ item = [n \in Node |-> 0]

NodeTypeOK ==
  /\ queue \in [Link -> Seq(Nat)]
  /\ noMore \in [Node -> BOOLEAN]
  /\ mode \in [Node -> {"REAL_TIME", "POST_PROCESSING"}]
  /\ callbacks \in [Node -> BOOLEAN]
  /\ wakeup \in [Node -> BOOLEAN]
  /\ poll \in [Node -> BOOLEAN]
  /\ left \in [Node -> Seq(Nat)]
  /\ wpc \in [Node -> WorkerPC]
  /\ todo \in [Node -> SUBSET Link]
  /\ item \in [Node -> Nat]
===============================================================================
