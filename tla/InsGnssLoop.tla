----------------------------- MODULE InsGnssLoop ------------------------------
(***************************************************************************)
(* The feedback loop of INS/GNSS integration in post-processing: the       *)
(* ImuIntegrator ("ins") integrates inertial measurements and sends its    *)
(* solutions to the LooselyCoupledKF ("kf"), which asks it to synchronize  *)
(* to each GNSS measurement and sends back the errors it has estimated     *)
(* (src/Nodes/DataProcessor/Integrator/ImuIntegrator.cpp, KalmanFilter/    *)
(* LooselyCoupledKF.cpp).  Three sources feed the two: "imu", "gnss" and   *)
(* "pva", a PosVelAttInitializer whose values are all given by the user.   *)
(*                                                                         *)
(* The two nodes wait for each other, so the worker of Node.cpp is here    *)
(* with the attributes of pins that FlowNodes has no use for: priority,    *)
(* firable, dropQueueIfNotFirable, neededForTemporalQueueCheck,            *)
(* queueBlocked and blocksConnectedNodeFromFinishing.  Every output pin is *)
(* linked to one input pin and shares its name.  An item is its time; the  *)
(* numbers in it are abstracted.  A wakeWorker() is one step with what it  *)
(* announces.                                                              *)
(***************************************************************************)
EXTENDS Integers, Sequences, FiniteSets

CONSTANT Recordings   (* what the sources may hold: [imu, gnss, pva], times  *)

Source == {"imu", "gnss", "pva"}
Worker == {"ins", "kf"}
Node   == Source \cup Worker

(* The input pins of a node, in their order. *)
InPins == [ins |-> <<"ImuObs", "PosVelAttInit", "Errors", "Sync">>,
           kf  |-> <<"InertialNavSol", "GNSS">>]

PinsOf(n) == {InPins[n][i] : i \in DOMAIN InPins[n]}
Pin == PinsOf("ins") \cup PinsOf("kf")

(* The nodes an input pin belongs to and is fed by. *)
Owner(p)  == IF p \in PinsOf("ins") THEN "ins" ELSE "kf"
Feeder(p) == CASE p = "ImuObs" -> "imu"         [] p = "GNSS" -> "gnss"
               [] p = "PosVelAttInit" -> "pva"  [] p = "InertialNavSol" -> "ins"
               [] OTHER -> "kf"

OutPins(n) == {p \in Pin : Feeder(p) = n}

Priority == [ImuObs |-> 0, PosVelAttInit |-> 1, Errors |-> -2, Sync |-> -1,
             InertialNavSol |-> 1, GNSS |-> 0]

(* Mutant: the attribute is set on the output pin that is created last. *)
BlocksFromFinishing_Last(p) == p # "Sync"

(* dropQueueIfNotFirable of a pin, and blocksConnectedNodeFromFinishing of    *)
(* the output pin that feeds it.                                              *)
DropIfNotFirable(p) == p # "GNSS"
BlocksFromFinishing(p) == p # "Errors"

(* An empty InsTime, before every other. *)
None == 0
Time == Nat \ {None}

ASSUME LoopAssumption ==
  Recordings \subseteq [imu : Seq(Time), gnss : Seq(Time), pva : Seq(Time)]

(* GNSS solutions are recorded, or calculated, epoch after epoch. *)
ASSUME GnssInOrder ==
  \A r \in Recordings : \A i, j \in 1 .. Len(r.gnss) : i <= j => r.gnss[i] <= r.gnss[j]

VARIABLES
  data,     (* the recordings of this run                                    *)
  left,     (* what a source has still to send                               *)
  queue,    (* InputPin::queue                                               *)
  noMore,   (* noMoreDataAvailable of the output pin that feeds the pin      *)
  running,  (* _mode is POST_PROCESSING and callbacksEnabled                 *)
  wakeup,   (* Node::_workerWakeup                                           *)
  pc,       (* where a worker is, and the number of the pin it looks at      *)
  ins,      (* ImuIntegrator: time of _posVelAttStates, times of             *)
            (* _imuObservations, PosVelAttInit blocked, Errors needed        *)
  kf,       (* LooselyCoupledKF: _lastPredictRequestedTime                   *)
  applied,  (* history: times of the errors ins has corrected its state with *)
  used,     (* history: times of the GNSS measurements kf has used           *)
  torn      (* history: has a worker read a queue as empty and then, an item *)
            (* later, that there is no more data?                            *)

flowVars == <<left, queue, noMore, running, wakeup>>
vars == <<data, left, queue, noMore, running, wakeup, pc, ins, kf, applied, used, torn>>

At(n, p) == pc[n].at = p
Goto(n, p) == pc' = [pc EXCEPT ![n] = [at |-> p, pin |-> 1]]

-----------------------------------------------------------------------------
(* invokeCallbacks: the item t on output pin p of a node. *)
Send(q, p, t) ==
  LET sent == running[Feeder(p)] /\ (p = "PosVelAttInit" => ~ins.blocked)
  IN  /\ queue'  = IF sent THEN [q EXCEPT ![p] = Append(@, t)] ELSE q
      /\ wakeup' = [wakeup EXCEPT ![Owner(p)] = @ \/ sent]

(* The end of data on some pins is announced to the nodes behind them. *)
Announce(pins) ==
  /\ noMore' = [p \in Pin |-> noMore[p] \/ p \in pins]
  /\ wakeup' = [n \in Worker |-> wakeup[n] \/ \E p \in pins : Owner(p) = n]

(* A source sends its next item. *)
SendNext(s) ==
  /\ left[s] # <<>>
  /\ \E p \in OutPins(s) : Send(queue, p, Head(left[s]))
  /\ left' = [left EXCEPT ![s] = Tail(@)]
  /\ UNCHANGED <<data, noMore, running, pc, ins, kf, applied, used, torn>>

(* A source has found the end of its data and finishes. *)
EndOfData(s) ==
  /\ left[s] = <<>> /\ running[s]
  /\ Announce(OutPins(s))
  /\ running' = [running EXCEPT ![s] = FALSE]
  /\ UNCHANGED <<data, left, queue, pc, ins, kf, applied, used, torn>>

-----------------------------------------------------------------------------
(* The worker: which pin comes next, and what becomes of its item. *)
Wakeup(n) ==
  /\ At(n, "sleep") /\ wakeup[n]
  /\ wakeup' = [wakeup EXCEPT ![n] = FALSE]
  /\ Goto(n, "input")
  /\ UNCHANGED <<data, left, queue, noMore, running, ins, kf, applied, used, torn>>

(* Mutant: a Sync is not waited for. *)
NeededForTemporalQueueCheck_NotSync(p) ==
  CASE p \in {"InertialNavSol", "Sync"} -> FALSE
    [] p = "Errors" -> ins.needed
    [] OTHER -> TRUE

NeededForTemporalQueueCheck(p) ==
  CASE p = "InertialNavSol" -> FALSE
    [] p = "Errors" -> ins.needed
    [] OTHER -> TRUE

QueueBlocked(p) == p = "PosVelAttInit" /\ ins.blocked

(* "Check if all input flow pins have data", in post-processing only. *)
AllInputPinsHaveData(n) ==
  \A p \in PinsOf(n) :
    (NeededForTemporalQueueCheck(p) /\ ~QueueBlocked(p) /\ queue[p] = <<>>) => noMore[p]

(* Mutant: the priority counts, the time does not. *)
Earliest_ByPriority(n) ==
  {p \in PinsOf(n) : queue[p] # <<>> /\
     \A o \in PinsOf(n) \ {p} : queue[o] # <<>> => Priority[p] > Priority[o]}

(* "Find pin with the earliest data"; of equal times the higher priority. *)
Earliest(n) == {p \in PinsOf(n) : queue[p] # <<>> /\
                  \A o \in PinsOf(n) \ {p} : queue[o] # <<>> =>
                    \/ Head(queue[p]) < Head(queue[o])
                    \/ Head(queue[p]) = Head(queue[o]) /\ Priority[p] > Priority[o]}

Firable(p) ==
  CASE p \in {"ImuObs", "Sync"} -> ins.state # None
    [] p = "GNSS" -> kf < Head(queue[p])
    [] OTHER -> ~QueueBlocked(p)

(* p is the pin whose item n looks at now.  Nothing that makes it so can be   *)
(* undone by others, so that the reads need not be told apart.                *)
Chosen(n, p) ==
  /\ At(n, "input")
  /\ running[n] => AllInputPinsHaveData(n)
  /\ p \in Earliest(n)

(* Taking the item of p out of the queues. *)
Extracted(p) == [queue EXCEPT ![p] = Tail(@)]

Drop(n, p) ==
  /\ Chosen(n, p) /\ ~Firable(p) /\ DropIfNotFirable(p)
  /\ queue' = Extracted(p)
  /\ UNCHANGED <<data, left, noMore, running, wakeup, pc, ins, kf, applied, used, torn>>

(* There is no pin, or one that has to keep its item: out of the loop, and to *)
(* "Check if node finished" in post-processing.                               *)
Break(n) ==
  /\ At(n, "input")
  /\ \A p \in PinsOf(n) : ~(Chosen(n, p) /\ (Firable(p) \/ DropIfNotFirable(p)))
  /\ Goto(n, IF running[n] THEN "finish" ELSE "sleep")
  /\ UNCHANGED <<data, flowVars, ins, kf, applied, used, torn>>

-----------------------------------------------------------------------------
(* The callbacks of the ImuIntegrator.  An observation is only taken with a   *)
(* state, so that there is none yet when the first state comes: the solution  *)
(* recvPosVelAttInit could send (ImuIntegrator.cpp:363) is never sent.        *)
RecvPosVelAttInit ==
  /\ Chosen("ins", "PosVelAttInit") /\ Firable("PosVelAttInit")
  /\ queue' = Extracted("PosVelAttInit")
  /\ ins' = IF ins.state = None
            THEN [ins EXCEPT !.state = Head(queue["PosVelAttInit"]), !.blocked = TRUE]
            ELSE ins              \* "if (!_posVelAttStates.empty()) { return; }"
  /\ UNCHANGED <<data, left, noMore, running, wakeup, pc, kf, applied, used, torn>>

(* _maxSizeImuObservations *)
MaxSizeImuObservations == 2

(* Mutant: the last one is not removed. *)
Observe_Keep(t) == <<t>> \o ins.obs

(* A new observation comes first, and the last but one goes.                  *)
Observe(t) == IF ins.obs = <<>> THEN <<t>> ELSE <<t, ins.obs[1]>>

(* integrateObservation, with enough observations: the state moves on to the  *)
(* time of the newest one and is sent; then comes the look for the end.       *)
Integrate(me, t, q) ==
  /\ ins' = [me EXCEPT !.obs = Observe(t), !.state = t]
  /\ Send(q, "InertialNavSol", t)
  /\ Goto("ins", "endQueue")

RecvImuObs ==
  /\ Chosen("ins", "ImuObs") /\ Firable("ImuObs")
  /\ LET t == Head(queue["ImuObs"])
     IN  \/ /\ Len(Observe(t)) = MaxSizeImuObservations
            /\ Integrate(ins, t, Extracted("ImuObs"))
         \/ /\ Len(Observe(t)) < MaxSizeImuObservations
            /\ ins' = [ins EXCEPT !.obs = Observe(t)]
            /\ queue' = Extracted("ImuObs")
            /\ UNCHANGED <<wakeup, pc>>
  /\ UNCHANGED <<data, left, noMore, running, kf, applied, used, torn>>

(* Is there something to integrate to reach time t?                           *)
ImuBehind(t) == ins.obs[1] < t

RecvSync ==
  /\ Chosen("ins", "Sync") /\ Firable("Sync")
  /\ LET t == Head(queue["Sync"])
         expecting == [ins EXCEPT !.needed = TRUE]          \* the errors
     IN  \/ /\ Len(ins.obs) < MaxSizeImuObservations        \* "Manually syncing"
            /\ ins' = expecting
            /\ Send(Extracted("Sync"), "InertialNavSol", t)
            /\ UNCHANGED pc
         \/ /\ Len(ins.obs) = MaxSizeImuObservations /\ ImuBehind(t)
            /\ Integrate(expecting, t, Extracted("Sync"))
         \/ /\ Len(ins.obs) = MaxSizeImuObservations /\ ~ImuBehind(t)
            /\ ins' = expecting                             \* LOG_ERROR if greater
            /\ queue' = Extracted("Sync")
            /\ UNCHANGED <<wakeup, pc>>
  /\ UNCHANGED <<data, left, noMore, running, kf, applied, used, torn>>

RecvLcKfInsGnssErrors ==
  /\ Chosen("ins", "Errors") /\ Firable("Errors")
  /\ queue' = Extracted("Errors")
  /\ ins' = [ins EXCEPT !.needed = FALSE]
  /\ applied' = IF ins.state = None THEN applied ELSE applied \cup {Head(queue["Errors"])}
  /\ UNCHANGED <<data, left, noMore, running, wakeup, pc, kf, used, torn>>

-----------------------------------------------------------------------------
(* The callbacks of the LooselyCoupledKF. *)
GnssMeasuredAt(t) == queue["GNSS"] # <<>> /\ Head(queue["GNSS"]) = t

RecvInertialNavigationSolution ==
  /\ Chosen("kf", "InertialNavSol") /\ Firable("InertialNavSol")
  /\ LET t == Head(queue["InertialNavSol"])
         q == Extracted("InertialNavSol")
     IN  \/ /\ GnssMeasuredAt(t)                            \* looselyCoupledUpdate
            /\ used' = Append(used, t)
            /\ Send([q EXCEPT !["GNSS"] = Tail(@)], "Errors", t)
            /\ Goto("kf", "endQueue")
         \/ /\ ~GnssMeasuredAt(t)
            /\ queue' = q
            /\ UNCHANGED <<used, wakeup, pc>>
  /\ UNCHANGED <<data, left, noMore, running, ins, kf, applied, torn>>

(* The measurement stays in the queue. *)
RecvGNSSNavigationSolution ==
  /\ Chosen("kf", "GNSS") /\ Firable("GNSS")
  /\ kf' = Head(queue["GNSS"])
  /\ Send(queue, "Sync", Head(queue["GNSS"]))
  /\ UNCHANGED <<data, left, noMore, running, pc, ins, applied, used, torn>>

-----------------------------------------------------------------------------
(* Mutant: the filter looks at its first pin. *)
EndOf_First == [ins |-> "ImuObs", kf |-> "InertialNavSol"]

(* Both nodes look for the end of one of their inputs as the last thing in a  *)
(* callback (first the queue, then the flag), and announce that of an output. *)
EndOf == [ins |-> "ImuObs", kf |-> "GNSS"]
Ends  == [ins |-> "InertialNavSol", kf |-> "Sync"]

(* A worker reads noMoreDataAvailable of the pin after it saw the queue empty. *)
ReadNoMore(p) == torn' = (torn \/ (noMore[p] /\ queue[p] # <<>>))

EndQueue(n) ==
  /\ At(n, "endQueue")
  /\ Goto(n, IF queue[EndOf[n]] = <<>> THEN "endMore" ELSE "input")
  /\ UNCHANGED <<data, flowVars, ins, kf, applied, used, torn>>

EndMore(n) ==
  /\ At(n, "endMore")
  /\ ReadNoMore(EndOf[n])
  /\ IF noMore[EndOf[n]] THEN Announce({Ends[n]}) ELSE UNCHANGED <<noMore, wakeup>>
  /\ Goto(n, "input")
  /\ UNCHANGED <<data, left, queue, running, ins, kf, applied, used>>

(* "Check if node finished": pin after pin, the queue and then the flag. *)
FinishPin(n) == InPins[n][pc[n].pin]

FinishQueue(n) ==
  /\ At(n, "finish") /\ pc[n].pin <= Len(InPins[n])
  /\ pc' = [pc EXCEPT ![n] =
       IF ~BlocksFromFinishing(FinishPin(n)) THEN [at |-> "finish", pin |-> pc[n].pin + 1]
       ELSE IF queue[FinishPin(n)] = <<>> THEN [pc[n] EXCEPT !.at = "finishMore"]
       ELSE [at |-> "sleep", pin |-> 1]]
  /\ UNCHANGED <<data, flowVars, ins, kf, applied, used, torn>>

FinishMore(n) ==
  /\ At(n, "finishMore")
  /\ ReadNoMore(FinishPin(n))
  /\ pc' = [pc EXCEPT ![n] = IF noMore[FinishPin(n)]
                             THEN [at |-> "finish", pin |-> pc[n].pin + 1]
                             ELSE [at |-> "sleep", pin |-> 1]]
  /\ UNCHANGED <<data, flowVars, ins, kf, applied, used>>

Finish(n) ==
  /\ At(n, "finish") /\ pc[n].pin > Len(InPins[n])
  /\ running' = [running EXCEPT ![n] = FALSE]
  /\ Announce(OutPins(n))
  /\ Goto(n, "sleep")
  /\ UNCHANGED <<data, left, queue, ins, kf, applied, used, torn>>

-----------------------------------------------------------------------------
Init ==
  /\ data \in Recordings
  /\ left = data
  /\ queue = [p \in Pin |-> <<>>]
  /\ noMore = [p \in Pin |-> FALSE]
  /\ running = [n \in Node |-> TRUE]
  /\ wakeup = [n \in Worker |-> TRUE]
  /\ pc = [n \in Worker |-> [at |-> "sleep", pin |-> 1]]
  /\ ins = [state |-> None, obs |-> <<>>, blocked |-> FALSE, needed |-> FALSE]
  /\ kf = None
  /\ applied = {} /\ used = <<>> /\ torn = FALSE

SourceStep(s) == SendNext(s) \/ EndOfData(s)

InsCallback == RecvPosVelAttInit \/ RecvImuObs \/ RecvSync \/ RecvLcKfInsGnssErrors
KfCallback == RecvInertialNavigationSolution \/ RecvGNSSNavigationSolution

WorkerStep(n) ==
  \/ Wakeup(n) \/ Break(n) \/ \E p \in PinsOf(n) : Drop(n, p)
  \/ EndQueue(n) \/ EndMore(n) \/ FinishQueue(n) \/ FinishMore(n) \/ Finish(n)
  \/ n = "ins" /\ InsCallback
  \/ n = "kf" /\ KfCallback

Next == (\E s \in Source : SourceStep(s)) \/ (\E n \in Worker : WorkerStep(n))

Spec == Init /\ [][Next]_vars

(* Every thread goes on as long as it has something to do. *)
FairSpec == /\ Spec
            /\ \A s \in Source : WF_vars(SourceStep(s))
            /\ \A n \in Worker : WF_vars(WorkerStep(n))

-----------------------------------------------------------------------------
PC == {"sleep", "input", "endQueue", "endMore", "finish", "finishMore"}

(* Types; ins keeps at most _maxSizeImuObservations observations.  It does so *)
(* in the callback of either pin it gets times from.                          *)
TypeOK ==
  /\ data \in Recordings
  /\ left \in [Source -> Seq(Time)]
  /\ queue \in [Pin -> Seq(Time)]
  /\ noMore \in [Pin -> BOOLEAN]
  /\ running \in [Node -> BOOLEAN]
  /\ wakeup \in [Worker -> BOOLEAN]
  /\ pc \in [Worker -> [at : PC, pin : 1..5]]
  /\ ins \in [state : Nat, obs : Seq(Time), blocked : BOOLEAN, needed : BOOLEAN]
  /\ Len(ins.obs) <= MaxSizeImuObservations
  /\ kf \in Nat
  /\ applied \subseteq Time /\ used \in Seq(Time) /\ torn \in BOOLEAN

(* The integrator does not run ahead of its corrections: it goes past the     *)
(* time of a GNSS measurement only with a state that has been corrected by    *)
(* the errors estimated from it.  It waits for a Sync before it goes on, and  *)
(* the next Sync is sent after the errors (ImuIntegrator.cpp:296, 396).       *)
Corrected ==
  ~torn => \A i \in DOMAIN data.gnss :
             ins.state > data.gnss[i] => data.gnss[i] \in applied

(* The filter asks for no time the integrator has already passed: "Node tries *)
(* syncing to ... but last processed IMU obs is from ..." is never logged     *)
(* (ImuIntegrator.cpp:475).                                                   *)
SyncInTime ==
  ~torn => \A i \in DOMAIN queue["Sync"] :
             ins.obs # <<>> => ins.obs[1] <= queue["Sync"][i]

AllFinished == \A n \in Node : ~running[n]

(* The end of Sync is announced when nothing is left to synchronize to:      *)
(* no measurement is still to come or still waits for its solution            *)
(* (LooselyCoupledKF.cpp:763).                                                *)
SyncEndIsFinal ==
  ~torn /\ noMore["Sync"] => left.gnss = <<>> /\ queue["GNSS"] = <<>>

(* When the filter uses the last measurement it is known to be the last.      *)
EndKnown == used = data.gnss => noMore["GNSS"]

(* There are measurements, and none from before the initial state.            *)
Startable == data.gnss # <<>> /\ Head(data.pva) <= Head(data.gnss)

(* The two nodes, each of which waits for the other, come to an end           *)
(* ("To prevent a deadlock between ImuIntegrator and this node",              *)
(* LooselyCoupledKF.cpp:60), if the end of the GNSS data is known in time.    *)
(* Without any of the premises a run hangs: the filter announces the end of   *)
(* Sync only when it uses a measurement, and the integrator drops a Sync      *)
(* that comes before its first state.                                         *)
LoopEnds == Startable /\ [](~torn /\ EndKnown) => <>AllFinished
=============================================================================
