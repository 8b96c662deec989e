--------------------------- MODULE InsGnssLoopProofs ---------------------------
(***************************************************************************)
(* Proofs about the loop of ImuIntegrator and LooselyCoupledKF, for every  *)
(* recording whose GNSS measurements are in order of time.                 *)
(*                                                                         *)
(* The integrator may pass a measurement when its errors are applied.  It  *)
(* takes an item only as the earliest of its queues, and waits for a Sync  *)
(* until none can come, so the first Sync, which asks for the measurement  *)
(* after the last used one, bounds the item (lemma Reached); the errors of *)
(* the used ones are applied or in a queue, where they would be earlier    *)
(* still.  When no Sync can come all are used: that the end of a pin,      *)
(* once announced or found, is final is EndInv.                            *)
(***************************************************************************)
EXTENDS InsGnssLoop, TLAPS

(* A worker that has looked at a queue looks at the flag of the same pin. *)
AtAPin == \A n \in Worker : At(n, "finishMore") => pc[n].pin <= Len(InPins[n])

Typed == TypeOK /\ AtAPin

(* The pins whose end is final: nothing comes after it was announced.  The end  *)
(* of InertialNavSol is announced while solutions are still to come, and the    *)
(* end of Errors with that of Sync.                                            *)
EndPins == {"ImuObs", "PosVelAttInit", "Sync", "GNSS"}

Through(p) == noMore[p] /\ queue[p] = <<>>

(* Sources announce the end of their data when there is no more. *)
SourcesOpen ==
  /\ \A s \in Source : left[s] # <<>> => running[s]
  /\ \A p \in EndPins \ {"Sync"} : noMore[p] => left[Feeder(p)] = <<>>

(* Worker n has found pin i of its pins through: on its way to finish, or when *)
(* it has finished.                                                            *)
Checked(n, i) == \/ ~running[n]
                 \/ pc[n].at \in {"finish", "finishMore"} /\ i < pc[n].pin

CheckedIsThrough ==
  ~torn => \A n \in Worker : \A i \in 1 .. Len(InPins[n]) :
             InPins[n][i] \in EndPins /\ Checked(n, i) => Through(InPins[n][i])

(* The measurements of the recording, in their order, are used, waiting at the *)
(* filter, and still to come.                                                  *)
Measurements ==
  /\ Len(used) + Len(queue["GNSS"]) + Len(left["gnss"]) = Len(data.gnss)
  /\ \A i \in 1 .. Len(used) : used[i] = data.gnss[i]
  /\ \A i \in 1 .. Len(queue["GNSS"]) : queue["GNSS"][i] = data.gnss[Len(used) + i]
  /\ \A i \in 1 .. Len(left["gnss"]) :
       left["gnss"][i] = data.gnss[Len(used) + Len(queue["GNSS"]) + i]

InTime(s) == \A i, j \in 1 .. Len(s) : i <= j => s[i] <= s[j]

(* The errors of a used measurement are applied or on their way, in order; they *)
(* do not reach an integrator without a state.                                 *)
Corrections ==
  /\ \A i \in 1 .. Len(queue["Errors"]) :
       \E k \in 1 .. Len(used) : queue["Errors"][i] = used[k]
  /\ InTime(queue["Errors"])
  /\ queue["Errors"] # <<>> \/ queue["InertialNavSol"] # <<>> => ins.state # None
  /\ ~torn => \A k \in 1 .. Len(used) :
                used[k] \in applied
                  \/ \E i \in 1 .. Len(queue["Errors"]) : queue["Errors"][i] = used[k]

(* The filter asks for the measurement after the last one it has used. *)
Requested ==
  /\ \A i \in 1 .. Len(queue["Sync"]) :
       \E k \in 1 .. Len(data.gnss) : k <= Len(used) + 1 /\ queue["Sync"][i] = data.gnss[k]
  /\ InTime(queue["Sync"])

(* The state moves past a measurement when it has been corrected, and an        *)
(* observation is taken that is later than it when it has been used.           *)
NotAhead ==
  ~torn => \A i \in 1 .. Len(data.gnss) :
    /\ data.gnss[i] < ins.state => data.gnss[i] \in applied
    /\ ins.obs # <<>> /\ data.gnss[i] < ins.obs[1] => i <= Len(used)

OrderInv == Measurements /\ Corrections /\ Requested /\ NotAhead /\ SyncInTime

EndInv == SourcesOpen /\ CheckedIsThrough /\ SyncEndIsFinal

-------------------------------------------------------------------------------
(* Pins, queues and what the operators of the model do.                        *)

(* The pins of the two nodes, spelled out. *)
LEMMA PinFacts ==
  /\ PinsOf("ins") = {"ImuObs", "PosVelAttInit", "Errors", "Sync"}
  /\ PinsOf("kf") = {"InertialNavSol", "GNSS"}
  /\ Pin = {"ImuObs", "PosVelAttInit", "Errors", "Sync", "InertialNavSol", "GNSS"}
  /\ \A n \in Worker : PinsOf(n) \subseteq Pin /\ \A p \in PinsOf(n) : Owner(p) = n
  /\ \A p \in Pin : Owner(p) \in Worker /\ Feeder(p) \in Node
  /\ Len(InPins["ins"]) = 4 /\ Len(InPins["kf"]) = 2
<1>1. PinsOf("ins") = {"ImuObs", "PosVelAttInit", "Errors", "Sync"}
  <2> DEFINE pins == <<"ImuObs", "PosVelAttInit", "Errors", "Sync">>
  <2>1. InPins["ins"] = pins
    BY DEF InPins
  <2>2. pins[1] = "ImuObs" /\ pins[2] = "PosVelAttInit" /\ pins[3] = "Errors" /\ pins[4] = "Sync"
    OBVIOUS
  <2>3. DOMAIN pins = {1, 2, 3, 4}
    OBVIOUS
  <2> HIDE DEF pins
  <2> QED BY <2>1, <2>2, <2>3 DEF PinsOf
<1>2. PinsOf("kf") = {"InertialNavSol", "GNSS"}
  <2> DEFINE pins == <<"InertialNavSol", "GNSS">>
  <2>1. InPins["kf"] = pins
    BY DEF InPins
  <2>2. pins[1] = "InertialNavSol" /\ pins[2] = "GNSS"
    OBVIOUS
  <2>3. DOMAIN pins = {1, 2}
    OBVIOUS
  <2> HIDE DEF pins
  <2> QED BY <2>1, <2>2, <2>3 DEF PinsOf
<1> QED BY <1>1, <1>2 DEF Pin, Owner, Feeder, Worker, Node, Source, InPins

(* A pin that is chosen has an item, and its owner looks for one. *)
LEMMA ChosenFacts ==
  ASSUME TypeOK, NEW n \in Worker, NEW p \in PinsOf(n), Chosen(n, p)
  PROVE  /\ p \in Pin /\ At(n, "input")
         /\ queue[p] # <<>> /\ queue[p] \in Seq(Time)
         /\ Head(queue[p]) \in Time /\ Tail(queue[p]) \in Seq(Time)
         /\ Extracted(p) \in [Pin -> Seq(Time)]
         /\ Extracted(p)[p] = Tail(queue[p])
         /\ \A o \in Pin \ {p} : Extracted(p)[o] = queue[o]
<1>1. p \in Pin /\ queue[p] # <<>> /\ At(n, "input")
  BY PinFacts DEF Chosen, Earliest
<1>2. queue[p] \in Seq(Time)
  BY <1>1 DEF TypeOK
<1>3. Head(queue[p]) \in Time /\ Tail(queue[p]) \in Seq(Time)
  BY <1>1, <1>2
<1> QED BY <1>1, <1>2, <1>3 DEF Extracted, TypeOK

(* Sending changes one queue at most. *)
LEMMA SendFacts ==
  ASSUME NEW q \in [Pin -> Seq(Time)], NEW p \in Pin, NEW t \in Time, Send(q, p, t),
         wakeup \in [Worker -> BOOLEAN]
  PROVE  /\ queue' \in [Pin -> Seq(Time)] /\ wakeup' \in [Worker -> BOOLEAN]
         /\ \A o \in Pin \ {p} : queue'[o] = q[o]
         /\ queue'[p] = q[p] \/ queue'[p] = Append(q[p], t)
         /\ running[Feeder(p)] /\ p # "PosVelAttInit" => queue'[p] = Append(q[p], t)
         /\ ~running[Feeder(p)] => queue' = q
<1> DEFINE sent == running[Feeder(p)] /\ (p = "PosVelAttInit" => ~ins.blocked)
<1>1. /\ queue' = IF sent THEN [q EXCEPT ![p] = Append(q[p], t)] ELSE q
      /\ wakeup' = [wakeup EXCEPT ![Owner(p)] = wakeup[Owner(p)] \/ sent]
  BY DEF Send
<1>2. Append(q[p], t) \in Seq(Time)
  OBVIOUS
<1>3. wakeup' \in [Worker -> BOOLEAN]
  <2>1. (wakeup[Owner(p)] \/ sent) \in BOOLEAN
    OBVIOUS
  <2> HIDE DEF sent
  <2> QED BY <1>1, <2>1
<1> QED BY <1>1, <1>2, <1>3

(* The queues of the other pins are left. *)
LEMMA SendLeaves ==
  ASSUME NEW q \in [Pin -> Seq(Time)], NEW p, NEW t, Send(q, p, t)
  PROVE  \A o \in Pin \ {p} : queue'[o] = q[o]
BY DEF Send

(* An announcement adds the ends of some pins and withdraws none. *)
LEMMA AnnounceFacts ==
  ASSUME NEW pins, Announce(pins)
  PROVE  /\ noMore' \in [Pin -> BOOLEAN] /\ wakeup' \in [Worker -> BOOLEAN]
         /\ \A p \in Pin : noMore'[p] <=> noMore[p] \/ p \in pins
BY DEF Announce

-------------------------------------------------------------------------------
(* Types.                                                                      *)

(* Types are kept by every step. *)
LEMMA TypeOKNext == ASSUME Typed, [Next]_vars PROVE TypeOK'
<1> USE PinFacts DEF Typed
<1>1. CASE UNCHANGED vars
  BY <1>1 DEF TypeOK, vars
<1>2. ASSUME NEW s \in Source, SendNext(s) PROVE TypeOK'
  <2>1. left[s] \in Seq(Time) /\ left[s] # <<>>
    BY <1>2 DEF TypeOK, SendNext
  <2>2. Head(left[s]) \in Time /\ Tail(left[s]) \in Seq(Time)
    BY <2>1
  <2>3. PICK p \in OutPins(s) : Send(queue, p, Head(left[s]))
    BY <1>2 DEF SendNext
  <2>4. p \in Pin
    BY DEF OutPins
  <2>5. queue' \in [Pin -> Seq(Time)] /\ wakeup' \in [Worker -> BOOLEAN]
    BY <2>2, <2>3, <2>4, SendFacts DEF TypeOK
  <2>6. left' \in [Source -> Seq(Time)]
    BY <1>2, <2>2 DEF SendNext, TypeOK
  <2> QED BY <1>2, <2>5, <2>6 DEF SendNext, TypeOK
<1>3. ASSUME NEW s \in Source, EndOfData(s) PROVE TypeOK'
  BY <1>3, AnnounceFacts DEF EndOfData, TypeOK
<1>4. ASSUME NEW n \in Worker, NEW at \in PC, Goto(n, at)
      PROVE  pc' \in [Worker -> [at : PC, pin : 1 .. 5]]
  BY <1>4 DEF Goto, TypeOK
<1>5. ASSUME NEW n \in Worker,
             \/ Wakeup(n) \/ Break(n) \/ \E p \in PinsOf(n) : Drop(n, p)
             \/ EndQueue(n) \/ EndMore(n) \/ FinishQueue(n) \/ FinishMore(n) \/ Finish(n)
      PROVE TypeOK'
  <2>1. CASE Wakeup(n)
    <3>1. wakeup' \in [Worker -> BOOLEAN]
      BY <2>1 DEF Wakeup, TypeOK
    <3>2. pc' \in [Worker -> [at : PC, pin : 1 .. 5]]
      BY <2>1, <1>4 DEF Wakeup, PC
    <3> QED BY <2>1, <3>1, <3>2 DEF Wakeup, TypeOK
  <2>2. CASE Break(n)
    <3>1. pc' \in [Worker -> [at : PC, pin : 1 .. 5]]
      BY <2>2, <1>4 DEF Break, PC
    <3> QED BY <2>2, <3>1 DEF Break, TypeOK, flowVars
  <2>3. ASSUME NEW p \in PinsOf(n), Drop(n, p) PROVE TypeOK'
    <3>1. queue' \in [Pin -> Seq(Time)]
      BY <2>3, ChosenFacts DEF Drop
    <3> QED BY <2>3, <3>1 DEF Drop, TypeOK
  <2>4. CASE EndQueue(n)
    <3>1. pc' \in [Worker -> [at : PC, pin : 1 .. 5]]
      BY <2>4, <1>4 DEF EndQueue, PC
    <3> QED BY <2>4, <3>1 DEF EndQueue, TypeOK, flowVars
  <2>5. CASE EndMore(n)
    <3>1. pc' \in [Worker -> [at : PC, pin : 1 .. 5]]
      BY <2>5, <1>4 DEF EndMore, PC
    <3>2. noMore' \in [Pin -> BOOLEAN] /\ wakeup' \in [Worker -> BOOLEAN]
      BY <2>5, AnnounceFacts DEF EndMore, TypeOK
    <3>3. torn' \in BOOLEAN
      BY <2>5 DEF EndMore, ReadNoMore, TypeOK
    <3> QED BY <2>5, <3>1, <3>2, <3>3 DEF EndMore, TypeOK
  <2>6. CASE FinishQueue(n) \/ FinishMore(n)
    <3>1. pc[n] \in [at : PC, pin : 1 .. 5] /\ pc[n].pin \in 1 .. 5
      BY DEF TypeOK
    <3>2. pc[n].pin <= Len(InPins[n])
      BY <2>6 DEF FinishQueue, FinishMore, AtAPin
    <3>3. pc[n].pin + 1 \in 1 .. 5
      <4>1. CASE n = "ins"
        <5>1. pc[n].pin <= 4
          BY <3>2, <4>1
        <5> QED BY <3>1, <5>1
      <4>2. CASE n = "kf"
        <5>1. pc[n].pin <= 2
          BY <3>2, <4>2
        <5> QED BY <3>1, <5>1
      <4> QED BY <4>1, <4>2 DEF Worker
    <3>4. pc' \in [Worker -> [at : PC, pin : 1 .. 5]]
      <4> DEFINE next == [at |-> "finish", pin |-> pc[n].pin + 1]
                 more == [pc[n] EXCEPT !.at = "finishMore"]
                 sleep == [at |-> "sleep", pin |-> 1]
      <4>1. {next, more, sleep} \subseteq [at : PC, pin : 1 .. 5]
        BY <3>1, <3>3 DEF PC
      <4>2. \E r \in {next, more, sleep} : pc' = [pc EXCEPT ![n] = r]
        BY <2>6 DEF FinishQueue, FinishMore
      <4> HIDE DEF next, more, sleep
      <4> QED BY <4>1, <4>2 DEF TypeOK
    <3>5. torn' \in BOOLEAN
      BY <2>6 DEF FinishQueue, FinishMore, ReadNoMore, TypeOK
    <3> QED BY <2>6, <3>4, <3>5 DEF FinishQueue, FinishMore, TypeOK, flowVars
  <2>7. CASE Finish(n)
    <3>1. pc' \in [Worker -> [at : PC, pin : 1 .. 5]]
      BY <2>7, <1>4 DEF Finish, PC
    <3>2. noMore' \in [Pin -> BOOLEAN] /\ wakeup' \in [Worker -> BOOLEAN]
      BY <2>7, AnnounceFacts DEF Finish
    <3>3. running' \in [Node -> BOOLEAN]
      BY <2>7 DEF Finish, TypeOK
    <3> QED BY <2>7, <3>1, <3>2, <3>3 DEF Finish, TypeOK
  <2> QED BY <1>5, <2>1, <2>2, <2>3, <2>4, <2>5, <2>6, <2>7
<1>6. CASE RecvPosVelAttInit
  <2>1. /\ Chosen("ins", "PosVelAttInit")
        /\ queue' = Extracted("PosVelAttInit")
        /\ ins' = ins \/ ins' = [ins EXCEPT !.state = Head(queue["PosVelAttInit"]), !.blocked = TRUE]
    BY <1>6 DEF RecvPosVelAttInit
  <2>2. queue' \in [Pin -> Seq(Time)] /\ Head(queue["PosVelAttInit"]) \in Nat
    BY <2>1, ChosenFacts DEF Worker, Time
  <2> QED BY <1>6, <2>1, <2>2 DEF RecvPosVelAttInit, TypeOK
<1>7. ASSUME NEW t \in Time
      PROVE  Observe(t) \in Seq(Time) /\ Observe(t) # <<>>
             /\ Len(Observe(t)) <= MaxSizeImuObservations /\ Observe(t)[1] = t
  <2>1. ins.obs \in Seq(Time)
    BY DEF TypeOK
  <2>2. CASE ins.obs = <<>>
    BY <2>2 DEF Observe, MaxSizeImuObservations
  <2>3. CASE ins.obs # <<>>
    <3>1. ins.obs[1] \in Time
      BY <2>1, <2>3
    <3> QED BY <2>3, <3>1 DEF Observe, MaxSizeImuObservations
  <2> QED BY <2>2, <2>3
<1>8. ASSUME NEW t \in Time, NEW q \in [Pin -> Seq(Time)], NEW me,
             me \in [state : Nat, obs : Seq(Time), blocked : BOOLEAN, needed : BOOLEAN],
             Integrate(me, t, q)
      PROVE  /\ queue' \in [Pin -> Seq(Time)] /\ wakeup' \in [Worker -> BOOLEAN]
             /\ ins' \in [state : Nat, obs : Seq(Time), blocked : BOOLEAN, needed : BOOLEAN]
             /\ Len(ins'.obs) <= MaxSizeImuObservations
             /\ pc' \in [Worker -> [at : PC, pin : 1 .. 5]]
  <2>1. queue' \in [Pin -> Seq(Time)] /\ wakeup' \in [Worker -> BOOLEAN]
    BY <1>8, SendFacts DEF Integrate, TypeOK
  <2>2. pc' \in [Worker -> [at : PC, pin : 1 .. 5]]
    BY <1>8, <1>4 DEF Integrate, PC, Worker
  <2>3. t \in Nat
    BY DEF Time
  <2>4. ins' = [me EXCEPT !.obs = Observe(t), !.state = t]
    BY <1>8 DEF Integrate
  <2> QED BY <1>7, <1>8, <2>1, <2>2, <2>3, <2>4
<1>9. CASE RecvImuObs
  <2> DEFINE t == Head(queue["ImuObs"])
  <2>1. /\ Chosen("ins", "ImuObs")
        /\ UNCHANGED <<data, left, noMore, running, kf, applied, used, torn>>
        /\ \/ Integrate(ins, t, Extracted("ImuObs"))
           \/ /\ ins' = [ins EXCEPT !.obs = Observe(t)]
              /\ queue' = Extracted("ImuObs") /\ UNCHANGED <<wakeup, pc>>
    BY <1>9 DEF RecvImuObs
  <2>2. t \in Time /\ Extracted("ImuObs") \in [Pin -> Seq(Time)]
    BY <2>1, ChosenFacts DEF Worker
  <2> HIDE DEF t
  <2>3. CASE Integrate(ins, t, Extracted("ImuObs"))
    BY <2>1, <2>2, <2>3, <1>8 DEF TypeOK
  <2>4. CASE /\ ins' = [ins EXCEPT !.obs = Observe(t)]
             /\ queue' = Extracted("ImuObs") /\ UNCHANGED <<wakeup, pc>>
    BY <2>1, <2>2, <2>4, <1>7 DEF TypeOK
  <2> QED BY <2>1, <2>3, <2>4
<1>10. CASE RecvSync
  <2> DEFINE t == Head(queue["Sync"])
             expecting == [ins EXCEPT !.needed = TRUE]
  <2>1. /\ Chosen("ins", "Sync")
        /\ UNCHANGED <<data, left, noMore, running, kf, applied, used, torn>>
        /\ \/ /\ ins' = expecting /\ Send(Extracted("Sync"), "InertialNavSol", t)
              /\ UNCHANGED pc
           \/ Integrate(expecting, t, Extracted("Sync"))
           \/ /\ ins' = expecting /\ queue' = Extracted("Sync") /\ UNCHANGED <<wakeup, pc>>
    BY <1>10 DEF RecvSync
  <2>2. t \in Time /\ Extracted("Sync") \in [Pin -> Seq(Time)]
    BY <2>1, ChosenFacts DEF Worker
  <2>3. /\ expecting \in [state : Nat, obs : Seq(Time), blocked : BOOLEAN, needed : BOOLEAN]
        /\ Len(expecting.obs) <= MaxSizeImuObservations
    BY DEF TypeOK
  <2> HIDE DEF t, expecting
  <2>4. CASE /\ ins' = expecting /\ Send(Extracted("Sync"), "InertialNavSol", t)
             /\ UNCHANGED pc
    BY <2>1, <2>2, <2>3, <2>4, SendFacts DEF TypeOK
  <2>5. CASE Integrate(expecting, t, Extracted("Sync"))
    BY <2>1, <2>2, <2>3, <2>5, <1>8 DEF TypeOK
  <2>6. CASE /\ ins' = expecting /\ queue' = Extracted("Sync") /\ UNCHANGED <<wakeup, pc>>
    BY <2>1, <2>2, <2>3, <2>6 DEF TypeOK
  <2> QED BY <2>1, <2>4, <2>5, <2>6
<1>11. CASE RecvLcKfInsGnssErrors
  <2>1. Chosen("ins", "Errors")
    BY <1>11 DEF RecvLcKfInsGnssErrors
  <2>2. Head(queue["Errors"]) \in Time /\ Extracted("Errors") \in [Pin -> Seq(Time)]
    BY <2>1, ChosenFacts DEF Worker
  <2> QED BY <1>11, <2>2 DEF RecvLcKfInsGnssErrors, TypeOK
<1>12. CASE RecvInertialNavigationSolution
  <2> DEFINE t == Head(queue["InertialNavSol"])
             q == Extracted("InertialNavSol")
             q2 == [q EXCEPT !["GNSS"] = Tail(@)]
  <2>1. /\ Chosen("kf", "InertialNavSol")
        /\ UNCHANGED <<data, left, noMore, running, ins, kf, applied, torn>>
        /\ \/ /\ GnssMeasuredAt(t) /\ used' = Append(used, t)
              /\ Send(q2, "Errors", t) /\ Goto("kf", "endQueue")
           \/ queue' = q /\ UNCHANGED <<used, wakeup, pc>>
    BY <1>12 DEF RecvInertialNavigationSolution
  <2>2. t \in Time /\ q \in [Pin -> Seq(Time)] /\ q["GNSS"] = queue["GNSS"]
    BY <2>1, ChosenFacts DEF Worker
  <2> HIDE DEF t, q
  <2>3. CASE /\ GnssMeasuredAt(t) /\ used' = Append(used, t)
             /\ Send(q2, "Errors", t) /\ Goto("kf", "endQueue")
    <3>1. q2 \in [Pin -> Seq(Time)]
      <4>1. q["GNSS"] \in Seq(Time) /\ q["GNSS"] # <<>>
        BY <2>2, <2>3 DEF GnssMeasuredAt
      <4>2. Tail(q["GNSS"]) \in Seq(Time)
        BY <4>1
      <4> QED BY <2>2, <4>2
    <3>2. queue' \in [Pin -> Seq(Time)] /\ wakeup' \in [Worker -> BOOLEAN]
      BY <2>2, <2>3, <3>1, SendFacts DEF TypeOK
    <3>3. used' \in Seq(Time)
      BY <2>2, <2>3 DEF TypeOK
    <3>4. pc' \in [Worker -> [at : PC, pin : 1 .. 5]]
      BY <2>3, <1>4 DEF Worker, PC
    <3> QED BY <2>1, <3>2, <3>3, <3>4 DEF TypeOK
  <2>4. CASE queue' = q /\ UNCHANGED <<used, wakeup, pc>>
    BY <2>1, <2>2, <2>4 DEF TypeOK
  <2> QED BY <2>1, <2>3, <2>4
<1>13. CASE RecvGNSSNavigationSolution
  <2>1. Chosen("kf", "GNSS")
    BY <1>13 DEF RecvGNSSNavigationSolution
  <2>2. Head(queue["GNSS"]) \in Time /\ Head(queue["GNSS"]) \in Nat
    BY <2>1, ChosenFacts DEF Worker, Time
  <2>3. queue' \in [Pin -> Seq(Time)] /\ wakeup' \in [Worker -> BOOLEAN]
    BY <1>13, <2>2, SendFacts DEF RecvGNSSNavigationSolution, TypeOK
  <2> QED BY <1>13, <2>2, <2>3 DEF RecvGNSSNavigationSolution, TypeOK
<1> QED
  BY <1>1, <1>2, <1>3, <1>5, <1>6, <1>9, <1>10, <1>11, <1>12, <1>13
  DEF Next, SourceStep, WorkerStep, InsCallback, KfCallback

(* A worker turns to a flag from the queue of a pin it has. *)
LEMMA AtAPinNext == ASSUME Typed, [Next]_vars PROVE AtAPin'
<1> SUFFICES ASSUME NEW m \in Worker, pc'[m].at = "finishMore"
             PROVE  pc'[m].pin <= Len(InPins[m])
  BY DEF AtAPin, At
<1>1. ASSUME pc'[m] = pc[m] PROVE pc'[m].pin <= Len(InPins[m])
  BY <1>1 DEF Typed, AtAPin, At
<1>2. ASSUME NEW n \in Worker, NEW at, at # "finishMore", Goto(n, at)
      PROVE  pc'[m].pin <= Len(InPins[m])
  BY <1>1, <1>2 DEF Goto, Typed, TypeOK
<1>3. CASE UNCHANGED vars \/ (\E s \in Source : SourceStep(s))
  BY <1>1, <1>3 DEF vars, SourceStep, SendNext, EndOfData
<1>4. ASSUME NEW n \in Worker, Wakeup(n) \/ Break(n) \/ EndQueue(n) \/ EndMore(n) \/ Finish(n)
      PROVE  pc'[m].pin <= Len(InPins[m])
  BY <1>2, <1>4 DEF Wakeup, Break, EndQueue, EndMore, Finish
<1>5. ASSUME NEW n \in Worker, FinishQueue(n) \/ FinishMore(n)
      PROVE  pc'[m].pin <= Len(InPins[m])
  <2>1. CASE m # n
    BY <1>1, <1>5, <2>1 DEF FinishQueue, FinishMore, Typed, TypeOK
  <2>2. CASE m = n
    <3>1. FinishQueue(m) /\ pc'[m] = [pc[m] EXCEPT !.at = "finishMore"]
      BY <1>5, <2>2 DEF FinishQueue, FinishMore, Typed, TypeOK
    <3>2. pc'[m].pin = pc[m].pin
      BY <3>1 DEF Typed, TypeOK
    <3> QED BY <3>1, <3>2 DEF FinishQueue
  <2> QED BY <2>1, <2>2
<1>6. ASSUME NEW n \in Worker, NEW p \in PinsOf(n), Drop(n, p)
      PROVE  pc'[m].pin <= Len(InPins[m])
  BY <1>1, <1>6 DEF Drop
<1>7. CASE InsCallback
  BY <1>1, <1>2, <1>7
  DEF InsCallback, RecvPosVelAttInit, RecvImuObs, RecvSync, RecvLcKfInsGnssErrors,
      Integrate, Worker
<1>8. CASE KfCallback
  BY <1>1, <1>2, <1>8
  DEF KfCallback, RecvInertialNavigationSolution, RecvGNSSNavigationSolution, Worker
<1> QED BY <1>3, <1>4, <1>5, <1>6, <1>7, <1>8 DEF Next, WorkerStep

-------------------------------------------------------------------------------
(* What the steps do.                                                          *)

(* The steps that leave items and measurements alone. *)
Bookkeeping == (\E s \in Source : EndOfData(s))
               \/ (\E n \in Worker : Wakeup(n) \/ Break(n) \/ EndQueue(n) \/ EndMore(n)
                                     \/ FinishQueue(n) \/ FinishMore(n) \/ Finish(n))

(* A step does bookkeeping, sends, drops, or is a callback. *)
LEMMA NextCases ==
  ASSUME Next
  PROVE  \/ Bookkeeping
         \/ \E s \in Source : SendNext(s)
         \/ \E n \in Worker : \E p \in PinsOf(n) : Drop(n, p)
         \/ InsCallback \/ KfCallback
BY DEF Next, SourceStep, WorkerStep, Bookkeeping

(* Bookkeeping leaves items, state and measurements. *)
LEMMA BookkeepingLeaves ==
  ASSUME Bookkeeping
  PROVE  UNCHANGED <<data, left, queue, ins, kf, applied, used>>
BY DEF Bookkeeping, EndOfData, Wakeup, Break, EndQueue, EndMore, FinishQueue,
       FinishMore, Finish, flowVars

(* All others leave the flags, and data is never changed. *)
LEMMA FlagsLeft ==
  ASSUME Next, ~Bookkeeping
  PROVE  UNCHANGED <<data, noMore, running, torn>>
BY NextCases
DEF SendNext, Drop, InsCallback, RecvPosVelAttInit, RecvImuObs, RecvSync,
    RecvLcKfInsGnssErrors, KfCallback, RecvInertialNavigationSolution,
    RecvGNSSNavigationSolution

(* A source has one output pin. *)
LEMMA SourceSends ==
  ASSUME Typed, NEW s \in Source, SendNext(s)
  PROVE  /\ UNCHANGED <<ins, kf, applied, used>>
         /\ left[s] # <<>> /\ left[s] \in Seq(Time)
         /\ left' = [left EXCEPT ![s] = Tail(@)]
         /\ \E p \in {"ImuObs", "PosVelAttInit", "GNSS"} :
              /\ Feeder(p) = s
              /\ \A o \in Pin \ {p} : queue'[o] = queue[o]
              /\ queue'[p] = queue[p] \/ queue'[p] = Append(queue[p], Head(left[s]))
              /\ running[s] /\ p # "PosVelAttInit" => queue'[p] = Append(queue[p], Head(left[s]))
<1>1. PICK p \in OutPins(s) : Send(queue, p, Head(left[s]))
  BY DEF SendNext
<1>2. p \in {"ImuObs", "PosVelAttInit", "GNSS"} /\ Feeder(p) = s /\ p \in Pin
  BY PinFacts DEF OutPins, Source, Feeder
<1>3. left[s] # <<>> /\ left[s] \in Seq(Time)
  BY DEF SendNext, Typed, TypeOK
<1>4. Head(left[s]) \in Time
  BY <1>3
<1>5. /\ \A o \in Pin \ {p} : queue'[o] = queue[o]
      /\ queue'[p] = queue[p] \/ queue'[p] = Append(queue[p], Head(left[s]))
      /\ running[s] /\ p # "PosVelAttInit" => queue'[p] = Append(queue[p], Head(left[s]))
  <2>1. queue \in [Pin -> Seq(Time)] /\ wakeup \in [Worker -> BOOLEAN]
    BY DEF Typed, TypeOK
  <2> QED BY <1>1, <1>2, <1>4, <2>1, SendFacts
<1>6. UNCHANGED <<ins, kf, applied, used>> /\ left' = [left EXCEPT ![s] = Tail(@)]
  BY DEF SendNext
<1> QED BY <1>2, <1>3, <1>5, <1>6

(* A drop takes one item, and never a GNSS measurement. *)
LEMMA DropTakes ==
  ASSUME Typed, NEW n \in Worker, NEW p \in PinsOf(n), Drop(n, p)
  PROVE  /\ UNCHANGED <<left, ins, kf, applied, used>>
         /\ p \in Pin /\ p # "GNSS" /\ Chosen(n, p) /\ ~Firable(p)
         /\ queue[p] # <<>> /\ queue'[p] = Tail(queue[p])
         /\ \A o \in Pin \ {p} : queue'[o] = queue[o]
BY ChosenFacts DEF Drop, DropIfNotFirable, Typed

(* The integrator takes an item of one of its pins and may send a solution; its *)
(* state and its newest observation are from the time they were from, or from   *)
(* that of the item.  Only errors correct the state, and they do not move it.   *)
InsTakes(p) ==
  LET t == Head(queue[p])
  IN  /\ UNCHANGED <<left, kf, used>>
      /\ Chosen("ins", p)
      /\ queue[p] # <<>> /\ queue'[p] = Tail(queue[p])
      /\ \A o \in Pin \ {p, "InertialNavSol"} : queue'[o] = queue[o]
      /\ queue'["InertialNavSol"] # <<>> => queue["InertialNavSol"] # <<>> \/ ins.state # None
      /\ ins'.state = ins.state \/ ins'.state = t
      /\ ins'.obs = ins.obs \/ (ins'.obs # <<>> /\ ins'.obs[1] = t)
      /\ p = "Errors" => /\ ins'.state = ins.state /\ ins'.obs = ins.obs
                         /\ applied' = IF ins.state = None THEN applied ELSE applied \cup {t}
      /\ p # "Errors" => applied' = applied

(* The newest observation comes first. *)
LEMMA ObserveFacts ==
  ASSUME Typed, NEW t \in Time
  PROVE  Observe(t) # <<>> /\ Observe(t)[1] = t
<1>1. ins.obs \in Seq(Time)
  BY DEF Typed, TypeOK
<1>2. CASE ins.obs = <<>>
  BY <1>2 DEF Observe
<1>3. CASE ins.obs # <<>>
  <2>1. ins.obs[1] \in Time
    BY <1>1, <1>3
  <2> QED BY <1>3, <2>1 DEF Observe
<1> QED BY <1>2, <1>3

(* Every callback of the integrator takes an item of one pin. *)
LEMMA InsCallbackTakes ==
  ASSUME Typed, InsCallback
  PROVE  \E p \in PinsOf("ins") : InsTakes(p)
<1> USE PinFacts DEF Typed
<1>0. /\ ins \in [state : Nat, obs : Seq(Time), blocked : BOOLEAN, needed : BOOLEAN]
      /\ wakeup \in [Worker -> BOOLEAN]
  BY DEF TypeOK
<1>1. ASSUME NEW p \in PinsOf("ins"), Chosen("ins", p)
      PROVE  /\ p \in Pin /\ queue[p] # <<>> /\ Head(queue[p]) \in Time
             /\ Extracted(p) \in [Pin -> Seq(Time)]
             /\ Extracted(p)[p] = Tail(queue[p])
             /\ \A o \in Pin \ {p} : Extracted(p)[o] = queue[o]
  BY <1>1, ChosenFacts DEF Worker
<1>2. CASE RecvPosVelAttInit
  <2>1. Chosen("ins", "PosVelAttInit")
    BY <1>2 DEF RecvPosVelAttInit
  <2>2. /\ queue' = Extracted("PosVelAttInit") /\ UNCHANGED <<left, kf, used, applied>>
        /\ ins' = ins \/ ins' = [ins EXCEPT !.state = Head(queue["PosVelAttInit"]), !.blocked = TRUE]
    BY <1>2 DEF RecvPosVelAttInit
  <2>3. /\ ins'.state = ins.state \/ ins'.state = Head(queue["PosVelAttInit"])
        /\ ins'.obs = ins.obs
    BY <1>0, <2>2
  <2>4. /\ queue["PosVelAttInit"] # <<>> /\ queue'["PosVelAttInit"] = Tail(queue["PosVelAttInit"])
        /\ \A o \in Pin \ {"PosVelAttInit"} : queue'[o] = queue[o]
    BY <1>1, <2>1, <2>2
  <2>5. "PosVelAttInit" \in PinsOf("ins")
    OBVIOUS
  <2>6. InsTakes("PosVelAttInit")
    BY <2>1, <2>2, <2>3, <2>4 DEF InsTakes
  <2> QED BY <2>5, <2>6
<1>3. ASSUME NEW p \in {"ImuObs", "Sync"}, Chosen("ins", p), Firable(p), NEW me,
             me = ins \/ me = [ins EXCEPT !.needed = TRUE],
             Integrate(me, Head(queue[p]), Extracted(p)),
             UNCHANGED <<left, kf, used, applied>>
      PROVE  InsTakes(p)
  <2> DEFINE t == Head(queue[p])
  <2>1. /\ p \in Pin /\ queue[p] # <<>> /\ t \in Time
        /\ Extracted(p) \in [Pin -> Seq(Time)]
        /\ Extracted(p)[p] = Tail(queue[p])
        /\ \A o \in Pin \ {p} : Extracted(p)[o] = queue[o]
    BY <1>1, <1>3
  <2>2. ins.state # None
    BY <1>3 DEF Firable
  <2>3. ins'.state = t /\ ins'.obs = Observe(t)
    BY <1>0, <1>3 DEF Integrate
  <2>4. ins'.obs # <<>> /\ ins'.obs[1] = t
    BY <2>1, <2>3, ObserveFacts
  <2>5. Send(Extracted(p), "InertialNavSol", t)
    BY <1>3 DEF Integrate
  <2>6. /\ queue'[p] = Tail(queue[p])
        /\ \A o \in Pin \ {p, "InertialNavSol"} : queue'[o] = queue[o]
    <3> HIDE PinFacts
    <3>1. \A o \in Pin \ {"InertialNavSol"} : queue'[o] = Extracted(p)[o]
      BY <2>1, <2>5, SendLeaves
    <3> QED BY <1>3, <2>1, <3>1
  <2> HIDE PinFacts
  <2> QED BY <1>3, <2>1, <2>2, <2>3, <2>4, <2>6 DEF InsTakes
<1>4. CASE RecvImuObs
  <2> DEFINE t == Head(queue["ImuObs"])
  <2>1. /\ Chosen("ins", "ImuObs") /\ Firable("ImuObs") /\ UNCHANGED <<left, kf, used, applied>>
        /\ \/ Integrate(ins, t, Extracted("ImuObs"))
           \/ ins' = [ins EXCEPT !.obs = Observe(t)] /\ queue' = Extracted("ImuObs")
    BY <1>4 DEF RecvImuObs
  <2>2. CASE Integrate(ins, t, Extracted("ImuObs"))
    BY <2>1, <2>2, <1>3
  <2>3. CASE ins' = [ins EXCEPT !.obs = Observe(t)] /\ queue' = Extracted("ImuObs")
    <3>1. t \in Time /\ queue["ImuObs"] # <<>>
      BY <1>1, <2>1
    <3>2. ins'.state = ins.state /\ ins'.obs = Observe(t)
      BY <1>0, <2>3
    <3>3. ins'.obs # <<>> /\ ins'.obs[1] = t
      BY <3>1, <3>2, ObserveFacts
    <3>4. /\ queue'["ImuObs"] = Tail(queue["ImuObs"])
          /\ \A o \in Pin \ {"ImuObs"} : queue'[o] = queue[o]
      BY <1>1, <2>1, <2>3
    <3>5. queue'["InertialNavSol"] = queue["InertialNavSol"]
      BY <3>4
    <3> HIDE PinFacts
    <3>6. InsTakes("ImuObs")
      BY <2>1, <3>1, <3>2, <3>3, <3>4, <3>5 DEF InsTakes
    <3> QED BY <3>6, PinFacts
  <2> QED BY <2>1, <2>2, <2>3
<1>5. CASE RecvSync
  <2> DEFINE t == Head(queue["Sync"])
             expecting == [ins EXCEPT !.needed = TRUE]
  <2>1. /\ Chosen("ins", "Sync") /\ Firable("Sync") /\ UNCHANGED <<left, kf, used, applied>>
        /\ \/ ins' = expecting /\ Send(Extracted("Sync"), "InertialNavSol", t)
           \/ Integrate(expecting, t, Extracted("Sync"))
           \/ ins' = expecting /\ queue' = Extracted("Sync")
    BY <1>5 DEF RecvSync
  <2>2. CASE Integrate(expecting, t, Extracted("Sync"))
    BY <2>1, <2>2, <1>3
  <2>3. CASE /\ ins' = expecting
             /\ Send(Extracted("Sync"), "InertialNavSol", t) \/ queue' = Extracted("Sync")
    <3>1. ins'.state = ins.state /\ ins'.obs = ins.obs
      BY <1>0, <2>3
    <3>2. ins.state # None
      BY <2>1 DEF Firable
    <3>3. /\ t \in Time /\ queue["Sync"] # <<>>
          /\ Extracted("Sync") \in [Pin -> Seq(Time)]
          /\ Extracted("Sync")["Sync"] = Tail(queue["Sync"])
          /\ \A o \in Pin \ {"Sync"} : Extracted("Sync")[o] = queue[o]
      BY <1>1, <2>1
    <3>4. \A o \in Pin \ {"InertialNavSol"} : queue'[o] = Extracted("Sync")[o]
      <4>1. CASE queue' = Extracted("Sync")
        BY <4>1
      <4>2. CASE Send(Extracted("Sync"), "InertialNavSol", t)
        <5> HIDE PinFacts
        <5> QED BY <3>3, <4>2, SendLeaves
      <4> QED BY <2>3, <4>1, <4>2
    <3>5. /\ queue'["Sync"] = Tail(queue["Sync"])
          /\ \A o \in Pin \ {"Sync", "InertialNavSol"} : queue'[o] = queue[o]
      BY <3>3, <3>4
    <3> QED BY <2>1, <3>1, <3>2, <3>3, <3>5 DEF InsTakes
  <2> QED BY <2>1, <2>2, <2>3
<1>6. CASE RecvLcKfInsGnssErrors
  <2>1. Chosen("ins", "Errors")
    BY <1>6 DEF RecvLcKfInsGnssErrors
  <2>2. /\ queue' = Extracted("Errors") /\ UNCHANGED <<left, kf, used>>
        /\ ins' = [ins EXCEPT !.needed = FALSE]
        /\ applied' = IF ins.state = None THEN applied ELSE applied \cup {Head(queue["Errors"])}
    BY <1>6 DEF RecvLcKfInsGnssErrors
  <2>3. ins'.state = ins.state /\ ins'.obs = ins.obs
    BY <1>0, <2>2
  <2>4. /\ queue["Errors"] # <<>> /\ queue'["Errors"] = Tail(queue["Errors"])
        /\ \A o \in Pin \ {"Errors"} : queue'[o] = queue[o]
    BY <1>1, <2>1, <2>2
  <2>5. "Errors" \in PinsOf("ins")
    OBVIOUS
  <2>6. InsTakes("Errors")
    BY <2>1, <2>2, <2>3, <2>4 DEF InsTakes
  <2> QED BY <2>5, <2>6
<1> QED BY <1>2, <1>4, <1>5, <1>6 DEF InsCallback

(* The filter uses a measurement, passes over a solution, or asks for one. *)
KfUses ==
  LET t == Head(queue["GNSS"])
  IN  /\ queue["InertialNavSol"] # <<>> /\ queue["GNSS"] # <<>>
      /\ used' = Append(used, t)
      /\ queue'["GNSS"] = Tail(queue["GNSS"])
      /\ queue'["InertialNavSol"] = Tail(queue["InertialNavSol"])
      /\ queue'["Errors"] = queue["Errors"] \/ queue'["Errors"] = Append(queue["Errors"], t)
      /\ running["kf"] => queue'["Errors"] = Append(queue["Errors"], t)
      /\ \A o \in PinsOf("ins") \ {"Errors"} : queue'[o] = queue[o]

KfPassesOver ==
  /\ used' = used /\ queue["InertialNavSol"] # <<>>
  /\ queue'["InertialNavSol"] = Tail(queue["InertialNavSol"])
  /\ \A o \in Pin \ {"InertialNavSol"} : queue'[o] = queue[o]

KfAsks ==
  LET t == Head(queue["GNSS"])
  IN  /\ used' = used /\ queue["GNSS"] # <<>>
      /\ queue'["Sync"] = queue["Sync"] \/ queue'["Sync"] = Append(queue["Sync"], t)
      /\ \A o \in Pin \ {"Sync"} : queue'[o] = queue[o]

(* Every callback of the filter is one of the three. *)
LEMMA KfCallbackTakes ==
  ASSUME Typed, KfCallback
  PROVE  /\ UNCHANGED <<left, ins, applied>>
         /\ KfUses \/ KfPassesOver \/ KfAsks
<1> USE PinFacts DEF Typed
<1>0. wakeup \in [Worker -> BOOLEAN] /\ queue \in [Pin -> Seq(Time)]
  BY DEF TypeOK
<1>1. CASE RecvInertialNavigationSolution
  <2> DEFINE t == Head(queue["InertialNavSol"])
             q == Extracted("InertialNavSol")
             q2 == [q EXCEPT !["GNSS"] = Tail(@)]
  <2>1. /\ Chosen("kf", "InertialNavSol")
        /\ UNCHANGED <<left, ins, applied>>
        /\ \/ /\ GnssMeasuredAt(t) /\ used' = Append(used, t)
              /\ Send(q2, "Errors", t)
           \/ queue' = q /\ used' = used
    BY <1>1 DEF RecvInertialNavigationSolution
  <2>2. /\ t \in Time /\ q \in [Pin -> Seq(Time)] /\ queue["InertialNavSol"] # <<>>
        /\ q["InertialNavSol"] = Tail(queue["InertialNavSol"])
        /\ \A o \in Pin \ {"InertialNavSol"} : q[o] = queue[o]
    BY <2>1, ChosenFacts DEF Worker
  <2>3. CASE /\ GnssMeasuredAt(t) /\ used' = Append(used, t)
             /\ Send(q2, "Errors", t)
    <3>1. queue["GNSS"] # <<>> /\ t = Head(queue["GNSS"])
      BY <2>3 DEF GnssMeasuredAt
    <3> HIDE DEF q, t
    <3>2. Tail(queue["GNSS"]) \in Seq(Time)
      BY <1>0, <3>1
    <3>3. /\ q2 \in [Pin -> Seq(Time)] /\ q2["GNSS"] = Tail(queue["GNSS"])
          /\ \A o \in Pin \ {"GNSS"} : q2[o] = q[o]
      BY <2>2, <3>2
    <3> HIDE DEF q2
    <3>4. Feeder("Errors") = "kf" /\ "Errors" \in Pin /\ Send(q2, "Errors", t)
      BY <2>3 DEF Feeder
    <3>5. /\ \A o \in Pin \ {"Errors"} : queue'[o] = q2[o]
          /\ queue'["Errors"] = q2["Errors"] \/ queue'["Errors"] = Append(q2["Errors"], t)
          /\ running["kf"] => queue'["Errors"] = Append(q2["Errors"], t)
      <4> HIDE PinFacts
      <4>1. /\ q2 \in [Pin -> Seq(Time)] /\ t \in Time /\ "Errors" \in Pin
            /\ wakeup \in [Worker -> BOOLEAN] /\ Send(q2, "Errors", t)
        BY <1>0, <2>2, <3>3, <3>4
      <4>2. \A o \in Pin \ {"Errors"} : queue'[o] = q2[o]
        BY <4>1, SendLeaves
      <4>3. queue'["Errors"] = q2["Errors"] \/ queue'["Errors"] = Append(q2["Errors"], t)
        BY <4>1, SendFacts
      <4>4. running[Feeder("Errors")] => queue'["Errors"] = Append(q2["Errors"], t)
        BY <4>1, SendFacts
      <4> QED BY <3>4, <4>2, <4>3, <4>4
    <3> QED BY <2>1, <2>2, <2>3, <3>1, <3>3, <3>5 DEF KfUses
  <2>4. CASE queue' = q /\ used' = used
    BY <2>1, <2>2, <2>4 DEF KfPassesOver
  <2> QED BY <2>1, <2>3, <2>4
<1>2. CASE RecvGNSSNavigationSolution
  <2>1. /\ Chosen("kf", "GNSS") /\ Send(queue, "Sync", Head(queue["GNSS"]))
        /\ UNCHANGED <<left, ins, applied, used>>
    BY <1>2 DEF RecvGNSSNavigationSolution
  <2>2. queue["GNSS"] # <<>> /\ Head(queue["GNSS"]) \in Time
    BY <2>1, ChosenFacts DEF Worker
  <2>3. "Sync" \in Pin
    OBVIOUS
  <2> HIDE PinFacts
  <2>4. /\ \A o \in Pin \ {"Sync"} : queue'[o] = queue[o]
        /\ \/ queue'["Sync"] = queue["Sync"]
           \/ queue'["Sync"] = Append(queue["Sync"], Head(queue["GNSS"]))
    BY <1>0, <2>1, <2>2, <2>3, SendFacts
  <2> QED BY <2>1, <2>2, <2>4 DEF KfAsks
<1> QED BY <1>1, <1>2 DEF KfCallback

-------------------------------------------------------------------------------
(* The end of data.                                                            *)

(* Where the first item of an empty queue comes from. *)
LEMMA FirstItem ==
  ASSUME Typed, [Next]_vars, NEW p \in EndPins, queue[p] = <<>>, queue'[p] # <<>>
  PROVE  IF p = "Sync" THEN queue["GNSS"] # <<>> ELSE left[Feeder(p)] # <<>>
<1> USE PinFacts DEF EndPins
<1>1. CASE UNCHANGED vars \/ Bookkeeping
  BY <1>1, BookkeepingLeaves DEF vars
<1>2. ASSUME NEW s \in Source, SendNext(s)
      PROVE  IF p = "Sync" THEN queue["GNSS"] # <<>> ELSE left[Feeder(p)] # <<>>
  BY <1>2, SourceSends
<1>3. ASSUME NEW n \in Worker, NEW o \in PinsOf(n), Drop(n, o) PROVE FALSE
  BY <1>3, DropTakes
<1>4. ASSUME InsCallback PROVE FALSE
  BY <1>4, InsCallbackTakes DEF InsTakes
<1>5. CASE KfCallback
  BY <1>5, KfCallbackTakes DEF KfUses, KfPassesOver, KfAsks
<1> QED BY <1>1, <1>2, <1>3, <1>4, <1>5, NextCases

(* What is left only gets less. *)
LEMMA LeftShrinks ==
  ASSUME Typed, [Next]_vars, NEW s \in Source, left[s] = <<>>
  PROVE  left'[s] = <<>>
<1>1. CASE UNCHANGED vars \/ Bookkeeping
  BY <1>1, BookkeepingLeaves DEF vars
<1>2. ASSUME NEW r \in Source, SendNext(r) PROVE left'[s] = <<>>
  <2>1. r # s /\ left' = [left EXCEPT ![r] = Tail(@)]
    BY <1>2, SourceSends
  <2> QED BY <2>1 DEF Typed, TypeOK
<1>3. ASSUME NEW n \in Worker, NEW p \in PinsOf(n), Drop(n, p) PROVE left'[s] = <<>>
  BY <1>3, DropTakes
<1>4. CASE InsCallback
  BY <1>4, InsCallbackTakes DEF InsTakes
<1>5. CASE KfCallback
  BY <1>5, KfCallbackTakes
<1> QED BY <1>1, <1>2, <1>3, <1>4, <1>5, NextCases

(* An end that was announced stays announced. *)
LEMMA FlagsKept ==
  ASSUME Typed, [Next]_vars
  PROVE  /\ \A p \in Pin : noMore[p] => noMore'[p]
         /\ torn => torn'
<1>1. CASE UNCHANGED vars
  BY <1>1 DEF vars
<1>2. CASE Next /\ ~Bookkeeping
  BY <1>2, FlagsLeft
<1>3. CASE Bookkeeping
  <2>1. torn => torn'
    BY <1>3
    DEF Bookkeeping, EndOfData, Wakeup, Break, EndQueue, EndMore, FinishQueue, FinishMore,
        Finish, ReadNoMore
  <2>2. UNCHANGED noMore \/ (\E pins \in SUBSET Pin : Announce(pins))
    <3>1. \A n \in Worker : Ends[n] \in Pin
      BY PinFacts DEF Ends, Worker
    <3> QED
      BY <1>3, <3>1
      DEF Bookkeeping, EndOfData, Wakeup, Break, EndQueue, EndMore, FinishQueue,
          FinishMore, Finish, flowVars, OutPins
  <2> QED BY <2>1, <2>2, AnnounceFacts
<1> QED BY <1>1, <1>2, <1>3

(* What is through stays through: its feeder has nothing left. *)
LEMMA ThroughStays ==
  ASSUME Typed, EndInv, ~torn, [Next]_vars, NEW p \in EndPins, Through(p)
  PROVE  Through(p)'
<1>1. p \in Pin
  BY PinFacts DEF EndPins
<1>2. CASE p = "Sync"
  BY <1>1, <1>2, FirstItem, FlagsKept DEF Through, EndInv, SyncEndIsFinal
<1>3. CASE p # "Sync"
  <2>1. left[Feeder(p)] = <<>>
    BY <1>3 DEF Through, EndInv, SourcesOpen
  <2> QED BY <1>1, <1>3, <2>1, FirstItem, FlagsKept DEF Through
<1> QED BY <1>2, <1>3

(* A source announces its end when it has sent everything. *)
LEMMA SourcesOpenNext ==
  ASSUME Typed, SourcesOpen, [Next]_vars
  PROVE  SourcesOpen'
<1> USE PinFacts
<1>1. ASSUME UNCHANGED <<running, noMore>> PROVE SourcesOpen'
  <2>1. \A p \in EndPins \ {"Sync"} : Feeder(p) \in Source
    BY DEF EndPins, Feeder, Source
  <2> QED BY <1>1, <2>1, LeftShrinks DEF SourcesOpen
<1>2. CASE UNCHANGED vars
  BY <1>1, <1>2 DEF vars
<1>3. CASE Next /\ ~Bookkeeping
  BY <1>1, <1>3, FlagsLeft
<1>4. CASE Bookkeeping
  <2>1. left' = left
    BY <1>4, BookkeepingLeaves
  <2>2. ASSUME NEW s \in Source, EndOfData(s) PROVE SourcesOpen'
    <3>1. /\ left[s] = <<>> /\ running' = [running EXCEPT ![s] = FALSE]
          /\ \A p \in Pin : noMore'[p] <=> noMore[p] \/ Feeder(p) = s
      BY <2>2, AnnounceFacts DEF EndOfData, OutPins
    <3>2. \A r \in Source : left'[r] # <<>> => running'[r]
      BY <2>1, <3>1 DEF SourcesOpen, Typed, TypeOK, Node
    <3> QED BY <2>1, <3>1, <3>2 DEF SourcesOpen, EndPins
  <2>3. ASSUME NEW n \in Worker, EndMore(n) \/ Finish(n) PROVE SourcesOpen'
    <3>1. \A s \in Source : running'[s] = running[s]
      BY <2>3 DEF EndMore, Finish, Source, Worker, Node, Typed, TypeOK
    <3>2. \A p \in EndPins \ {"Sync"} : noMore'[p] <=> noMore[p]
      BY <2>3, AnnounceFacts DEF EndMore, Finish, Ends, OutPins, Feeder, Worker, EndPins
    <3> QED BY <2>1, <3>1, <3>2 DEF SourcesOpen
  <2>4. ASSUME NEW n \in Worker,
               Wakeup(n) \/ Break(n) \/ EndQueue(n) \/ FinishQueue(n) \/ FinishMore(n)
        PROVE  SourcesOpen'
    BY <1>1, <2>4 DEF Wakeup, Break, EndQueue, FinishQueue, FinishMore, flowVars
  <2> QED BY <1>4, <2>2, <2>3, <2>4 DEF Bookkeeping
<1> QED BY <1>2, <1>3, <1>4

(* A pin that is checked now was checked before, or has just been found        *)
(* through: first the queue was empty, then there was no more data, and no     *)
(* item came between.                                                          *)
LEMMA NewlyChecked ==
  ASSUME Typed, CheckedIsThrough, [Next]_vars, ~torn', NEW n \in Worker,
         NEW i \in 1 .. Len(InPins[n]), InPins[n][i] \in EndPins, Checked(n, i)'
  PROVE  Through(InPins[n][i])
<1>1. ~torn
  BY FlagsKept
<1>2. ASSUME Checked(n, i) PROVE Through(InPins[n][i])
  BY <1>1, <1>2 DEF CheckedIsThrough
<1>3. ASSUME pc'[n] = pc[n], running'[n] = running[n] PROVE Through(InPins[n][i])
  BY <1>2, <1>3 DEF Checked
<1>4. ASSUME NEW at, Goto(n, at), running'[n] = running[n] PROVE Through(InPins[n][i])
  <2>1. pc'[n].pin = 1
    BY <1>4 DEF Goto, Typed, TypeOK
  <2> QED BY <1>2, <1>4, <2>1 DEF Checked
<1>5. CASE UNCHANGED vars
  BY <1>3, <1>5 DEF vars
<1>6. CASE Next /\ ~Bookkeeping
  <2>1. running' = running
    BY <1>6, FlagsLeft
  <2>2. pc' = pc \/ (\E m \in Worker : Goto(m, "endQueue"))
    BY <1>6, NextCases
    DEF SendNext, Drop, InsCallback, RecvPosVelAttInit, RecvImuObs, RecvSync, Integrate,
        RecvLcKfInsGnssErrors, KfCallback, RecvInertialNavigationSolution,
        RecvGNSSNavigationSolution, Worker
  <2> QED BY <1>3, <1>4, <2>1, <2>2 DEF Goto, Typed, TypeOK
<1>7. ASSUME NEW s \in Source, EndOfData(s) PROVE Through(InPins[n][i])
  BY <1>3, <1>7 DEF EndOfData, Source, Worker, Node, Typed, TypeOK
<1>8. ASSUME NEW m \in Worker, Wakeup(m) \/ Break(m) \/ EndQueue(m) \/ EndMore(m)
      PROVE  Through(InPins[n][i])
  <2>1. running' = running /\ (\E at \in PC : Goto(m, at))
    BY <1>8 DEF Wakeup, Break, EndQueue, EndMore, flowVars, PC
  <2> QED BY <1>3, <1>4, <2>1 DEF Goto, Typed, TypeOK
<1>9. ASSUME NEW m \in Worker, FinishQueue(m) PROVE Through(InPins[n][i])
  <2>1. running' = running
    BY <1>9 DEF FinishQueue, flowVars
  <2>2. CASE m # n
    BY <1>3, <1>9, <2>1, <2>2 DEF FinishQueue, Typed, TypeOK
  <2>3. CASE m = n
    <3>1. pc[n] \in [at : PC, pin : 1 .. 5] /\ pc[n].at = "finish"
      BY <1>9, <2>3 DEF FinishQueue, At, Typed, TypeOK
    <3>2. CASE i < pc[n].pin
      BY <1>2, <3>1, <3>2 DEF Checked
    <3>3. CASE ~(i < pc[n].pin)
      <4>1. CASE ~BlocksFromFinishing(FinishPin(n))
        <5>1. pc'[n].pin = pc[n].pin + 1
          BY <1>9, <2>3, <4>1 DEF FinishQueue, Typed, TypeOK
        <5>2. i \in Nat /\ pc[n].pin \in Nat
          BY <3>1, PinFacts DEF Worker
        <5>3. Checked(n, i) \/ i = pc[n].pin
          BY <2>1, <3>3, <5>1, <5>2 DEF Checked
        <5>4. ASSUME i = pc[n].pin PROVE FALSE
          BY <4>1, <5>4 DEF FinishPin, BlocksFromFinishing, EndPins
        <5> QED BY <1>2, <5>3, <5>4
      <4>2. CASE BlocksFromFinishing(FinishPin(n))
        <5>1. pc'[n].at = "sleep" \/ pc'[n].pin = pc[n].pin
          BY <1>9, <2>3, <3>1, <4>2 DEF FinishQueue, Typed, TypeOK
        <5> QED BY <1>2, <2>1, <3>3, <5>1 DEF Checked
      <4> QED BY <4>1, <4>2
    <3> QED BY <3>2, <3>3
  <2> QED BY <2>2, <2>3
<1>10. ASSUME NEW m \in Worker, FinishMore(m) PROVE Through(InPins[n][i])
  <2>1. running' = running
    BY <1>10 DEF FinishMore, flowVars
  <2>2. CASE m # n
    BY <1>3, <1>10, <2>1, <2>2 DEF FinishMore, Typed, TypeOK
  <2>3. CASE m = n
    <3>1. pc[n] \in [at : PC, pin : 1 .. 5] /\ pc[n].at = "finishMore"
      BY <1>10, <2>3 DEF FinishMore, At, Typed, TypeOK
    <3>2. CASE i < pc[n].pin
      BY <1>2, <3>1, <3>2 DEF Checked
    <3>3. CASE i = pc[n].pin
      <4>1. CASE noMore[FinishPin(n)]
        BY <1>10, <2>3, <3>3, <4>1 DEF FinishMore, ReadNoMore, FinishPin, Through
      <4>2. CASE ~noMore[FinishPin(n)]
        <5>1. pc'[n].at = "sleep"
          BY <1>10, <2>3, <4>2 DEF FinishMore, Typed, TypeOK
        <5> QED BY <1>2, <2>1, <5>1 DEF Checked
      <4> QED BY <4>1, <4>2
    <3>4. CASE i > pc[n].pin
      <4>1. pc'[n].at = "sleep" \/ pc'[n].pin = pc[n].pin + 1
        BY <1>10, <2>3 DEF FinishMore, Typed, TypeOK
      <4>2. i \in Nat /\ pc[n].pin \in Nat
        BY <3>1
      <4> QED BY <1>2, <2>1, <3>4, <4>1, <4>2 DEF Checked
    <3> QED BY <3>1, <3>2, <3>3, <3>4
  <2> QED BY <2>2, <2>3
<1>11. ASSUME NEW m \in Worker, Finish(m) PROVE Through(InPins[n][i])
  <2>1. CASE m # n
    BY <1>3, <1>11, <2>1 DEF Finish, Goto, Worker, Node, Typed, TypeOK
  <2>2. CASE m = n
    <3>1. pc[n].at = "finish" /\ pc[n].pin > Len(InPins[n])
      BY <1>11, <2>2 DEF Finish, At
    <3>2. pc[n] \in [at : PC, pin : 1 .. 5]
      BY DEF Typed, TypeOK
    <3>3. i < pc[n].pin
      <4>1. CASE n = "ins"
        BY <3>1, <3>2, <4>1, PinFacts
      <4>2. CASE n = "kf"
        BY <3>1, <3>2, <4>2, PinFacts
      <4> QED BY <4>1, <4>2 DEF Worker
    <3> QED BY <1>2, <3>1, <3>3 DEF Checked
  <2> QED BY <2>1, <2>2
<1> QED
  BY <1>5, <1>6, <1>7, <1>8, <1>9, <1>10, <1>11 DEF Bookkeeping

(* A pin found through is so when the worker finishes, and after. *)
LEMMA CheckedIsThroughNext ==
  ASSUME Typed, EndInv, [Next]_vars
  PROVE  CheckedIsThrough'
<1> SUFFICES ASSUME ~torn', NEW n \in Worker, NEW i \in 1 .. Len(InPins[n]),
                    InPins[n][i] \in EndPins, Checked(n, i)'
             PROVE  Through(InPins[n][i])'
  BY DEF CheckedIsThrough
<1>1. ~torn /\ Through(InPins[n][i])
  BY NewlyChecked, FlagsKept DEF EndInv
<1> QED BY <1>1, ThroughStays

(* The two places that announce the end of Sync have seen that of GNSS. *)
LEMMA SyncEndIsFinalNext ==
  ASSUME Typed, EndInv, [Next]_vars
  PROVE  SyncEndIsFinal'
<1> SUFFICES ASSUME ~torn', noMore'["Sync"]
             PROVE  left'["gnss"] = <<>> /\ queue'["GNSS"] = <<>>
  BY DEF SyncEndIsFinal
<1>0. ~torn
  BY FlagsKept
<1>1. SUFFICES left["gnss"] = <<>> /\ queue["GNSS"] = <<>>
  BY <1>1, LeftShrinks, FirstItem DEF EndPins, Source, Feeder
<1>2. ASSUME noMore["Sync"]
      PROVE  left["gnss"] = <<>> /\ queue["GNSS"] = <<>>
  BY <1>0, <1>2 DEF EndInv, SyncEndIsFinal
<1>3. CASE UNCHANGED vars \/ (Next /\ ~Bookkeeping)
  BY <1>2, <1>3, FlagsLeft DEF vars
<1>4. ASSUME NEW pins, Announce(pins), "Sync" \notin pins
      PROVE  left["gnss"] = <<>> /\ queue["GNSS"] = <<>>
  BY <1>2, <1>4, AnnounceFacts, PinFacts
<1>5. ASSUME NEW s \in Source, EndOfData(s)
      PROVE  left["gnss"] = <<>> /\ queue["GNSS"] = <<>>
  <2>1. "Sync" \notin OutPins(s)
    BY DEF OutPins, Feeder, Source
  <2> QED BY <1>4, <1>5, <2>1 DEF EndOfData
<1>6. ASSUME NEW n \in Worker, EndMore(n)
      PROVE  left["gnss"] = <<>> /\ queue["GNSS"] = <<>>
  <2>1. CASE noMore[EndOf[n]] /\ n = "kf"
    <3>1. noMore["GNSS"] /\ queue["GNSS"] = <<>>
      BY <1>6, <2>1 DEF EndMore, ReadNoMore, EndOf
    <3> QED BY <3>1 DEF EndInv, SourcesOpen, EndPins, Feeder
  <2>2. CASE noMore[EndOf[n]] /\ n = "ins"
    <3>1. Announce({"InertialNavSol"})
      BY <1>6, <2>2 DEF EndMore, Ends
    <3> QED BY <1>4, <3>1
  <2>3. CASE ~noMore[EndOf[n]]
    BY <1>2, <1>6, <2>3 DEF EndMore
  <2> QED BY <2>1, <2>2, <2>3 DEF Worker
<1>7. ASSUME NEW n \in Worker, Finish(n)
      PROVE  left["gnss"] = <<>> /\ queue["GNSS"] = <<>>
  <2>1. CASE n = "kf"
    <3>1. pc[n].at = "finish" /\ pc[n].pin > 2 /\ InPins["kf"][2] = "GNSS"
      BY <1>7, <2>1, PinFacts DEF Finish, At, InPins
    <3>2. Through("GNSS")
      BY <1>0, <2>1, <3>1, PinFacts
      DEF EndInv, CheckedIsThrough, Checked, EndPins, Worker
    <3> QED BY <3>2 DEF EndInv, SourcesOpen, EndPins, Feeder, Through
  <2>2. CASE n = "ins"
    <3>1. "Sync" \notin OutPins("ins")
      BY DEF OutPins, Feeder
    <3> QED BY <1>4, <1>7, <2>2, <3>1 DEF Finish
  <2> QED BY <2>1, <2>2 DEF Worker
<1>8. ASSUME NEW n \in Worker,
             Wakeup(n) \/ Break(n) \/ EndQueue(n) \/ FinishQueue(n) \/ FinishMore(n)
      PROVE  left["gnss"] = <<>> /\ queue["GNSS"] = <<>>
  BY <1>2, <1>8 DEF Wakeup, Break, EndQueue, FinishQueue, FinishMore, flowVars
<1> QED BY <1>3, <1>5, <1>6, <1>7, <1>8 DEF Bookkeeping

-------------------------------------------------------------------------------
(* Measurements and errors.                                                    *)

(* Sequences: the rest after the first item. *)
LEMMA TailFacts ==
  ASSUME NEW S, NEW s \in Seq(S), s # <<>>
  PROVE  /\ Len(s) \in Nat /\ Len(s) >= 1 /\ Head(s) = s[1]
         /\ Tail(s) \in Seq(S) /\ Len(Tail(s)) = Len(s) - 1
         /\ \A i \in 1 .. Len(s) - 1 : Tail(s)[i] = s[i + 1]
OBVIOUS

(* Sequences: one more item at the end. *)
LEMMA AppendFacts ==
  ASSUME NEW S, NEW s \in Seq(S), NEW e \in S
  PROVE  /\ Len(s) \in Nat
         /\ Append(s, e) \in Seq(S) /\ Len(Append(s, e)) = Len(s) + 1
         /\ \A i \in 1 .. Len(s) : Append(s, e)[i] = s[i]
         /\ Append(s, e)[Len(s) + 1] = e
OBVIOUS

(* Types of the sequences the proofs reason about. *)
LEMMA DataFacts ==
  ASSUME Typed
  PROVE  /\ data.gnss \in Seq(Time) /\ left["gnss"] \in Seq(Time) /\ used \in Seq(Time)
         /\ \A p \in Pin : queue[p] \in Seq(Time)
         /\ ins.obs \in Seq(Time) /\ ins.state \in Nat
         /\ Time \subseteq Nat
BY LoopAssumption DEF Typed, TypeOK, Source, Time

(* What may become of the measurements in a step. *)
LEMMA GnssMoves ==
  ASSUME Typed, SourcesOpen, [Next]_vars
  PROVE  /\ data' = data
         /\ \/ UNCHANGED <<used, queue["GNSS"], left["gnss"]>>
            \/ /\ left["gnss"] # <<>> /\ left'["gnss"] = Tail(left["gnss"])
               /\ queue'["GNSS"] = Append(queue["GNSS"], Head(left["gnss"]))
               /\ used' = used
            \/ /\ queue["GNSS"] # <<>> /\ queue'["GNSS"] = Tail(queue["GNSS"])
               /\ used' = Append(used, Head(queue["GNSS"]))
               /\ left'["gnss"] = left["gnss"]
<1> USE PinFacts
<1>0. data' = data
  BY FlagsLeft, BookkeepingLeaves DEF vars
<1>1. CASE UNCHANGED vars \/ Bookkeeping
  BY <1>0, <1>1, BookkeepingLeaves DEF vars
<1>2. ASSUME NEW s \in Source, SendNext(s), s # "gnss"
      PROVE  UNCHANGED <<used, queue["GNSS"], left["gnss"]>>
  <2>1. left'["gnss"] = left["gnss"]
    BY <1>2, SourceSends DEF Typed, TypeOK, Source
  <2> QED BY <1>2, <2>1, SourceSends DEF Feeder
<1>3. CASE SendNext("gnss")
  <2>1. running["gnss"]
    BY <1>3, SourceSends DEF SourcesOpen, Source
  <2>2. left'["gnss"] = Tail(left["gnss"])
    BY <1>3, SourceSends DEF Typed, TypeOK, Source
  <2>3. queue'["GNSS"] = Append(queue["GNSS"], Head(left["gnss"]))
    BY <1>3, <2>1, SourceSends DEF Feeder, Source
  <2> QED BY <1>0, <1>3, <2>2, <2>3, SourceSends DEF Source
<1>4. ASSUME NEW n \in Worker, NEW o \in PinsOf(n), Drop(n, o)
      PROVE  UNCHANGED <<used, queue["GNSS"], left["gnss"]>>
  BY <1>4, DropTakes
<1>5. ASSUME InsCallback
      PROVE  UNCHANGED <<used, queue["GNSS"], left["gnss"]>>
  BY <1>5, InsCallbackTakes DEF InsTakes
<1>6. CASE KfCallback
  BY <1>0, <1>6, KfCallbackTakes DEF KfUses, KfPassesOver, KfAsks
<1> QED BY <1>0, <1>1, <1>2, <1>3, <1>4, <1>5, <1>6, NextCases

(* A measurement goes from the source to the queue to the used ones, in order. *)
LEMMA MeasurementsNext ==
  ASSUME Typed, SourcesOpen, Measurements, [Next]_vars
  PROVE  Measurements'
<1> DEFINE l == left["gnss"]  l2 == left'["gnss"]
           q == queue["GNSS"] q2 == queue'["GNSS"]
<1>0. /\ l \in Seq(Time) /\ q \in Seq(Time) /\ used \in Seq(Time)
      /\ data' = data
  BY DataFacts, PinFacts, GnssMoves
<1>1. /\ Len(used) + Len(q) + Len(l) = Len(data.gnss)
      /\ \A i \in 1 .. Len(used) : used[i] = data.gnss[i]
      /\ \A i \in 1 .. Len(q) : q[i] = data.gnss[Len(used) + i]
      /\ \A i \in 1 .. Len(l) : l[i] = data.gnss[Len(used) + Len(q) + i]
  BY DEF Measurements
<1>2. SUFFICES
        /\ Len(used') + Len(q2) + Len(l2) = Len(data.gnss)
        /\ \A i \in 1 .. Len(used') : used'[i] = data.gnss[i]
        /\ \A i \in 1 .. Len(q2) : q2[i] = data.gnss[Len(used') + i]
        /\ \A i \in 1 .. Len(l2) : l2[i] = data.gnss[Len(used') + Len(q2) + i]
  BY <1>0 DEF Measurements
<1>3. CASE UNCHANGED <<used, queue["GNSS"], left["gnss"]>>
  BY <1>1, <1>3
<1>4. CASE l # <<>> /\ l2 = Tail(l) /\ q2 = Append(q, Head(l)) /\ used' = used
  <2> HIDE DEF l, l2, q, q2
  <2>1. Head(l) \in Time
    BY <1>0, <1>4
  <2>2. /\ Len(l) \in Nat /\ Len(l) >= 1 /\ Head(l) = l[1] /\ Len(l2) = Len(l) - 1
        /\ \A i \in 1 .. Len(l) - 1 : l2[i] = l[i + 1]
    BY <1>0, <1>4, TailFacts
  <2>3. /\ Len(q) \in Nat /\ Len(q2) = Len(q) + 1
        /\ \A i \in 1 .. Len(q) : q2[i] = q[i]
        /\ q2[Len(q) + 1] = Head(l)
    BY <1>0, <1>4, <2>1, AppendFacts
  <2>4. Len(used) \in Nat
    BY <1>0
  <2>5. ASSUME NEW i \in 1 .. Len(q2) PROVE q2[i] = data.gnss[Len(used) + i]
    <3>1. CASE i <= Len(q)
      BY <1>1, <2>3, <3>1
    <3>2. CASE i = Len(q) + 1
      <4>1. l[1] = data.gnss[Len(used) + Len(q) + 1]
        BY <1>1, <2>2
      <4>2. Len(used) + i = Len(used) + Len(q) + 1
        BY <2>3, <2>4, <3>2
      <4> QED BY <2>2, <2>3, <3>2, <4>1, <4>2
    <3> QED BY <2>3, <3>1, <3>2
  <2>6. ASSUME NEW i \in 1 .. Len(l2) PROVE l2[i] = data.gnss[Len(used) + Len(q2) + i]
    <3>1. i + 1 \in 1 .. Len(l) /\ l2[i] = l[i + 1]
      BY <2>2
    <3>2. Len(used) + Len(q) + (i + 1) = Len(used) + Len(q2) + i
      BY <2>2, <2>3, <2>4
    <3> QED BY <1>1, <3>1, <3>2
  <2>7. Len(used) + Len(q2) + Len(l2) = Len(data.gnss)
    <3>1. Len(used) + Len(q2) + Len(l2) = Len(used) + Len(q) + Len(l)
      BY <2>2, <2>3, <2>4
    <3> QED BY <1>1, <3>1
  <2>8. used' = used
    BY <1>4
  <2>9. \A i \in 1 .. Len(used) : used[i] = data.gnss[i]
    BY <1>1
  <2> QED BY <2>5, <2>6, <2>7, <2>8, <2>9
<1>5. CASE q # <<>> /\ q2 = Tail(q) /\ used' = Append(used, Head(q)) /\ l2 = l
  <2> HIDE DEF l, l2, q, q2
  <2>1. Head(q) \in Time
    BY <1>0, <1>5
  <2>2. /\ Len(q) \in Nat /\ Len(q) >= 1 /\ Head(q) = q[1] /\ Len(q2) = Len(q) - 1
        /\ \A i \in 1 .. Len(q) - 1 : q2[i] = q[i + 1]
    BY <1>0, <1>5, TailFacts
  <2>3. /\ Len(used) \in Nat /\ Len(used') = Len(used) + 1
        /\ \A i \in 1 .. Len(used) : used'[i] = used[i]
        /\ used'[Len(used) + 1] = Head(q)
    BY <1>0, <1>5, <2>1, AppendFacts
  <2>4. Len(l) \in Nat
    BY <1>0
  <2>5. ASSUME NEW i \in 1 .. Len(used') PROVE used'[i] = data.gnss[i]
    <3>1. CASE i <= Len(used)
      BY <1>1, <2>3, <3>1
    <3>2. CASE i = Len(used) + 1
      BY <1>1, <2>2, <2>3, <3>2
    <3> QED BY <2>3, <3>1, <3>2
  <2>6. ASSUME NEW i \in 1 .. Len(q2) PROVE q2[i] = data.gnss[Len(used') + i]
    <3>1. i + 1 \in 1 .. Len(q) /\ q2[i] = q[i + 1]
      BY <2>2
    <3>2. Len(used) + (i + 1) = Len(used') + i
      BY <2>2, <2>3
    <3> QED BY <1>1, <3>1, <3>2
  <2>7. Len(used') + Len(q2) = Len(used) + Len(q)
    BY <2>2, <2>3
  <2>8. Len(used') + Len(q2) + Len(l2) = Len(data.gnss)
    BY <1>1, <1>5, <2>7
  <2> QED BY <1>1, <1>5, <2>5, <2>6, <2>7, <2>8
<1> QED BY <1>3, <1>4, <1>5, GnssMoves

(* The measurement that waits first is the one after the last that was used. *)
LEMMA NextMeasurement ==
  ASSUME Typed, Measurements, queue["GNSS"] # <<>>
  PROVE  /\ Len(used) \in Nat /\ Len(used) + 1 \in 1 .. Len(data.gnss)
         /\ Head(queue["GNSS"]) = data.gnss[Len(used) + 1]
         /\ Head(queue["GNSS"]) \in Time
<1>1. queue["GNSS"] \in Seq(Time) /\ left["gnss"] \in Seq(Time) /\ used \in Seq(Time)
  BY DataFacts, PinFacts
<1>2. /\ Len(queue["GNSS"]) \in Nat /\ Len(queue["GNSS"]) >= 1
      /\ Head(queue["GNSS"]) = queue["GNSS"][1] /\ Head(queue["GNSS"]) \in Time
      /\ Len(left["gnss"]) \in Nat /\ Len(used) \in Nat
  BY <1>1
<1>3. Len(used) + Len(queue["GNSS"]) + Len(left["gnss"]) = Len(data.gnss)
  BY DEF Measurements
<1>4. Len(used) + 1 \in 1 .. Len(data.gnss)
  <2> DEFINE a == Len(used)  b == Len(queue["GNSS"])  c == Len(left["gnss"])
             d == Len(data.gnss)
  <2>1. a \in Nat /\ b \in Nat /\ b >= 1 /\ c \in Nat /\ d \in Nat
    BY <1>2, DataFacts
  <2>2. a + b + c = d
    BY <1>3
  <2> HIDE DEF a, b, c, d
  <2>3. a + 1 \in 1 .. d
    BY <2>1, <2>2
  <2> QED BY <2>3 DEF a, d
<1>5. queue["GNSS"][1] = data.gnss[Len(used) + 1]
  BY <1>2 DEF Measurements
<1> QED BY <1>2, <1>4, <1>5

(* Sequences of times: their items are numbers. *)
LEMMA TimesFacts ==
  ASSUME NEW s \in Seq(Time)
  PROVE  /\ Len(s) \in Nat /\ \A i \in 1 .. Len(s) : s[i] \in Nat /\ s[i] \in Time
         /\ s # <<>> => 1 \in 1 .. Len(s) /\ Head(s) = s[1] /\ Head(s) \in Nat
<1>1. Len(s) \in Nat /\ \A i \in 1 .. Len(s) : s[i] \in Time
  OBVIOUS
<1>2. ASSUME s # <<>> PROVE 1 \in 1 .. Len(s) /\ Head(s) = s[1]
  BY <1>2
<1> QED BY <1>1, <1>2 DEF Time

(* The measurements of the recording are in order of time. *)
LEMMA DataInOrder == ASSUME Typed PROVE InTime(data.gnss)
BY GnssInOrder DEF InTime, Typed, TypeOK

(* What is in order of time stays so without its first item ... *)
LEMMA InTimeTail ==
  ASSUME NEW s \in Seq(Time), s # <<>>, InTime(s)
  PROVE  InTime(Tail(s))
<1>1. ASSUME NEW i \in 1 .. Len(Tail(s)), NEW j \in 1 .. Len(Tail(s)), i <= j
      PROVE  Tail(s)[i] <= Tail(s)[j]
  <2>1. Len(s) \in Nat /\ i \in 1 .. Len(s) - 1 /\ j \in 1 .. Len(s) - 1
    BY TailFacts
  <2>2. Tail(s)[i] = s[i + 1] /\ Tail(s)[j] = s[j + 1]
    BY <2>1, TailFacts
  <2>3. i + 1 \in 1 .. Len(s) /\ j + 1 \in 1 .. Len(s) /\ i + 1 <= j + 1
    BY <1>1, <2>1
  <2> QED BY <2>2, <2>3 DEF InTime
<1> QED BY <1>1 DEF InTime

(* ... and with one more that is not earlier than the others. *)
LEMMA InTimeAppend ==
  ASSUME NEW s \in Seq(Time), NEW t \in Time, InTime(s),
         \A i \in 1 .. Len(s) : s[i] <= t
  PROVE  InTime(Append(s, t))
<1>1. ASSUME NEW i \in 1 .. Len(Append(s, t)), NEW j \in 1 .. Len(Append(s, t)), i <= j
      PROVE  Append(s, t)[i] <= Append(s, t)[j]
  <2>1. /\ Len(s) \in Nat /\ i \in 1 .. Len(s) + 1 /\ j \in 1 .. Len(s) + 1
        /\ \A k \in 1 .. Len(s) : Append(s, t)[k] = s[k]
        /\ Append(s, t)[Len(s) + 1] = t
    BY AppendFacts
  <2>2. CASE j <= Len(s)
    <3>1. i \in 1 .. Len(s) /\ j \in 1 .. Len(s)
      BY <1>1, <2>1, <2>2
    <3> QED BY <1>1, <2>1, <3>1 DEF InTime
  <2>3. CASE j = Len(s) + 1 /\ i <= Len(s)
    <3>1. i \in 1 .. Len(s)
      BY <2>1, <2>3
    <3> QED BY <2>1, <2>3, <3>1
  <2>4. CASE j = Len(s) + 1 /\ i = Len(s) + 1
    BY <2>1, <2>4 DEF Time
  <2> QED BY <2>1, <2>2, <2>3, <2>4
<1> QED BY <1>1 DEF InTime

(* When the integrator takes an item that is no correction, it waits for none: *)
(* every measurement from before the item has been used and corrected, and no  *)
(* Sync is for an earlier time.                                                *)
LEMMA Reached ==
  ASSUME Typed, EndInv, Measurements, Corrections, Requested, ~torn,
         NEW p \in PinsOf("ins"), p # "Errors", Chosen("ins", p)
  PROVE  /\ \A i \in 1 .. Len(data.gnss) :
              data.gnss[i] < Head(queue[p]) => i <= Len(used) /\ data.gnss[i] \in applied
         /\ \A j \in 1 .. Len(queue["Sync"]) : Head(queue[p]) <= queue["Sync"][j]
<1> DEFINE t == Head(queue[p])
<1>1. /\ queue[p] # <<>> /\ t \in Time /\ t \in Nat
      /\ queue["Sync"] \in Seq(Time) /\ queue["Errors"] \in Seq(Time)
      /\ queue["GNSS"] \in Seq(Time) /\ left["gnss"] \in Seq(Time)
      /\ data.gnss \in Seq(Time) /\ used \in Seq(Time) /\ Time \subseteq Nat
  BY ChosenFacts, DataFacts, PinFacts DEF Worker, Typed
<1>2. \A o \in PinsOf("ins") : queue[o] # <<>> => t <= Head(queue[o])
  <2> SUFFICES ASSUME NEW o \in PinsOf("ins"), queue[o] # <<>> PROVE t <= Head(queue[o])
    OBVIOUS
  <2>1. CASE o = p
    BY <1>1, <2>1
  <2>2. CASE o # p
    <3>1. t < Head(queue[o]) \/ t = Head(queue[o])
      BY <2>2 DEF Chosen, Earliest
    <3>2. queue[o] \in Seq(Time)
      BY DataFacts, PinFacts
    <3>3. Head(queue[o]) \in Nat
      BY <3>2, TimesFacts
    <3> QED BY <1>1, <3>1, <3>3
  <2> QED BY <2>1, <2>2
<1>3. running["ins"]
  <2> SUFFICES ASSUME ~running["ins"] PROVE FALSE
    OBVIOUS
  <2>1. PICK i \in DOMAIN InPins["ins"] : InPins["ins"][i] = p
    BY DEF PinsOf
  <2>2. i \in 1 .. Len(InPins["ins"])
    BY <2>1 DEF InPins
  <2>3. Checked("ins", i) /\ p \in EndPins
    BY PinFacts DEF Checked, EndPins
  <2>4. Through(p)
    BY <2>1, <2>2, <2>3 DEF EndInv, CheckedIsThrough, Worker
  <2> QED BY <1>1, <2>4 DEF Through
<1>4. queue["Sync"] # <<>> \/ noMore["Sync"]
  <2>1. AllInputPinsHaveData("ins")
    BY <1>3 DEF Chosen
  <2>2. NeededForTemporalQueueCheck("Sync") /\ ~QueueBlocked("Sync")
    BY DEF NeededForTemporalQueueCheck, QueueBlocked
  <2> QED BY <2>1, <2>2, PinFacts DEF AllInputPinsHaveData
<1>5. ASSUME NEW j \in 1 .. Len(queue["Sync"]) PROVE t <= queue["Sync"][j]
  <2>1. queue["Sync"] # <<>> /\ 1 \in 1 .. Len(queue["Sync"]) /\ 1 <= j
    BY <1>1
  <2>2. t <= queue["Sync"][1]
    BY <1>2, <2>1, PinFacts
  <2>3. queue["Sync"][1] <= queue["Sync"][j]
    BY <2>1 DEF Requested, InTime
  <2>4. queue["Sync"][1] \in Nat /\ queue["Sync"][j] \in Nat
    BY <1>1, <2>1, TimesFacts
  <2> QED BY <1>1, <2>2, <2>3, <2>4
<1>6. ASSUME NEW i \in 1 .. Len(data.gnss), data.gnss[i] < t PROVE i <= Len(used)
  <2>1. /\ Len(used) \in Nat /\ Len(data.gnss) \in Nat /\ i \in Nat
        /\ \A k \in 1 .. Len(data.gnss) : data.gnss[k] \in Nat
    BY <1>1, TimesFacts
  <2>2. CASE queue["Sync"] # <<>>
    <3>1. 1 \in 1 .. Len(queue["Sync"])
      BY <1>1, <2>2
    <3>2. PICK k \in 1 .. Len(data.gnss) : k <= Len(used) + 1 /\ queue["Sync"][1] = data.gnss[k]
      BY <3>1 DEF Requested
    <3>3. t <= data.gnss[k]
      BY <1>5, <3>1, <3>2
    <3>4. ~(k <= i)
      <4>1. k <= i => data.gnss[k] <= data.gnss[i]
        BY DataInOrder DEF InTime
      <4>2. data.gnss[k] \in Nat /\ data.gnss[i] \in Nat
        BY <2>1
      <4> QED BY <1>1, <1>6, <3>3, <4>1, <4>2
    <3> QED BY <2>1, <3>2, <3>4
  <2>3. CASE noMore["Sync"]
    <3>1. left["gnss"] = <<>> /\ queue["GNSS"] = <<>>
      BY <2>3 DEF EndInv, SyncEndIsFinal
    <3>2. Len(left["gnss"]) = 0 /\ Len(queue["GNSS"]) = 0
      BY <3>1
    <3>3. Len(used) + Len(queue["GNSS"]) + Len(left["gnss"]) = Len(data.gnss)
      BY DEF Measurements
    <3>4. Len(used) = Len(data.gnss)
      BY <2>1, <3>2, <3>3
    <3> QED BY <3>4
  <2> QED BY <1>4, <2>2, <2>3
<1>7. ASSUME NEW i \in 1 .. Len(data.gnss), data.gnss[i] < t PROVE data.gnss[i] \in applied
  <2>1. i \in 1 .. Len(used) /\ data.gnss[i] \in Nat
    <3>1. Len(used) \in Nat /\ Len(data.gnss) \in Nat /\ data.gnss[i] \in Nat
      BY <1>1, TimesFacts
    <3> QED BY <1>6, <1>7, <3>1
  <2>2. used[i] = data.gnss[i]
    BY <2>1 DEF Measurements
  <2>3. ASSUME NEW j \in 1 .. Len(queue["Errors"]), queue["Errors"][j] = used[i] PROVE FALSE
    <3>1. queue["Errors"] # <<>> /\ 1 \in 1 .. Len(queue["Errors"]) /\ 1 <= j
      BY <1>1
    <3>2. t <= queue["Errors"][1]
      BY <1>2, <3>1, PinFacts
    <3>3. queue["Errors"][1] <= queue["Errors"][j]
      BY <3>1 DEF Corrections, InTime
    <3>4. queue["Errors"][1] \in Nat
      BY <1>1, <3>1, TimesFacts
    <3> QED BY <1>1, <1>7, <2>1, <2>2, <2>3, <3>2, <3>3, <3>4
  <2> QED BY <2>1, <2>2, <2>3 DEF Corrections
<1> QED BY <1>5, <1>6, <1>7

(* Steps that leave state, corrections and measurements alone: at most they    *)
(* drop a Sync or a solution.                                                  *)
Elsewhere ==
  /\ UNCHANGED <<ins, applied, used, queue["Errors"]>>
  /\ \/ queue'["Sync"] = queue["Sync"]
     \/ queue["Sync"] # <<>> /\ queue'["Sync"] = Tail(queue["Sync"])
  /\ queue'["InertialNavSol"] # <<>> => queue["InertialNavSol"] # <<>>

(* A step of the loop leaves the corrections alone or is a callback. *)
LEMMA OrderCases ==
  ASSUME Typed, [Next]_vars
  PROVE  /\ data' = data /\ (torn => torn')
         /\ \/ Elsewhere
            \/ \E p \in PinsOf("ins") : InsTakes(p)
            \/ UNCHANGED <<ins, applied>> /\ (KfUses \/ KfPassesOver \/ KfAsks)
<1> USE PinFacts
<1>0. data' = data /\ (torn => torn')
  BY FlagsLeft, BookkeepingLeaves, FlagsKept DEF vars
<1>1. CASE UNCHANGED vars \/ Bookkeeping
  BY <1>0, <1>1, BookkeepingLeaves DEF vars, Elsewhere
<1>2. ASSUME NEW s \in Source, SendNext(s) PROVE Elsewhere
  BY <1>2, SourceSends DEF Elsewhere
<1>3. ASSUME NEW n \in Worker, NEW p \in PinsOf(n), Drop(n, p) PROVE Elsewhere
  <2>1. p # "Errors"
    BY <1>3, DropTakes DEF Firable, QueueBlocked
  <2> QED BY <1>3, <2>1, DropTakes DEF Elsewhere
<1> QED BY <1>0, <1>1, <1>2, <1>3, InsCallbackTakes, KfCallbackTakes, NextCases

(* A state once there is replaced by later ones only. *)
LEMMA StateStays ==
  ASSUME Typed, [Next]_vars, ins.state # None
  PROVE  ins'.state # None
<1>1. ASSUME NEW p \in PinsOf("ins"), InsTakes(p) PROVE ins'.state # None
  <2>1. Head(queue[p]) \in Time
    BY <1>1, ChosenFacts DEF InsTakes, Worker, Typed
  <2> QED BY <1>1, <2>1 DEF InsTakes, Time
<1> QED BY <1>1, OrderCases DEF Elsewhere

(* The integrator passes a measurement when Reached says it may. *)
LEMMA NotAheadNext ==
  ASSUME Typed, EndInv, OrderInv, [Next]_vars
  PROVE  NotAhead'
<1> USE DEF OrderInv
<1> SUFFICES ASSUME ~torn', NEW i \in 1 .. Len(data.gnss)
             PROVE  /\ data.gnss[i] < ins'.state => data.gnss[i] \in applied'
                    /\ ins'.obs # <<>> /\ data.gnss[i] < ins'.obs[1] => i <= Len(used')
  BY OrderCases DEF NotAhead
<1>0. ~torn
  BY OrderCases
<1>1. /\ data.gnss[i] < ins.state => data.gnss[i] \in applied
      /\ ins.obs # <<>> /\ data.gnss[i] < ins.obs[1] => i <= Len(used)
  BY <1>0 DEF NotAhead
<1>2. CASE Elsewhere
  BY <1>1, <1>2 DEF Elsewhere
<1>3. ASSUME NEW p \in PinsOf("ins"), InsTakes(p)
      PROVE  /\ data.gnss[i] < ins'.state => data.gnss[i] \in applied'
             /\ ins'.obs # <<>> /\ data.gnss[i] < ins'.obs[1] => i <= Len(used')
  <2>1. CASE p = "Errors"
    <3>1. ins'.state = ins.state /\ ins'.obs = ins.obs /\ used' = used
          /\ applied \subseteq applied'
      BY <1>3, <2>1 DEF InsTakes
    <3> QED BY <1>1, <3>1
  <2>2. CASE p # "Errors"
    <3>1. data.gnss[i] < Head(queue[p]) => i <= Len(used) /\ data.gnss[i] \in applied
      BY <1>0, <1>3, <2>2, Reached DEF InsTakes
    <3>2. /\ used' = used /\ applied' = applied
          /\ ins'.state = ins.state \/ ins'.state = Head(queue[p])
          /\ ins'.obs = ins.obs \/ (ins'.obs # <<>> /\ ins'.obs[1] = Head(queue[p]))
      BY <1>3, <2>2 DEF InsTakes
    <3> QED BY <1>1, <3>1, <3>2
  <2> QED BY <2>1, <2>2
<1>4. CASE UNCHANGED <<ins, applied>> /\ (KfUses \/ KfPassesOver \/ KfAsks)
  <2>1. CASE KfUses
    <3>1. used \in Seq(Time) /\ used' = Append(used, Head(queue["GNSS"]))
      BY <2>1, DataFacts DEF KfUses
    <3>2. Head(queue["GNSS"]) \in Time
      BY <2>1, NextMeasurement DEF KfUses
    <3>3. Len(used) \in Nat /\ Len(used') = Len(used) + 1
      BY <3>1, <3>2, AppendFacts
    <3>4. i <= Len(used) => i <= Len(used')
      <4>1. Len(data.gnss) \in Nat
        BY DataFacts, TimesFacts
      <4> QED BY <3>3, <4>1
    <3> QED BY <1>1, <1>4, <3>4
  <2>2. CASE KfPassesOver \/ KfAsks
    BY <1>1, <1>4, <2>2 DEF KfPassesOver, KfAsks
  <2> QED BY <1>4, <2>1, <2>2
<1> QED BY <1>2, <1>3, <1>4, OrderCases

(* Observations stay behind the waiting Syncs, and new Syncs ahead of them. *)
LEMMA SyncInTimeNext ==
  ASSUME Typed, EndInv, OrderInv, [Next]_vars
  PROVE  SyncInTime'
<1> USE DEF OrderInv
<1> DEFINE s == queue["Sync"]
<1>1. s \in Seq(Time) /\ queue'["Sync"] \in Seq(Time)
  <2>1. TypeOK /\ TypeOK'
    BY TypeOKNext DEF Typed
  <2> QED BY <2>1, PinFacts DEF TypeOK
<1> SUFFICES ASSUME ~torn', NEW i \in 1 .. Len(queue'["Sync"]), ins'.obs # <<>>
             PROVE  ins'.obs[1] <= queue'["Sync"][i]
  BY <1>1 DEF SyncInTime
<1>0. ~torn
  BY OrderCases
<1>2. ASSUME ins.obs # <<>>, NEW j \in 1 .. Len(s) PROVE ins.obs[1] <= s[j]
  BY <1>0, <1>1, <1>2 DEF SyncInTime
<1>3. ASSUME queue'["Sync"] = s \/ (s # <<>> /\ queue'["Sync"] = Tail(s))
      PROVE  \E j \in 1 .. Len(s) : queue'["Sync"][i] = s[j]
  <2> HIDE DEF s
  <2>1. CASE queue'["Sync"] = s
    BY <2>1
  <2>2. CASE s # <<>> /\ queue'["Sync"] = Tail(s)
    <3>1. Len(s) \in Nat /\ i \in 1 .. Len(s) - 1 /\ Tail(s)[i] = s[i + 1]
      BY <1>1, <2>2, TailFacts
    <3>2. i + 1 \in 1 .. Len(s)
      BY <3>1
    <3> QED BY <2>2, <3>1, <3>2
  <2> QED BY <1>3, <2>1, <2>2
<1>4. CASE Elsewhere
  BY <1>2, <1>3, <1>4 DEF Elsewhere
<1>5. ASSUME NEW p \in PinsOf("ins"), InsTakes(p)
      PROVE  ins'.obs[1] <= queue'["Sync"][i]
  <2>1. queue'["Sync"] = s \/ (s # <<>> /\ queue'["Sync"] = Tail(s))
    BY <1>5, PinFacts DEF InsTakes
  <2>2. PICK j \in 1 .. Len(s) : queue'["Sync"][i] = s[j]
    BY <1>3, <2>1
  <2>3. CASE ins'.obs = ins.obs
    BY <1>2, <2>2, <2>3
  <2>4. CASE ins'.obs # ins.obs
    <3>1. p # "Errors" /\ ins'.obs[1] = Head(queue[p])
      BY <1>5, <2>4 DEF InsTakes
    <3>2. Head(queue[p]) <= s[j]
      BY <1>0, <1>5, <3>1, Reached DEF InsTakes
    <3> QED BY <2>2, <3>1, <3>2
  <2> QED BY <2>3, <2>4
<1>6. CASE UNCHANGED <<ins, applied>> /\ (KfUses \/ KfPassesOver)
  <2>1. queue'["Sync"] = s
    BY <1>6, PinFacts DEF KfUses, KfPassesOver
  <2> QED BY <1>2, <1>6, <2>1
<1>7. CASE UNCHANGED <<ins, applied>> /\ KfAsks
  <2>1. queue'["Sync"] = s \/ queue'["Sync"] = Append(s, Head(queue["GNSS"]))
    BY <1>7 DEF KfAsks
  <2>2. /\ Len(used) \in Nat /\ Len(used) + 1 \in 1 .. Len(data.gnss)
        /\ Head(queue["GNSS"]) = data.gnss[Len(used) + 1] /\ Head(queue["GNSS"]) \in Time
    BY <1>7, NextMeasurement DEF KfAsks
  <2>3. ins.obs[1] <= Head(queue["GNSS"])
    <3>1. ins.obs # <<>>
      BY <1>7
    <3>2. data.gnss[Len(used) + 1] < ins.obs[1] => Len(used) + 1 <= Len(used)
      BY <1>0, <2>2, <3>1 DEF NotAhead
    <3>3. ~(data.gnss[Len(used) + 1] < ins.obs[1])
      BY <2>2, <3>2
    <3>4. ins.obs[1] \in Nat /\ Head(queue["GNSS"]) \in Nat
      BY <2>2, <3>1, DataFacts, TimesFacts DEF Time
    <3> QED BY <2>2, <3>3, <3>4
  <2>4. CASE queue'["Sync"] = s
    BY <1>2, <1>7, <2>4
  <2>5. CASE queue'["Sync"] = Append(s, Head(queue["GNSS"]))
    <3> HIDE DEF s
    <3>1. /\ Len(s) \in Nat /\ i \in 1 .. Len(s) + 1
          /\ \A j \in 1 .. Len(s) : queue'["Sync"][j] = s[j]
          /\ queue'["Sync"][Len(s) + 1] = Head(queue["GNSS"])
      BY <1>1, <2>2, <2>5, AppendFacts
    <3>2. i \in 1 .. Len(s) \/ i = Len(s) + 1
      BY <3>1
    <3>3. ins' = ins /\ ins.obs # <<>>
      BY <1>7
    <3> QED BY <1>2, <2>3, <3>1, <3>2, <3>3
  <2> QED BY <2>1, <2>4, <2>5
<1> QED BY <1>4, <1>5, <1>6, <1>7, OrderCases

(* What is used is a beginning of the measurements: it grows in order of time. *)
LEMMA UsedFacts ==
  ASSUME Typed, Measurements
  PROVE  /\ Len(used) \in Nat
         /\ \A k \in 1 .. Len(used) : /\ k \in 1 .. Len(data.gnss)
                                      /\ used[k] = data.gnss[k] /\ used[k] \in Time
         /\ KfUses => /\ used' = Append(used, Head(queue["GNSS"]))
                      /\ Len(used') = Len(used) + 1
                      /\ \A k \in 1 .. Len(used) : used'[k] = used[k]
                      /\ used'[Len(used) + 1] = Head(queue["GNSS"])
<1>1. used \in Seq(Time) /\ Len(used) \in Nat
  BY DataFacts, TimesFacts
<1>2. ASSUME NEW k \in 1 .. Len(used)
      PROVE  k \in 1 .. Len(data.gnss) /\ used[k] = data.gnss[k] /\ used[k] \in Time
  <2>1. used[k] = data.gnss[k] /\ Len(used) + Len(queue["GNSS"]) + Len(left["gnss"]) = Len(data.gnss)
    BY DEF Measurements
  <2>2. used[k] \in Time
    BY <1>1, TimesFacts
  <2> DEFINE b == Len(queue["GNSS"])  c == Len(left["gnss"])  d == Len(data.gnss)
  <2>3. b \in Nat /\ c \in Nat /\ d \in Nat
    BY DataFacts, PinFacts, TimesFacts
  <2>4. Len(used) + b + c = d
    BY <2>1
  <2> HIDE DEF b, c, d
  <2>5. k \in 1 .. d
    BY <1>1, <2>3, <2>4
  <2> QED BY <2>1, <2>2, <2>5 DEF d
<1>3. ASSUME KfUses
      PROVE  /\ used' = Append(used, Head(queue["GNSS"]))
             /\ Len(used') = Len(used) + 1
             /\ \A k \in 1 .. Len(used) : used'[k] = used[k]
             /\ used'[Len(used) + 1] = Head(queue["GNSS"])
  <2>1. used' = Append(used, Head(queue["GNSS"]))
    BY <1>3 DEF KfUses
  <2>2. Head(queue["GNSS"]) \in Time
    BY <1>3, NextMeasurement DEF KfUses
  <2> QED BY <1>1, <2>1, <2>2, AppendFacts
<1> QED BY <1>1, <1>2, <1>3

(* A new Sync is for the measurement after the last used one. *)
LEMMA RequestedNext ==
  ASSUME Typed, OrderInv, [Next]_vars
  PROVE  Requested'
<1> USE DEF OrderInv
<1> DEFINE s == queue["Sync"]  s2 == queue'["Sync"]  g == data.gnss
<1>1. /\ s \in Seq(Time) /\ Len(s) \in Nat /\ g \in Seq(Time) /\ Len(g) \in Nat
      /\ data' = data /\ InTime(g)
  BY DataFacts, PinFacts, TimesFacts, OrderCases, DataInOrder
<1>2. /\ \A i \in 1 .. Len(s) : \E k \in 1 .. Len(g) : k <= Len(used) + 1 /\ s[i] = g[k]
      /\ InTime(s)
  BY DEF Requested
<1>3. SUFFICES
        /\ \A i \in 1 .. Len(s2) : \E k \in 1 .. Len(g) : k <= Len(used') + 1 /\ s2[i] = g[k]
        /\ InTime(s2)
  BY <1>1 DEF Requested
<1>4. Len(used) \in Nat /\ (KfUses => Len(used') = Len(used) + 1)
  BY UsedFacts
<1> HIDE DEF s, g
<1>5. ASSUME s2 = s \/ (s # <<>> /\ s2 = Tail(s)),
             Len(used') = Len(used) \/ Len(used') = Len(used) + 1
      PROVE  /\ \A i \in 1 .. Len(s2) : \E k \in 1 .. Len(g) : k <= Len(used') + 1 /\ s2[i] = g[k]
             /\ InTime(s2)
  <2> HIDE DEF s2
  <2>1. ASSUME NEW i \in 1 .. Len(s2) PROVE \E j \in 1 .. Len(s) : s2[i] = s[j]
    <3>1. CASE s2 = s
      BY <3>1
    <3>2. CASE s # <<>> /\ s2 = Tail(s)
      <4>1. i \in 1 .. Len(s) - 1 /\ Tail(s)[i] = s[i + 1]
        BY <1>1, <3>2, TailFacts
      <4>2. i + 1 \in 1 .. Len(s)
        BY <1>1, <4>1
      <4> QED BY <3>2, <4>1, <4>2
    <3> QED BY <1>5, <3>1, <3>2
  <2>2. ASSUME NEW k \in 1 .. Len(g), k <= Len(used) + 1 PROVE k <= Len(used') + 1
    BY <1>1, <1>4, <1>5, <2>2
  <2>3. InTime(s2)
    BY <1>1, <1>2, <1>5, InTimeTail
  <2> QED BY <1>2, <2>1, <2>2, <2>3
<1>6. CASE Elsewhere
  BY <1>5, <1>6 DEF Elsewhere, s
<1>7. ASSUME NEW p \in PinsOf("ins"), InsTakes(p)
      PROVE  /\ used' = used
             /\ s2 = s \/ (s # <<>> /\ s2 = Tail(s))
  BY <1>7, PinFacts DEF InsTakes, s
<1>8. CASE KfUses \/ KfPassesOver
  <2>1. s2 = s
    BY <1>8, PinFacts DEF KfUses, KfPassesOver, s
  <2>2. Len(used') = Len(used) \/ Len(used') = Len(used) + 1
    BY <1>4, <1>8 DEF KfPassesOver
  <2> QED BY <1>5, <2>1, <2>2
<1>9. CASE KfAsks
  <2> DEFINE t == Head(queue["GNSS"])
  <2>1. /\ Len(used) + 1 \in 1 .. Len(g) /\ t = g[Len(used) + 1] /\ t \in Time
    BY <1>9, NextMeasurement DEF KfAsks, g
  <2>2. used' = used /\ (s2 = s \/ s2 = Append(s, t))
    BY <1>9 DEF KfAsks, s
  <2>3. CASE s2 = s
    BY <1>5, <2>2, <2>3
  <2>4. CASE s2 = Append(s, t)
    <3> HIDE DEF s2, t
    <3>1. /\ Len(s2) = Len(s) + 1 /\ s2[Len(s) + 1] = t
          /\ \A i \in 1 .. Len(s) : s2[i] = s[i]
      BY <1>1, <2>1, <2>4, AppendFacts
    <3>2. ASSUME NEW i \in 1 .. Len(s) PROVE s[i] <= t
      <4>1. PICK k \in 1 .. Len(g) : k <= Len(used) + 1 /\ s[i] = g[k]
        BY <1>2
      <4> QED BY <1>1, <2>1, <4>1 DEF InTime
    <3>3. InTime(s2)
      BY <1>1, <1>2, <2>1, <2>4, <3>2, InTimeAppend
    <3>4. ASSUME NEW i \in 1 .. Len(s2)
          PROVE  \E k \in 1 .. Len(g) : k <= Len(used') + 1 /\ s2[i] = g[k]
      <4>1. CASE i \in 1 .. Len(s)
        BY <1>2, <2>2, <3>1, <4>1
      <4>2. CASE i = Len(s) + 1
        BY <1>4, <2>1, <2>2, <3>1, <4>2
      <4> QED BY <1>1, <3>1, <4>1, <4>2
    <3> QED BY <3>3, <3>4
  <2> QED BY <2>2, <2>3, <2>4
<1> QED BY <1>5, <1>6, <1>7, <1>8, <1>9, OrderCases

(* When the filter has a measurement to use, it is still sending. *)
LEMMA UsesWhileRunning ==
  ASSUME Typed, EndInv, ~torn, KfUses
  PROVE  running["kf"]
<1> SUFFICES ASSUME ~running["kf"] PROVE FALSE
  OBVIOUS
<1>1. InPins["kf"][2] = "GNSS" /\ 2 \in 1 .. Len(InPins["kf"]) /\ Checked("kf", 2)
  BY PinFacts DEF InPins, Checked
<1>2. Through("GNSS")
  BY <1>1 DEF EndInv, CheckedIsThrough, EndPins, Worker
<1> QED BY <1>2 DEF Through, KfUses

(* The errors of a measurement are sent when used, applied in order. *)
LEMMA CorrectionsNext ==
  ASSUME Typed, EndInv, OrderInv, [Next]_vars
  PROVE  Corrections'
<1> USE DEF OrderInv
<1> DEFINE e == queue["Errors"]  e2 == queue'["Errors"]
           Used(s, u) == \A i \in 1 .. Len(s) : \E k \in 1 .. Len(u) : s[i] = u[k]
           Known(u, a, s) == \A k \in 1 .. Len(u) :
                               u[k] \in a \/ \E i \in 1 .. Len(s) : s[i] = u[k]
           Stated == queue'["Errors"] # <<>> \/ queue'["InertialNavSol"] # <<>>
                       => ins'.state # None
<1>1. e \in Seq(Time) /\ Len(e) \in Nat /\ (torn => torn')
  BY DataFacts, PinFacts, TimesFacts, OrderCases
<1>2. /\ Used(e, used) /\ InTime(e)
      /\ queue["Errors"] # <<>> \/ queue["InertialNavSol"] # <<>> => ins.state # None
      /\ ~torn => Known(used, applied, e)
  BY DEF Corrections
<1>3. SUFFICES Used(e2, used') /\ InTime(e2) /\ Stated /\ (~torn' => Known(used', applied', e2))
  BY DEF Corrections
<1>4. ins.state # None => ins'.state # None
  BY StateStays
<1> HIDE DEF e
<1>5. CASE e2 = e /\ used' = used /\ applied \subseteq applied' /\ Stated
  <2> HIDE DEF e2, Stated
  <2> QED BY <1>1, <1>2, <1>5
<1>6. CASE Elsewhere
  <2>1. e2 = e /\ used' = used /\ applied' = applied
    BY <1>6 DEF Elsewhere, e
  <2>2. Stated
    BY <1>2, <1>4, <1>6 DEF Elsewhere
  <2> QED BY <1>5, <2>1, <2>2
<1>7. ASSUME NEW p \in PinsOf("ins"), InsTakes(p), p # "Errors"
      PROVE  e2 = e /\ used' = used /\ applied \subseteq applied' /\ Stated
  <2>1. e2 = e /\ used' = used /\ applied' = applied
    BY <1>7, PinFacts DEF InsTakes, e
  <2>2. queue'["InertialNavSol"] # <<>> => queue["InertialNavSol"] # <<>> \/ ins.state # None
    BY <1>7 DEF InsTakes
  <2>3. queue'["Errors"] = queue["Errors"]
    BY <2>1 DEF e
  <2>4. Stated
    BY <1>2, <1>4, <2>2, <2>3
  <2> QED BY <2>1, <2>4
<1>8. CASE InsTakes("Errors")
  <2>1. e # <<>> /\ e2 = Tail(e) /\ used' = used /\ ins.state # None
    BY <1>2, <1>8 DEF InsTakes, e
  <2>2. applied' = applied \cup {Head(e)}
    BY <1>8, <2>1 DEF InsTakes, e
  <2>3. Stated
    BY <1>4, <2>1
  <2> HIDE DEF e2, Stated
  <2>4. /\ Len(e) >= 1 /\ Head(e) = e[1] /\ Len(e2) = Len(e) - 1
        /\ \A i \in 1 .. Len(e) - 1 : e2[i] = e[i + 1]
    BY <1>1, <2>1, TailFacts
  <2>5. Used(e2, used)
    <3> SUFFICES ASSUME NEW i \in 1 .. Len(e2) PROVE \E k \in 1 .. Len(used) : e2[i] = used[k]
      OBVIOUS
    <3>1. e2[i] = e[i + 1] /\ i + 1 \in 1 .. Len(e)
      BY <1>1, <2>4
    <3> QED BY <1>2, <3>1
  <2>6. ASSUME Known(used, applied, e) PROVE Known(used, applied', e2)
    <3> SUFFICES ASSUME NEW k \in 1 .. Len(used), used[k] \notin applied'
                 PROVE  \E i \in 1 .. Len(e2) : e2[i] = used[k]
      OBVIOUS
    <3>1. PICK i \in 1 .. Len(e) : e[i] = used[k]
      BY <2>2, <2>6
    <3>2. i # 1
      BY <2>2, <2>4, <3>1
    <3>3. i - 1 \in 1 .. Len(e) - 1 /\ (i - 1) + 1 = i
      BY <1>1, <3>2
    <3>4. e2[i - 1] = e[i]
      BY <2>4, <3>3
    <3> QED BY <2>4, <3>1, <3>3, <3>4
  <2>7. InTime(e2)
    BY <1>1, <1>2, <2>1, InTimeTail
  <2> QED BY <1>1, <1>2, <2>1, <2>3, <2>5, <2>6, <2>7
<1>9. CASE UNCHANGED <<ins, applied>> /\ (KfPassesOver \/ KfAsks)
  <2>1. e2 = e /\ used' = used
    BY <1>9, PinFacts DEF KfPassesOver, KfAsks, e
  <2>2. queue'["InertialNavSol"] # <<>> => queue["InertialNavSol"] # <<>>
    BY <1>9, PinFacts DEF KfPassesOver, KfAsks
  <2>3. queue'["Errors"] = queue["Errors"]
    BY <2>1 DEF e
  <2>4. Stated
    BY <1>2, <1>4, <2>2, <2>3
  <2> QED BY <1>5, <1>9, <2>1, <2>4
<1>10. CASE UNCHANGED <<ins, applied>> /\ KfUses
  <2> DEFINE t == Head(queue["GNSS"])
  <2>1. /\ Len(used) \in Nat /\ Len(used') = Len(used) + 1
        /\ \A k \in 1 .. Len(used) : /\ k \in 1 .. Len(data.gnss)
                                     /\ used[k] = data.gnss[k] /\ used'[k] = used[k]
        /\ used'[Len(used) + 1] = t
    BY <1>10, UsedFacts
  <2>2. /\ Len(used) + 1 \in 1 .. Len(data.gnss) /\ t = data.gnss[Len(used) + 1] /\ t \in Time
    BY <1>10, NextMeasurement DEF KfUses
  <2>3. /\ e2 = e \/ e2 = Append(e, t)
        /\ running["kf"] => e2 = Append(e, t)
    BY <1>10 DEF KfUses, e
  <2>4. Stated
    BY <1>2, <1>4, <1>10 DEF KfUses
  <2> HIDE DEF e2, t, Stated
  <2>5. /\ Len(Append(e, t)) = Len(e) + 1 /\ Append(e, t)[Len(e) + 1] = t
        /\ \A i \in 1 .. Len(e) : Append(e, t)[i] = e[i]
    BY <1>1, <2>2, AppendFacts
  <2>6. Used(e2, used')
    <3> SUFFICES ASSUME NEW i \in 1 .. Len(e2) PROVE \E k \in 1 .. Len(used') : e2[i] = used'[k]
      OBVIOUS
    <3>1. CASE i \in 1 .. Len(e)
      <4>1. PICK k \in 1 .. Len(used) : e[i] = used[k]
        BY <1>2, <3>1
      <4>2. k \in 1 .. Len(used') /\ used'[k] = used[k]
        BY <2>1
      <4>3. e2[i] = e[i]
        BY <2>3, <2>5, <3>1
      <4> QED BY <4>1, <4>2, <4>3
    <3>2. CASE e2 = Append(e, t) /\ i = Len(e) + 1
      <4>1. Len(used) + 1 \in 1 .. Len(used')
        BY <2>1
      <4> QED BY <2>1, <2>5, <3>2, <4>1
    <3> QED BY <1>1, <2>3, <2>5, <3>1, <3>2
  <2>7. InTime(e2)
    <3>1. ASSUME NEW i \in 1 .. Len(e) PROVE e[i] <= t
      <4>1. PICK k \in 1 .. Len(used) : e[i] = used[k]
        BY <1>2
      <4>2. k \in 1 .. Len(data.gnss) /\ e[i] = data.gnss[k] /\ k <= Len(used) + 1
        BY <2>1, <4>1
      <4> QED BY <2>2, <4>2, DataInOrder DEF InTime
    <3> QED BY <1>1, <1>2, <2>2, <2>3, <3>1, InTimeAppend
  <2>8. ASSUME ~torn' PROVE Known(used', applied', e2)
    <3>1. e2 = Append(e, t)
      BY <1>1, <1>10, <2>3, <2>8, UsesWhileRunning
    <3>2. Known(used, applied, e)
      BY <1>1, <1>2, <2>8
    <3> SUFFICES ASSUME NEW k \in 1 .. Len(used')
                 PROVE  used'[k] \in applied' \/ \E i \in 1 .. Len(e2) : e2[i] = used'[k]
      OBVIOUS
    <3>3. CASE k \in 1 .. Len(used)
      <4>1. used[k] \in applied \/ \E i \in 1 .. Len(e) : e[i] = used[k]
        BY <3>2, <3>3
      <4>2. \A i \in 1 .. Len(e) : i \in 1 .. Len(e2) /\ e2[i] = e[i]
        BY <1>1, <2>5, <3>1
      <4> QED BY <1>10, <2>1, <3>3, <4>1, <4>2
    <3>4. CASE k = Len(used) + 1
      <4>1. Len(e) + 1 \in 1 .. Len(e2) /\ e2[Len(e) + 1] = t
        BY <1>1, <2>5, <3>1
      <4> QED BY <2>1, <3>4, <4>1
    <3> QED BY <2>1, <3>3, <3>4
  <2> QED BY <2>4, <2>6, <2>7, <2>8
<1>11. CASE \E p \in PinsOf("ins") : InsTakes(p)
  BY <1>5, <1>7, <1>8, <1>11
<1> QED BY <1>6, <1>9, <1>10, <1>11, OrderCases

-------------------------------------------------------------------------------
(* The theorems.                                                               *)

IInv == Typed /\ EndInv /\ OrderInv

(* The invariant holds at the start ... *)
LEMMA InitInv == Init => IInv
<1> SUFFICES ASSUME Init PROVE IInv
  OBVIOUS
<1> USE PinFacts
<1>1. TypeOK
  <2>1. data \in Recordings /\ left = data
    BY DEF Init
  <2>2. left \in [Source -> Seq(Time)]
    <3>1. data \in [imu : Seq(Time), gnss : Seq(Time), pva : Seq(Time)]
      BY <2>1, LoopAssumption
    <3> QED BY <2>1, <3>1 DEF Source
  <2>3. /\ queue \in [Pin -> Seq(Time)] /\ used \in Seq(Time)
    BY DEF Init
  <2>4. /\ ins \in [state : Nat, obs : Seq(Time), blocked : BOOLEAN, needed : BOOLEAN]
        /\ Len(ins.obs) <= MaxSizeImuObservations /\ kf \in Nat
    BY DEF Init, None, MaxSizeImuObservations
  <2>5. pc \in [Worker -> [at : PC, pin : 1 .. 5]]
    BY DEF Init, PC
  <2> QED BY <2>1, <2>2, <2>3, <2>4, <2>5 DEF Init, TypeOK
<1>2. AtAPin
  BY DEF Init, AtAPin, At
<1>3. /\ \A p \in Pin : queue[p] = <<>> /\ ~noMore[p]
      /\ \A n \in Node : running[n]
      /\ \A n \in Worker : pc[n].at = "sleep"
      /\ used = <<>> /\ left = data /\ ins.obs = <<>> /\ ins.state = 0
  BY DEF Init, None
<1>4. EndInv
  <2>1. SourcesOpen
    BY <1>3 DEF SourcesOpen, Node, EndPins
  <2>2. CheckedIsThrough
    BY <1>3 DEF CheckedIsThrough, Checked, Node
  <2>3. SyncEndIsFinal
    BY <1>3 DEF SyncEndIsFinal
  <2> QED BY <2>1, <2>2, <2>3 DEF EndInv
<1>5. OrderInv
  <2>1. Len(used) = 0 /\ \A p \in Pin : Len(queue[p]) = 0
    BY <1>3
  <2>2. Measurements
    <3>1. data.gnss \in Seq(Time) /\ left["gnss"] = data.gnss /\ Len(data.gnss) \in Nat
      BY <1>1, <1>2, <1>3, DataFacts, TimesFacts DEF Typed
    <3>2. Len(queue["GNSS"]) = 0
      BY <2>1
    <3> HIDE <1>3
    <3> QED BY <2>1, <3>1, <3>2 DEF Measurements
  <2>3. Corrections
    BY <1>3, <2>1 DEF Corrections, InTime
  <2>4. Requested
    BY <2>1 DEF Requested, InTime
  <2>5. NotAhead
    <3>1. \A i \in 1 .. Len(data.gnss) : data.gnss[i] \in Nat
      BY <1>1, <1>2, DataFacts, TimesFacts DEF Typed
    <3>2. \A i \in 1 .. Len(data.gnss) : ~(data.gnss[i] < ins.state)
      BY <1>3, <3>1
    <3> QED BY <1>3, <3>2 DEF NotAhead
  <2>6. SyncInTime
    BY <1>3 DEF SyncInTime
  <2> QED BY <2>2, <2>3, <2>4, <2>5, <2>6 DEF OrderInv
<1> QED BY <1>1, <1>2, <1>4, <1>5 DEF IInv, Typed

(* ... and every step keeps it. *)
LEMMA NextInv == IInv /\ [Next]_vars => IInv'
<1> SUFFICES ASSUME IInv, [Next]_vars PROVE IInv'
  OBVIOUS
<1>1. Typed /\ EndInv /\ OrderInv /\ SourcesOpen /\ Measurements
  BY DEF IInv, EndInv, OrderInv
<1>2. Typed'
  BY <1>1, TypeOKNext, AtAPinNext DEF Typed
<1>3. EndInv'
  BY <1>1, SourcesOpenNext, CheckedIsThroughNext, SyncEndIsFinalNext DEF EndInv
<1>4. OrderInv'
  BY <1>1, MeasurementsNext, CorrectionsNext, RequestedNext, NotAheadNext, SyncInTimeNext
  DEF OrderInv
<1> QED BY <1>2, <1>3, <1>4 DEF IInv

(* The parts of the invariant together hold in every reachable state. *)
THEOREM LoopInvariant == Spec => []IInv
<1>1. Init => IInv
  BY InitInv
<1>2. IInv /\ [Next]_vars => IInv'
  BY NextInv
<1> QED BY <1>1, <1>2, PTL DEF Spec

(* Whatever the sources hold, the variables keep their types: the integrator   *)
(* keeps at most _maxSizeImuObservations observations.                         *)
THEOREM LoopTypeCorrect == Spec => []TypeOK
<1>1. IInv => TypeOK
  BY DEF IInv, Typed
<1> QED BY <1>1, LoopInvariant, PTL

(* The end of Sync is announced when no measurement is still to come and none  *)
(* waits for its solution (LooselyCoupledKF.cpp:763).                          *)
THEOREM SyncEndFinal == Spec => []SyncEndIsFinal
<1>1. IInv => SyncEndIsFinal
  BY DEF IInv, EndInv
<1> QED BY <1>1, LoopInvariant, PTL

(* The integrator's state goes past the time of a measurement only when it has *)
(* been corrected by the errors estimated from it (ImuIntegrator.cpp:296).     *)
THEOREM NeverAheadOfCorrections == Spec => []Corrected
<1>1. IInv => Corrected
  <2> SUFFICES ASSUME IInv, ~torn, NEW i \in DOMAIN data.gnss, ins.state > data.gnss[i]
               PROVE  data.gnss[i] \in applied
    BY DEF Corrected
  <2>1. data.gnss \in Seq(Time) /\ ins.state \in Nat
    BY DataFacts DEF IInv
  <2>2. i \in 1 .. Len(data.gnss)
    BY <2>1
  <2>3. data.gnss[i] < ins.state
    BY <2>1, <2>2, TimesFacts
  <2> QED BY <2>2, <2>3 DEF IInv, OrderInv, NotAhead
<1> QED BY <1>1, LoopInvariant, PTL

(* The filter asks for no time the integrator has already passed               *)
(* (ImuIntegrator.cpp:475 is never reached).                                   *)
THEOREM SyncNeverLate == Spec => []SyncInTime
<1>1. IInv => SyncInTime
  BY DEF IInv, OrderInv
<1> QED BY <1>1, LoopInvariant, PTL
===============================================================================
