-------------------------- MODULE NodeLifecycleProofs --------------------------
(* Proofs about NodeLifecycle, for any set of nodes, any dependency graph, any  *)
(* number of requesting threads and any mix of requests: type correctness, the  *)
(* worker's ownership of the states it runs in, that a mark to reinitialize does *)
(* not outlive its initialization and a dispatched request is kept; and, under  *)
(* hypotheses on the requests, the state diagram and the dependencies.          *)
EXTENDS NodeLifecycle, TLAPS

(* What makes NoStaleReinit inductive: once the mark is reset nobody can set it *)
(* before the worker has left initialization, because it owns the state.        *)
MarkResetBeforeBody ==
  \A n \in Node : wpc[n] \in {"initBody", "initWake"} => ~reinit[n]

IInv == TypeOK /\ WorkerOwnsTransient /\ NoStaleReinit /\ MarkResetBeforeBody

(* A notification keeps calls well typed. *)
LEMMA NotifiedType ==
  ASSUME call \in [Thread -> CallType], NEW n
  PROVE  Notified(n) \in [Thread -> CallType]
BY DEF Notified, CallType, CallPC

(* It changes nothing but that callers may be checking again. *)
LEMMA NotifiedCall ==
  ASSUME call \in [Thread -> CallType], NEW n, NEW u \in Thread
  PROVE  /\ Notified(n)[u].op = call[u].op
         /\ Notified(n)[u].pc \in {call[u].pc, "check"}
<1>1. Notified(n)[u] = IF call[u].pc = "parked" /\ call[u].node = n
                       THEN [call[u] EXCEPT !.pc = "check"] ELSE call[u]
  BY DEF Notified
<1>2. call[u] \in CallType
  OBVIOUS
<1> HIDE DEF Notified
<1> QED BY <1>1, <1>2 DEF CallType

LEMMA CallStepType ==
  ASSUME TypeOK, NEW t \in Thread, CallStep(t)
  PROVE  TypeOK'
<1> DEFINE n == Target(t)
<1>0. /\ call[t] \in CallType
      /\ Notified(n) \in [Thread -> CallType]
  BY NotifiedType DEF TypeOK
<1>1. ASSUME NEW v \in BOOLEAN, Reply(t, v) PROVE call' \in [Thread -> CallType]
  BY <1>0, <1>1 DEF TypeOK, Reply, CallType, CallPC
<1>2. ASSUME NEW p \in CallPC, Goto(t, p) PROVE call' \in [Thread -> CallType]
  BY <1>0, <1>2 DEF TypeOK, Goto, CallType
<1>3. ASSUME WaitOrReply(t) PROVE call' \in [Thread -> CallType]
  BY <1>1, <1>2, <1>3 DEF WaitOrReply, CallPC
<1>4. ASSUME NEW s \in State, SetState(n, s) PROVE state' \in [Node -> State]
  BY <1>4 DEF TypeOK, SetState
<1>5. CASE DoInitialize(t)
  <2>1. state' \in [Node -> State]
    BY <1>5, <1>4 DEF DoInitialize, TypeOK, State
  <2>2. call' \in [Thread -> CallType]
    BY <1>5, <1>1, <1>2, <1>3 DEF DoInitialize, CallPC
  <2> QED BY <1>5, <2>1, <2>2 DEF DoInitialize, TypeOK
<1>6. CASE DoReinitialize(t)
  <2>1. state' \in [Node -> State] /\ reinit' \in [Node -> BOOLEAN]
    BY <1>6, <1>4 DEF DoReinitialize, TypeOK, State
  <2>2. ASSUME call' = [call EXCEPT ![t].op = "init"]
        PROVE  call' \in [Thread -> CallType]
    BY <2>2, <1>0 DEF TypeOK, CallType, Op
  <2>3. call' \in [Thread -> CallType]
    BY <1>6, <1>1, <1>2, <1>3, <2>2 DEF DoReinitialize, CallPC
  <2> QED BY <1>6, <2>1, <2>3 DEF DoReinitialize, TypeOK
<1>7. CASE DoDeinitialize(t)
  <2>1. state' \in [Node -> State]
    BY <1>7, <1>4 DEF DoDeinitialize, TypeOK, State
  <2>2. call' \in [Thread -> CallType]
    BY <1>7, <1>1, <1>2, <1>3 DEF DoDeinitialize, CallPC
  <2> QED BY <1>7, <2>1, <2>2 DEF DoDeinitialize, TypeOK
<1>8. CASE DoDisable(t)
  <2>1. state' \in [Node -> State] /\ disable' \in [Node -> BOOLEAN]
    BY <1>8, <1>4 DEF DoDisable, TypeOK, State
  <2>2. call' \in [Thread -> CallType]
    BY <1>8, <1>1, <1>2, <1>3 DEF DoDisable, CallPC
  <2> QED BY <1>8, <2>1, <2>2 DEF DoDisable, TypeOK
<1>9. CASE DisableDeinitializes(t)
  <2>1. state' \in [Node -> State]
    BY <1>9, <1>4 DEF DisableDeinitializes, TypeOK, State
  <2>2. call' \in [Thread -> CallType]
    BY <1>9, <1>2, <1>3 DEF DisableDeinitializes, CallPC
  <2> QED BY <1>9, <2>1, <2>2 DEF DisableDeinitializes, TypeOK
<1>10. CASE DoEnable(t)
  <2>1. state' \in [Node -> State]
    BY <1>10, <1>4 DEF DoEnable, TypeOK, State
  <2> QED BY <1>10, <1>1, <2>1 DEF DoEnable, TypeOK
<1>11. CASE WakeWorker(t)
  <2> DEFINE pc == CASE At(t, "wakeJoin") -> "join"
                     [] At(t, "wake") /\ call[t].wait -> "check"
                     [] OTHER -> "returned"
  <2>1. pc \in CallPC
    BY DEF CallPC
  <2>2. call' = [Notified(n) EXCEPT ![t].pc = pc, ![t].ret = TRUE]
    BY <1>11 DEF WakeWorker
  <2> HIDE DEF pc
  <2>3. call' \in [Thread -> CallType]
    BY <2>1, <2>2, <1>0 DEF CallType
  <2> QED BY <1>11, <2>3 DEF WakeWorker, TypeOK
<1>12. CASE WaitCheck(t) \/ WaitBlock(t) \/ DeleteCheck(t) \/ Join(t)
  <2>1. call' \in [Thread -> CallType]
    BY <1>12, <1>2 DEF WaitCheck, WaitBlock, DeleteCheck, Join, CallPC
  <2> QED BY <1>12, <2>1 DEF WaitCheck, WaitBlock, DeleteCheck, Join, TypeOK
<1>13. CASE WaitResult(t)
  BY <1>13, <1>1 DEF WaitResult, TypeOK
<1>14. CASE Destroy(t)
  <2>1. state' \in [Node -> State]
    BY <1>14, <1>4 DEF Destroy, State
  <2>2. call' \in [Thread -> CallType]
    BY <1>14, <1>2 DEF Destroy, CallPC
  <2> QED BY <1>14, <2>1, <2>2 DEF Destroy, TypeOK
<1> QED
  BY <1>5, <1>6, <1>7, <1>8, <1>9, <1>10, <1>11, <1>12, <1>13, <1>14
  DEF CallStep

LEMMA WorkerStepType ==
  ASSUME TypeOK, NEW n \in Node, WorkerStep(n) \/ Timeout(n)
  PROVE  TypeOK'
<1>0. /\ n \in Thread
      /\ \A m : Notified(m) \in [Thread -> CallType]
      /\ Inputs(n) \in SUBSET Node /\ Outputs(n) \in SUBSET Node
      /\ Successors(n) \in SUBSET Node
  BY NotifiedType DEF Thread, TypeOK, Inputs, Outputs, Successors
<1>1. ASSUME NEW p \in WorkerPC, WorkerGoto(n, p) PROVE wpc' \in [Node -> WorkerPC]
  BY <1>1 DEF TypeOK, WorkerGoto
<1>2. ASSUME NEW s \in State, SetState(n, s) PROVE state' \in [Node -> State]
  BY <1>2 DEF TypeOK, SetState
<1>3. ASSUME NEW r, NEW s \in State, Settle(n, r, s)
      PROVE  state' \in [Node -> State] /\ wpc' \in [Node -> WorkerPC]
  <2>1. wpc' \in [Node -> WorkerPC]
    BY <1>3, <1>1 DEF Settle, WorkerPC
  <2>2. state' \in [Node -> State]
    BY <1>3, <1>2 DEF Settle, TypeOK
  <2> QED BY <2>1, <2>2
<1>4. ASSUME NEW o \in Op, NEW d \in Node, NEW w \in BOOLEAN,
             call' = [call EXCEPT ![n] = NewCall(o, d, w)]
      PROVE  call' \in [Thread -> CallType]
  BY <1>4 DEF TypeOK, NewCall, CallType, CallPC
<1>5. ASSUME call' = [call EXCEPT ![n] = NoCall]
      PROVE  call' \in [Thread -> CallType]
  BY <1>5 DEF TypeOK, NoCall, CallType, CallPC
<1>6. ASSUME NEW T, T \in SUBSET Node, todo' = [todo EXCEPT ![n] = T]
      PROVE  todo' \in [Node -> SUBSET Node]
  BY <1>6 DEF TypeOK
<1>7. CASE Dispatch(n)
  <2>1. state' \in [Node -> State] /\ wpc' \in [Node -> WorkerPC]
    BY <1>7, <1>1, <1>2 DEF Dispatch, TypeOK, State, WorkerPC
  <2> QED BY <1>7, <2>1 DEF Dispatch, TypeOK
<1>8. CASE Wakeup(n) \/ Timeout(n)
  <2>1. wpc' \in [Node -> WorkerPC]
    BY <1>8, <1>1 DEF Wakeup, Timeout, WorkerPC
  <2> QED BY <1>8, <2>1 DEF Wakeup, Timeout, TypeOK
<1>9. CASE InitEnter(n)
  <2>1. state' \in [Node -> State] /\ wpc' \in [Node -> WorkerPC]
    BY <1>9, <1>1, <1>2 DEF InitEnter, State, WorkerPC
  <2> QED BY <1>9, <2>1, <1>0, <1>6 DEF InitEnter, TypeOK
<1>10. CASE InitDependency(n)
  <2>1. PICK d \in todo[n] :
          /\ todo' = [todo EXCEPT ![n] = @ \ {d}]
          /\ \/ UNCHANGED <<wpc, call>>
             \/ /\ call' = [call EXCEPT ![n] = NewCall("init", d, TRUE)]
                /\ WorkerGoto(n, "initCall")
    BY <1>10 DEF InitDependency
  <2>2. d \in Node
    BY DEF TypeOK
  <2>3. call' \in [Thread -> CallType]
    BY <2>1, <2>2, <1>4 DEF TypeOK, Op
  <2>4. wpc' \in [Node -> WorkerPC]
    BY <2>1, <1>1 DEF TypeOK, WorkerPC
  <2> QED BY <1>10, <2>1, <2>3, <2>4 DEF InitDependency, TypeOK
<1>11. CASE InitDependencyAnswer(n)
  <2>1. state' \in [Node -> State] /\ wpc' \in [Node -> WorkerPC]
    BY <1>11, <1>1, <1>3 DEF InitDependencyAnswer, TypeOK, State, WorkerPC
  <2> QED BY <1>11, <2>1, <1>5 DEF InitDependencyAnswer, TypeOK
<1>12. CASE InitReady(n)
  <2>1. wpc' \in [Node -> WorkerPC]
    BY <1>12, <1>1 DEF InitReady, WorkerPC
  <2> QED BY <1>12, <2>1 DEF InitReady, TypeOK
<1>13. CASE InitSucceeds(n)
  <2>1. wpc' \in [Node -> WorkerPC]
    BY <1>13, <1>1 DEF InitSucceeds, WorkerPC
  <2> QED BY <1>13, <2>1, <1>0, <1>6 DEF InitSucceeds, TypeOK
<1>14. CASE InitFails(n)
  <2>1. state' \in [Node -> State] /\ wpc' \in [Node -> WorkerPC]
    BY <1>14, <1>3 DEF InitFails, State
  <2> QED BY <1>14, <2>1 DEF InitFails, TypeOK
<1>15. CASE InitWakesLinked(n)
  BY <1>15, <1>0 DEF InitWakesLinked, TypeOK
<1>16. CASE InitDone(n)
  <2>1. state' \in [Node -> State] /\ wpc' \in [Node -> WorkerPC]
    BY <1>16, <1>3 DEF InitDone, State
  <2> QED BY <1>16, <2>1 DEF InitDone, TypeOK
<1>17. CASE DeinitEnter(n)
  <2>1. state' \in [Node -> State] /\ wpc' \in [Node -> WorkerPC]
    BY <1>17, <1>1, <1>2 DEF DeinitEnter, State, WorkerPC
  <2> QED BY <1>17, <2>1, <1>0, <1>6 DEF DeinitEnter, TypeOK
<1>18. CASE DeinitDependent(n)
  <2>1. PICK d \in todo[n] :
          \/ /\ todo' = [todo EXCEPT ![n] = @ \ {d}]
             /\ UNCHANGED <<wpc, call>>
          \/ /\ call' = [call EXCEPT ![n] =
                           NewCall(IF reinit[n] THEN "reinit" ELSE "deinit",
                                   d, FALSE)]
             /\ WorkerGoto(n, "deinitCall") /\ UNCHANGED todo
    BY <1>18 DEF DeinitDependent
  <2>2. d \in Node
    BY DEF TypeOK
  <2>3. (IF reinit[n] THEN "reinit" ELSE "deinit") \in Op
    BY DEF Op
  <2>4. call' \in [Thread -> CallType]
    BY <2>1, <2>2, <2>3, <1>4 DEF TypeOK
  <2>5. wpc' \in [Node -> WorkerPC]
    BY <2>1, <1>1 DEF TypeOK, WorkerPC
  <2>6. todo' \in [Node -> SUBSET Node]
    BY <2>1 DEF TypeOK
  <2> QED BY <1>18, <2>4, <2>5, <2>6 DEF DeinitDependent, TypeOK
<1>19. CASE DeinitDependentAnswer(n)
  <2>1. wpc' \in [Node -> WorkerPC]
    BY <1>19, <1>1 DEF DeinitDependentAnswer, WorkerPC
  <2> QED BY <1>19, <2>1, <1>5 DEF DeinitDependentAnswer, TypeOK
<1>20. CASE DeinitReady(n)
  <2>1. wpc' \in [Node -> WorkerPC]
    BY <1>20, <1>1 DEF DeinitReady, WorkerPC
  <2> QED BY <1>20, <2>1 DEF DeinitReady, TypeOK
<1>21. CASE DeinitDone(n)
  <2>1. PICK s \in State : Settle(n, "Deinitializing", s)
    BY <1>21 DEF DeinitDone, State, TypeOK
  <2>2. state' \in [Node -> State] /\ wpc' \in [Node -> WorkerPC]
    BY <2>1, <1>3
  <2> QED BY <1>21, <2>2 DEF DeinitDone, TypeOK
<1>22. CASE Notify(n)
  <2>1. wpc' \in [Node -> WorkerPC]
    BY <1>22, <1>1 DEF Notify, WorkerPC
  <2> QED BY <1>22, <2>1, <1>0 DEF Notify, TypeOK
<1> QED
  BY <1>7, <1>8, <1>9, <1>10, <1>11, <1>12, <1>13, <1>14, <1>15, <1>16, <1>17,
     <1>18, <1>19, <1>20, <1>21, <1>22
  DEF WorkerStep

LEMMA IssueType ==
  ASSUME TypeOK, NEW c \in Client, Issue(c)
  PROVE  TypeOK'
<1> USE LifecycleAssumption
<1>1. calls' \in [Client -> Nat]
  BY DEF Issue, TypeOK
<1>2. PICK n \in alive, r \in Requests :
        \/ /\ call' = [call EXCEPT ![c] = NewCall(r.op, n, r.wait)]
           /\ UNCHANGED alive
        \/ /\ call' = [call EXCEPT ![c] = [NewCall("delete", n, TRUE)
                                             EXCEPT !.pc = "delete"]]
           /\ alive' = alive \ {n}
  BY DEF Issue
<1>3. /\ n \in Node /\ r.op \in Op /\ r.wait \in BOOLEAN
      /\ alive' \in SUBSET Node
  BY <1>2 DEF TypeOK
<1>4. /\ NewCall(r.op, n, r.wait) \in CallType
      /\ [NewCall("delete", n, TRUE) EXCEPT !.pc = "delete"] \in CallType
  BY <1>3 DEF NewCall, CallType, CallPC, Op
<1>5. call' \in [Thread -> CallType]
  BY <1>2, <1>4 DEF TypeOK
<1> QED BY <1>1, <1>3, <1>5 DEF Issue, TypeOK

(* Type correctness of every behaviour. *)
THEOREM TypeCorrect == Spec => []TypeOK
<1>1. Init => TypeOK
  BY LifecycleAssumption
  DEF Init, TypeOK, State, WorkerPC, NoCall, CallType, CallPC
<1>2. TypeOK /\ [Next]_vars => TypeOK'
  <2> SUFFICES ASSUME TypeOK, [Next]_vars PROVE TypeOK'
    OBVIOUS
  <2>1. CASE UNCHANGED vars
    BY <2>1 DEF vars, TypeOK
  <2> QED BY <2>1, CallStepType, WorkerStepType, IssueType DEF Next
<1> QED BY <1>1, <1>2, PTL DEF Spec

(* A request moves a node between settled states, or to a requested one, or is *)
(* the destructor's: never into, and never out of, what a worker runs in.      *)
LEMMA RequestKeepsOwnership ==
  ASSUME IInv, NEW n, NEW s \in State, SetState(n, s), wpc' = wpc,
         reinit' = reinit,
         s \notin {"Initializing", "Deinitializing", "Initialized"},
         \/ s = "DoShutdown"
         \/ state[n] \notin {"Initializing", "Deinitializing", "DoShutdown"}
  PROVE  WorkerOwnsTransient' /\ NoStaleReinit' /\ MarkResetBeforeBody'
<1>1. \A m \in Node : state'[m] = IF m = n THEN s ELSE state[m]
  BY DEF IInv, TypeOK, SetState
<1>2. NoStaleReinit' /\ MarkResetBeforeBody'
  BY <1>1 DEF IInv, NoStaleReinit, MarkResetBeforeBody
<1>3. WorkerOwnsTransient'
  <2> SUFFICES ASSUME NEW m \in Node
               PROVE  /\ wpc[m] \in InitSection
                         => state'[m] \in {"Initializing", "DoShutdown"}
                      /\ wpc[m] \in DeinitSection
                         => state'[m] \in {"Deinitializing", "DoShutdown"}
                      /\ state'[m] = "Initializing" => wpc[m] \in InitSection
                      /\ state'[m] = "Deinitializing"
                         => wpc[m] \in DeinitSection
    BY DEF WorkerOwnsTransient
  <2>1. CASE m # n
    BY <1>1, <2>1 DEF IInv, WorkerOwnsTransient
  <2>2. CASE m = n
    BY <1>1, <2>2
    DEF IInv, WorkerOwnsTransient, InitSection, DeinitSection
  <2> QED BY <2>1, <2>2
<1> QED BY <1>2, <1>3

LEMMA CallStepOwnership ==
  ASSUME IInv, NEW t \in Thread, CallStep(t)
  PROVE  WorkerOwnsTransient' /\ NoStaleReinit' /\ MarkResetBeforeBody'
<1> DEFINE n == Target(t)
<1>1. ASSUME UNCHANGED <<state, wpc, reinit>>
      PROVE  WorkerOwnsTransient' /\ NoStaleReinit' /\ MarkResetBeforeBody'
  BY <1>1 DEF IInv, WorkerOwnsTransient, NoStaleReinit, MarkResetBeforeBody
<1>2. CASE DoInitialize(t)
  <2>1. CASE UNCHANGED state
    BY <1>1, <1>2, <2>1 DEF DoInitialize
  <2>2. CASE state[n] = "Deinitialized" /\ SetState(n, "DoInitialize")
    BY <1>2, <2>2, RequestKeepsOwnership DEF DoInitialize, State
  <2> QED BY <1>2, <2>1, <2>2 DEF DoInitialize
<1>3. CASE DoReinitialize(t)
  <2>1. CASE UNCHANGED <<state, reinit>>
    BY <1>1, <1>3, <2>1 DEF DoReinitialize
  <2>2. CASE /\ state[n] \in {"DoDeinitialize", "Deinitializing"}
             /\ reinit' = [reinit EXCEPT ![n] = TRUE] /\ UNCHANGED state
    BY <1>3, <2>2
    DEF DoReinitialize, IInv, TypeOK, WorkerOwnsTransient, NoStaleReinit,
        MarkResetBeforeBody, InitSection, DeinitSection
  <2>3. CASE /\ state[n] = "Initialized" /\ SetState(n, "DoDeinitialize")
             /\ reinit' = [reinit EXCEPT ![n] = TRUE]
    BY <1>3, <2>3
    DEF DoReinitialize, IInv, TypeOK, SetState, WorkerOwnsTransient,
        NoStaleReinit, MarkResetBeforeBody, InitSection, DeinitSection
  <2> QED BY <1>3, <2>1, <2>2, <2>3 DEF DoReinitialize
<1>4. CASE DoDeinitialize(t)
  <2>1. CASE UNCHANGED state
    BY <1>1, <1>4, <2>1 DEF DoDeinitialize
  <2>2. CASE state[n] = "Initialized" /\ SetState(n, "DoDeinitialize")
    BY <1>4, <2>2, RequestKeepsOwnership DEF DoDeinitialize, State
  <2> QED BY <1>4, <2>1, <2>2 DEF DoDeinitialize
<1>5. CASE DoDisable(t)
  <2>1. CASE UNCHANGED state
    BY <1>1, <1>5, <2>1 DEF DoDisable
  <2>2. CASE /\ state[n] \in {"DoInitialize", "Deinitialized"}
             /\ SetState(n, "Disabled")
    BY <1>5, <2>2, RequestKeepsOwnership DEF DoDisable, State
  <2> QED BY <1>5, <2>1, <2>2 DEF DoDisable
<1>6. CASE DisableDeinitializes(t)
  <2>1. CASE UNCHANGED state
    BY <1>1, <1>6, <2>1 DEF DisableDeinitializes
  <2>2. CASE state[n] = "Initialized" /\ SetState(n, "DoDeinitialize")
    BY <1>6, <2>2, RequestKeepsOwnership DEF DisableDeinitializes, State
  <2> QED BY <1>6, <2>1, <2>2 DEF DisableDeinitializes
<1>7. CASE DoEnable(t)
  <2>1. CASE UNCHANGED state
    BY <1>1, <1>7, <2>1 DEF DoEnable
  <2>2. CASE state[n] = "Disabled" /\ SetState(n, "Deinitialized")
    BY <1>7, <2>2, RequestKeepsOwnership DEF DoEnable, State
  <2> QED BY <1>7, <2>1, <2>2 DEF DoEnable
<1>8. CASE Destroy(t)
  BY <1>8, RequestKeepsOwnership DEF Destroy, State
<1>9. CASE \/ WakeWorker(t) \/ WaitCheck(t) \/ WaitBlock(t) \/ WaitResult(t)
           \/ DeleteCheck(t) \/ Join(t)
  BY <1>1, <1>9
  DEF WakeWorker, WaitCheck, WaitBlock, WaitResult, DeleteCheck, Join
<1> QED
  BY <1>2, <1>3, <1>4, <1>5, <1>6, <1>7, <1>8, <1>9 DEF CallStep

LEMMA WorkerStepOwnership ==
  ASSUME IInv, NEW n \in Node, WorkerStep(n) \/ Timeout(n)
  PROVE  WorkerOwnsTransient' /\ NoStaleReinit' /\ MarkResetBeforeBody'
<1> USE DEF IInv, TypeOK, WorkerOwnsTransient, NoStaleReinit,
            MarkResetBeforeBody, InitSection, DeinitSection, WorkerAt,
            WorkerGoto, SetState
<1>1. CASE Dispatch(n)
  BY <1>1 DEF Dispatch
<1>2. CASE Wakeup(n) \/ Timeout(n)
  BY <1>2 DEF Wakeup, Timeout
<1>3. CASE InitEnter(n)
  BY <1>3 DEF InitEnter
<1>4. CASE InitDependency(n)
  BY <1>4 DEF InitDependency
<1>5. CASE InitDependencyAnswer(n)
  BY <1>5 DEF InitDependencyAnswer, Settle
<1>6. CASE InitReady(n)
  BY <1>6 DEF InitReady
<1>7. CASE InitSucceeds(n)
  BY <1>7 DEF InitSucceeds
<1>8. CASE InitFails(n)
  BY <1>8 DEF InitFails, Settle
<1>9. CASE InitWakesLinked(n)
  BY <1>9 DEF InitWakesLinked
<1>10. CASE InitDone(n)
  BY <1>10 DEF InitDone, Settle
<1>11. CASE DeinitEnter(n)
  BY <1>11 DEF DeinitEnter
<1>12. CASE DeinitDependent(n)
  BY <1>12 DEF DeinitDependent
<1>13. CASE DeinitDependentAnswer(n)
  BY <1>13 DEF DeinitDependentAnswer
<1>14. CASE DeinitReady(n)
  BY <1>14 DEF DeinitReady
<1>15. CASE DeinitDone(n)
  <2>1. PICK s \in {"Disabled", "DoInitialize", "Deinitialized"} :
          Settle(n, "Deinitializing", s)
    BY <1>15 DEF DeinitDone
  <2> QED BY <1>15, <2>1 DEF DeinitDone, Settle
<1>16. CASE Notify(n)
  BY <1>16 DEF Notify
<1> QED
  BY <1>1, <1>2, <1>3, <1>4, <1>5, <1>6, <1>7, <1>8, <1>9, <1>10, <1>11,
     <1>12, <1>13, <1>14, <1>15, <1>16
  DEF WorkerStep

LEMMA Invariance == Spec => []IInv
<1>1. Init /\ TypeOK => IInv
  BY DEF Init, TypeOK, IInv, WorkerOwnsTransient, NoStaleReinit,
         MarkResetBeforeBody, InitSection, DeinitSection
<1>2. IInv /\ TypeOK' /\ [Next]_vars => IInv'
  <2> SUFFICES ASSUME IInv, TypeOK', [Next]_vars
               PROVE  /\ WorkerOwnsTransient' /\ NoStaleReinit'
                      /\ MarkResetBeforeBody'
    BY DEF IInv
  <2>1. ASSUME UNCHANGED <<state, wpc, reinit>>
        PROVE  /\ WorkerOwnsTransient' /\ NoStaleReinit'
               /\ MarkResetBeforeBody'
    BY <2>1 DEF IInv, WorkerOwnsTransient, NoStaleReinit, MarkResetBeforeBody
  <2>2. CASE UNCHANGED vars
    BY <2>1, <2>2 DEF vars
  <2>3. CASE \E c \in Client : Issue(c)
    BY <2>1, <2>3 DEF Issue
  <2> QED BY <2>2, <2>3, CallStepOwnership, WorkerStepOwnership DEF Next
<1> QED BY <1>1, <1>2, TypeCorrect, PTL DEF Spec

(* The worker that is inside initialization or deinitialization keeps that     *)
(* state until it leaves it itself, whoever requests what meanwhile; only the  *)
(* destructor takes it over.  And a node is never left in a running state      *)
(* without a worker that runs it.                                              *)
THEOREM OwnershipKept == Spec => []WorkerOwnsTransient
BY Invariance, PTL DEF IInv

(* An initialized node has no pending reinitialization: the next plain         *)
(* doDeinitialize leaves it deinitialized.                                     *)
THEOREM ReinitMarkSpent == Spec => []NoStaleReinit
BY Invariance, PTL DEF IInv

-------------------------------------------------------------------------------
(* What a call makes of the state of its node.                                 *)
CallEdge == {<<"Disabled", "Deinitialized">>, <<"DoInitialize", "Disabled">>,
             <<"Deinitialized", "Disabled">>, <<"Deinitialized", "DoInitialize">>,
             <<"Initialized", "DoDeinitialize">>}

LEMMA CallStates ==
  ASSUME NEW t \in Thread, CallStep(t)
  PROVE  /\ wpc' = wpc
         /\ \/ UNCHANGED state
            \/ SetState(Target(t), "DoShutdown")
            \/ \E e \in CallEdge : state[Target(t)] = e[1] /\ SetState(Target(t), e[2])
<1>1. CASE \/ DoInitialize(t) \/ DoReinitialize(t) \/ DoDeinitialize(t)
           \/ DisableDeinitializes(t) \/ DoEnable(t)
  BY <1>1 DEF DoInitialize, DoReinitialize, DoDeinitialize, DisableDeinitializes,
              DoEnable, CallEdge
<1>2. CASE DoDisable(t)
  BY <1>2 DEF DoDisable, CallEdge
<1>3. CASE WakeWorker(t) \/ WaitCheck(t) \/ WaitBlock(t) \/ WaitResult(t)
           \/ DeleteCheck(t) \/ Destroy(t) \/ Join(t)
  BY <1>3 DEF WakeWorker, WaitCheck, WaitBlock, WaitResult, DeleteCheck, Destroy, Join
<1> QED BY <1>1, <1>2, <1>3 DEF CallStep

(* No edge of a call leads out of what RequestKept allows.                     *)
LEMMA CallKeepsRequest ==
  ASSUME TypeOK, RequestKept, NEW t \in Thread, CallStep(t)
  PROVE  RequestKept'
<1>1. CASE UNCHANGED state
  BY <1>1, CallStates DEF RequestKept
<1>2. CASE SetState(Target(t), "DoShutdown")
  BY <1>2, CallStates DEF RequestKept, SetState, TypeOK
<1>3. ASSUME NEW e \in CallEdge, state[Target(t)] = e[1], SetState(Target(t), e[2])
      PROVE  RequestKept'
  <2>1. /\ wpc' = wpc
        /\ \A m \in Node : m # Target(t) => state'[m] = state[m]
        /\ Target(t) \in Node => state'[Target(t)] = e[2]
    BY <1>3, CallStates DEF SetState, TypeOK
  <2>2. /\ e[1] \in {"DoDeinitialize", "DoShutdown"} => e[2] = "DoDeinitialize"
        /\ e[1] \in {"DoInitialize", "DoShutdown", "Disabled", "Deinitialized"}
             => e[2] \in {"DoInitialize", "Disabled", "Deinitialized"}
    BY DEF CallEdge
  <2> QED BY <1>3, <2>1, <2>2 DEF RequestKept
<1> QED BY <1>1, <1>2, <1>3, CallStates

(* A worker is about to take the lock only right after it has seen the request. *)
LEMMA WorkerKeepsRequest ==
  ASSUME TypeOK, RequestKept, NEW n \in Node, WorkerStep(n) \/ Timeout(n)
  PROVE  RequestKept'
<1> USE DEF RequestKept, TypeOK, WorkerGoto, WorkerAt, SetState
<1>1. ASSUME NEW r, NEW s, Settle(n, r, s) PROVE RequestKept'
  BY <1>1 DEF Settle
<1>2. CASE Dispatch(n)
  BY <1>2 DEF Dispatch
<1>3. CASE InitEnter(n) \/ DeinitEnter(n)
  BY <1>3 DEF InitEnter, DeinitEnter
<1>4. CASE InitDependency(n) \/ DeinitDependent(n)
  BY <1>4 DEF InitDependency, DeinitDependent
<1>5. CASE InitDependencyAnswer(n)
  BY <1>5, <1>1 DEF InitDependencyAnswer
<1>6. CASE InitFails(n) \/ InitDone(n)
  BY <1>6, <1>1 DEF InitFails, InitDone
<1>7. CASE DeinitDone(n)
  BY <1>7, <1>1 DEF DeinitDone
<1>8. CASE \/ Wakeup(n) \/ Timeout(n) \/ InitReady(n) \/ InitSucceeds(n)
           \/ InitWakesLinked(n) \/ DeinitDependentAnswer(n) \/ DeinitReady(n)
           \/ Notify(n)
  BY <1>8
  DEF Wakeup, Timeout, InitReady, InitSucceeds, InitWakesLinked,
      DeinitDependentAnswer, DeinitReady, Notify
<1> QED
  BY <1>2, <1>3, <1>4, <1>5, <1>6, <1>7, <1>8 DEF WorkerStep

(* Between its look at the state and its taking the lock again a worker loses  *)
(* a deinitialization to nobody but the destructor, and an initialization      *)
(* besides to a disable: for any graph and any requests, these are all the     *)
(* ways in which the two assertions of Node.cpp can fail.                      *)
THEOREM DispatchedRequestKept == Spec => []RequestKept
<1>1. Init => RequestKept
  BY DEF Init, RequestKept
<1>2. TypeOK /\ RequestKept /\ [Next]_vars => RequestKept'
  <2> SUFFICES ASSUME TypeOK, RequestKept, [Next]_vars PROVE RequestKept'
    OBVIOUS
  <2>1. CASE UNCHANGED vars
    BY <2>1 DEF vars, RequestKept
  <2>2. CASE \E c \in Client : Issue(c)
    BY <2>2 DEF Issue, RequestKept
  <2> QED BY <2>1, <2>2, CallKeepsRequest, WorkerKeepsRequest DEF Next
<1> QED BY <1>1, <1>2, TypeCorrect, PTL DEF Spec

-------------------------------------------------------------------------------
(* The state diagram is implemented wherever nodes are neither disabled nor    *)
(* deleted (with those requests it is not: see InitEnter).                      *)

NoDisableOrDelete == \A r \in Requests : r.op \notin {"disable", "delete"}

(* No call is, or leads to, a disable or a deletion; so the state a worker has *)
(* dispatched on is still there when it takes the lock again.                  *)
DispatchHolds ==
  /\ \A t \in Thread :
       /\ call[t].op \notin {"disable", "delete"}
       /\ call[t].pc \notin {"nested", "delete", "destroy", "wakeJoin", "join"}
  /\ \A n \in Node :
       /\ wpc[n] = "initEnter" => state[n] = "DoInitialize"
       /\ wpc[n] = "deinitEnter" => state[n] = "DoDeinitialize"
       /\ state[n] # "DoShutdown"

LEMMA DispatchHoldsNext ==
  ASSUME NoDisableOrDelete, IInv, DispatchHolds, Next
  PROVE  DispatchHolds'
<1> DEFINE CallsFine == \A t \in Thread :
              /\ call[t].op \notin {"disable", "delete"}
              /\ call[t].pc \notin {"nested", "delete", "destroy",
                                    "wakeJoin", "join"}
           StatesFine == \A n \in Node :
              /\ wpc[n] = "initEnter" => state[n] = "DoInitialize"
              /\ wpc[n] = "deinitEnter" => state[n] = "DoDeinitialize"
              /\ state[n] # "DoShutdown"
<1> USE DEF IInv, TypeOK
<1>1. CallsFine'
  <2> USE DEF DispatchHolds
  <2>1. ASSUME NEW c \in Client, Issue(c) PROVE CallsFine'
    <3>1. PICK n \in alive, r \in Requests :
            call' = [call EXCEPT ![c] = NewCall(r.op, n, r.wait)]
      BY <2>1 DEF Issue, NoDisableOrDelete
    <3> QED BY <3>1 DEF NewCall, NoDisableOrDelete
  <2>2. ASSUME NEW t \in Thread, CallStep(t) PROVE CallsFine'
    <3>1. ASSUME NEW v, Reply(t, v) PROVE CallsFine'
      BY <3>1 DEF Reply, CallType
    <3>2. ASSUME NEW p \in {"wake", "check", "parking", "parked", "result"},
                 Goto(t, p)
          PROVE  CallsFine'
      BY <3>2 DEF Goto, CallType
    <3>3. ASSUME WaitOrReply(t) PROVE CallsFine'
      BY <3>1, <3>2, <3>3 DEF WaitOrReply
    <3>4. CASE DoInitialize(t)
      BY <3>4, <3>1, <3>2, <3>3 DEF DoInitialize
    <3>5. CASE DoReinitialize(t)
      <4>1. ASSUME call' = [call EXCEPT ![t].op = "init"] PROVE CallsFine'
        BY <4>1 DEF CallType
      <4> QED BY <3>5, <3>1, <3>2, <3>3, <4>1 DEF DoReinitialize
    <3>6. CASE DoDeinitialize(t)
      BY <3>6, <3>1, <3>2, <3>3 DEF DoDeinitialize
    <3>7. CASE DoEnable(t)
      BY <3>7, <3>1 DEF DoEnable
    <3>8. CASE WakeWorker(t)
      <4>1. /\ At(t, "wake")
            /\ call' = [Notified(Target(t)) EXCEPT
                          ![t].pc = IF call[t].wait THEN "check" ELSE "returned",
                          ![t].ret = TRUE]
        BY <3>8 DEF WakeWorker, At
      <4>2. ASSUME NEW u \in Thread
            PROVE  /\ call'[u].op = call[u].op
                   /\ call'[u].pc \in {call[u].pc, "check", "returned"}
        <5>1. /\ Notified(Target(t)) \in [Thread -> CallType]
              /\ \A m : /\ Notified(m)[u].op = call[u].op
                        /\ Notified(m)[u].pc \in {call[u].pc, "check"}
          BY NotifiedType, NotifiedCall
        <5> HIDE DEF IInv, TypeOK, DispatchHolds
        <5>2. CASE u = t
          BY <4>1, <5>1, <5>2 DEF CallType
        <5>3. CASE u # t
          BY <4>1, <5>1, <5>3 DEF CallType
        <5> QED BY <5>2, <5>3
      <4> QED BY <4>2
    <3>9. CASE WaitCheck(t) \/ WaitBlock(t)
      BY <3>9, <3>2 DEF WaitCheck, WaitBlock
    <3>10. CASE WaitResult(t)
      BY <3>10, <3>1 DEF WaitResult
    <3>11. ~ (DoDisable(t) \/ DisableDeinitializes(t) \/ DeleteCheck(t)
              \/ Destroy(t) \/ Join(t))
      BY DEF DoDisable, DisableDeinitializes, DeleteCheck, Destroy, Join, At
    <3> QED
      BY <2>2, <3>4, <3>5, <3>6, <3>7, <3>8, <3>9, <3>10, <3>11 DEF CallStep
  <2>3. ASSUME NEW n \in Node, WorkerStep(n) \/ Timeout(n) PROVE CallsFine'
    <3>0. n \in Thread
      BY DEF Thread
    <3>1. ASSUME UNCHANGED call PROVE CallsFine'
      BY <3>1
    <3>2. ASSUME NEW m, call' = Notified(m) PROVE CallsFine'
      BY <3>2 DEF Notified, CallType
    <3>3. ASSUME call' = [call EXCEPT ![n] = NoCall] PROVE CallsFine'
      BY <3>0, <3>3 DEF NoCall
    <3>4. ASSUME NEW o \in {"init", "reinit", "deinit"}, NEW d, NEW w,
                 call' = [call EXCEPT ![n] = NewCall(o, d, w)]
          PROVE  CallsFine'
      BY <3>0, <3>4 DEF NewCall
    <3>5. CASE InitDependency(n)
      BY <3>5, <3>1, <3>4 DEF InitDependency
    <3>6. CASE DeinitDependent(n)
      <4> DEFINE o == IF reinit[n] THEN "reinit" ELSE "deinit"
      <4>1. o \in {"init", "reinit", "deinit"}
        OBVIOUS
      <4>2. \/ UNCHANGED call
            \/ \E d : call' = [call EXCEPT ![n] = NewCall(o, d, FALSE)]
        BY <3>6 DEF DeinitDependent
      <4> HIDE DEF o
      <4> QED BY <4>1, <4>2, <3>1, <3>4
    <3>7. CASE InitWakesLinked(n) \/ Notify(n)
      BY <3>7, <3>2 DEF InitWakesLinked, Notify
    <3>8. CASE InitDependencyAnswer(n) \/ DeinitDependentAnswer(n)
      BY <3>8, <3>3 DEF InitDependencyAnswer, DeinitDependentAnswer
    <3>9. CASE \/ Dispatch(n) \/ Wakeup(n) \/ Timeout(n) \/ InitEnter(n)
               \/ InitReady(n) \/ InitSucceeds(n) \/ InitFails(n)
               \/ InitDone(n) \/ DeinitEnter(n) \/ DeinitReady(n)
               \/ DeinitDone(n)
      BY <3>9, <3>1
      DEF Dispatch, Wakeup, Timeout, InitEnter, InitReady, InitSucceeds,
          InitFails, InitDone, DeinitEnter, DeinitReady, DeinitDone
    <3> QED BY <2>3, <3>5, <3>6, <3>7, <3>8, <3>9 DEF WorkerStep
  <2> QED BY <2>1, <2>2, <2>3 DEF Next
<1>2. StatesFine'
  <2> HIDE DEF CallsFine
  <2>1. ASSUME UNCHANGED <<state, wpc>> PROVE StatesFine'
    BY <2>1 DEF DispatchHolds
  <2>2. ASSUME NEW c \in Client, Issue(c) PROVE StatesFine'
    BY <2>1, <2>2 DEF Issue
  <2>3. ASSUME NEW t \in Thread, CallStep(t) PROVE StatesFine'
    <3>1. \/ UNCHANGED <<state, wpc>>
          \/ /\ wpc' = wpc
             /\ \E s \in {"DoInitialize", "DoDeinitialize", "Deinitialized"} :
                   /\ state[Target(t)] \notin {"DoInitialize", "DoDeinitialize"}
                   /\ SetState(Target(t), s)
      <4>1. ~ (DoDisable(t) \/ DisableDeinitializes(t) \/ DeleteCheck(t)
               \/ Destroy(t) \/ Join(t))
        BY DEF DispatchHolds, DoDisable, DisableDeinitializes, DeleteCheck,
               Destroy, Join, At
      <4> QED
        BY <2>3, <4>1
        DEF CallStep, DoInitialize, DoReinitialize, DoDeinitialize, DoEnable,
            WakeWorker, WaitCheck, WaitBlock, WaitResult
    <3> QED BY <3>1, <2>1 DEF DispatchHolds, SetState
  <2>4. ASSUME NEW n \in Node, WorkerStep(n) \/ Timeout(n) PROVE StatesFine'
    <3> USE DEF DispatchHolds, WorkerGoto, WorkerAt, SetState
    <3>1. ASSUME NEW r, NEW s, s # "DoShutdown", Settle(n, r, s)
          PROVE  StatesFine'
      BY <3>1 DEF Settle
    <3>2. CASE Dispatch(n)
      BY <3>2 DEF Dispatch
    <3>3. CASE InitEnter(n) \/ DeinitEnter(n)
      BY <3>3 DEF InitEnter, DeinitEnter
    <3>4. CASE InitDependency(n) \/ DeinitDependent(n)
      BY <3>4 DEF InitDependency, DeinitDependent
    <3>5. CASE InitDependencyAnswer(n)
      BY <3>5, <3>1 DEF InitDependencyAnswer
    <3>6. CASE InitFails(n) \/ InitDone(n)
      BY <3>6, <3>1 DEF InitFails, InitDone
    <3>7. CASE DeinitDone(n)
      <4>1. PICK s \in {"Disabled", "DoInitialize", "Deinitialized"} :
              Settle(n, "Deinitializing", s)
        BY <3>7 DEF DeinitDone
      <4> QED BY <4>1, <3>1
    <3>8. CASE \/ Wakeup(n) \/ Timeout(n) \/ InitReady(n) \/ InitSucceeds(n)
               \/ InitWakesLinked(n) \/ DeinitDependentAnswer(n)
               \/ DeinitReady(n) \/ Notify(n)
      BY <3>8
      DEF Wakeup, Timeout, InitReady, InitSucceeds, InitWakesLinked,
          DeinitDependentAnswer, DeinitReady, Notify
    <3> QED
      BY <2>4, <3>2, <3>3, <3>4, <3>5, <3>6, <3>7, <3>8 DEF WorkerStep
  <2> QED BY <2>2, <2>3, <2>4 DEF Next
<1> QED BY <1>1, <1>2 DEF DispatchHolds

(* Every state change is an edge of the diagram, taken by its owner: the       *)
(* requests by callers, the others by the worker.                              *)
LEMMA StepFollowsDiagram ==
  ASSUME IInv, DispatchHolds, Next
  PROVE  NS!Next \/ UNCHANGED state
<1> USE DEF IInv, TypeOK, DispatchHolds
<1>1. ASSUME NEW c \in Client, Issue(c) PROVE UNCHANGED state
  BY <1>1 DEF Issue
<1>2. ASSUME NEW t \in Thread, CallStep(t) PROVE NS!Next \/ UNCHANGED state
  <2>1. \/ UNCHANGED state
        \/ \E e \in NS!RequestEdge :
             state[Target(t)] = e[1] /\ SetState(Target(t), e[2])
    <3>1. ~ (DoDisable(t) \/ DisableDeinitializes(t) \/ DeleteCheck(t)
             \/ Destroy(t) \/ Join(t))
      BY DEF DoDisable, DisableDeinitializes, DeleteCheck, Destroy, Join, At
    <3> QED
      BY <1>2, <3>1
      DEF CallStep, DoInitialize, DoReinitialize, DoDeinitialize, DoEnable,
          WakeWorker, WaitCheck, WaitBlock, WaitResult, NS!RequestEdge
  <2>2. CASE Target(t) \in Node
    BY <2>1, <2>2 DEF NS!Next, NS!Request, NS!Take, SetState
  <2>3. CASE Target(t) \notin Node
    BY <2>1, <2>3 DEF SetState
  <2> QED BY <2>2, <2>3
<1>3. ASSUME NEW n \in Node, WorkerStep(n) \/ Timeout(n)
      PROVE  NS!Next \/ UNCHANGED state
  <2>1. ASSUME NEW r, NEW s, Settle(n, r, s), <<r, s>> \in NS!WorkerEdge
        PROVE  NS!Work(n) \/ UNCHANGED state
    BY <2>1 DEF Settle, SetState, NS!Work, NS!Take
  <2>2. CASE Dispatch(n)
    BY <2>2 DEF Dispatch, SetState
  <2>3. CASE InitEnter(n) \/ DeinitEnter(n)
    <3>1. NS!Work(n)
      BY <2>3
      DEF InitEnter, DeinitEnter, SetState, WorkerAt, NS!Work, NS!Take,
          NS!WorkerEdge
    <3> QED BY <3>1 DEF NS!Next
  <2>4. CASE InitDependencyAnswer(n)
    BY <2>4, <2>1 DEF InitDependencyAnswer, NS!WorkerEdge, NS!Next
  <2>5. CASE InitFails(n) \/ InitDone(n)
    BY <2>5, <2>1 DEF InitFails, InitDone, NS!WorkerEdge, NS!Next
  <2>6. CASE DeinitDone(n)
    <3>1. PICK s \in {"Disabled", "DoInitialize", "Deinitialized"} :
            Settle(n, "Deinitializing", s)
      BY <2>6 DEF DeinitDone
    <3> QED BY <3>1, <2>1 DEF NS!WorkerEdge, NS!Next
  <2>7. CASE \/ Wakeup(n) \/ Timeout(n) \/ InitDependency(n) \/ InitReady(n)
             \/ InitSucceeds(n) \/ InitWakesLinked(n) \/ DeinitDependent(n)
             \/ DeinitDependentAnswer(n) \/ DeinitReady(n) \/ Notify(n)
    BY <2>7
    DEF Wakeup, Timeout, InitDependency, InitReady, InitSucceeds,
        InitWakesLinked, DeinitDependent, DeinitDependentAnswer, DeinitReady,
        Notify
  <2> QED
    BY <1>3, <2>2, <2>3, <2>4, <2>5, <2>6, <2>7 DEF WorkerStep
<1> QED BY <1>1, <1>2, <1>3 DEF Next

(* NodeLifecycle implements the safety part of NodeStates when nobody disables *)
(* or deletes: no interleaving of requests, cascades and workers takes a node  *)
(* off the state diagram of the documentation.                                 *)
THEOREM DiagramFollowed == NoDisableOrDelete => (Spec => StatesFollowDiagram)
<1> SUFFICES ASSUME NoDisableOrDelete PROVE Spec => StatesFollowDiagram
  OBVIOUS
<1>1. Init => DispatchHolds /\ NS!Init
  BY DEF Init, DispatchHolds, NoCall, NS!Init
<1>2. IInv /\ DispatchHolds /\ [Next]_vars => DispatchHolds'
  <2> SUFFICES ASSUME IInv, DispatchHolds, [Next]_vars PROVE DispatchHolds'
    OBVIOUS
  <2>1. CASE UNCHANGED vars
    BY <2>1 DEF vars, DispatchHolds
  <2> QED BY <2>1, DispatchHoldsNext
<1>3. IInv /\ DispatchHolds /\ [Next]_vars => [NS!Next]_state
  BY StepFollowsDiagram DEF vars
<1> QED
  BY <1>1, <1>2, <1>3, Invariance, PTL DEF Spec, StatesFollowDiagram, NS!Safe

-------------------------------------------------------------------------------
(* A node is up only while its dependencies are, if one thread at a time       *)
(* issues requests, waits for each, and neither reinitializes nor disables,    *)
(* and if no chain of dependencies has more than two links.  With a second     *)
(* thread, with requests that do not wait, or with a longer chain it is not so *)
(* (the workers in the middle of the chain are a second requester).            *)

OneCaller == \E c : Client = {c}

RequestsWait == \A r \in Requests : r.op \in {"init", "deinit", "delete"} /\ r.wait

TwoLinks == \A e, f \in Deps : e[2] = f[1] => Inputs(e[1]) = {}

Linked(n) == Inputs(n) # {} \/ Outputs(n) # {}

(* The thread that issues the requests. *)
Caller == CHOOSE c \in Client : TRUE

UnderOneCaller == Client = {Caller} /\ RequestsWait /\ TwoLinks

CallingPC == {"request", "wake", "check", "parking", "parked", "result", "returned"}

WaitingPC == {"wake", "check", "parking", "parked"}

(* What the code can be doing under these requests: who calls what and where,  *)
(* which links a worker still has to visit, and that a node with links is not  *)
(* taken away from its worker between its look at the state and the lock.      *)
Unmarked == \A n \in Node : ~reinit[n] /\ ~disable[n]

CallerDisciplined ==
  \/ call[Caller] = NoCall
  \/ /\ call[Caller].op \in {"init", "deinit"} /\ call[Caller].wait
     /\ call[Caller].node \in Node /\ call[Caller].pc \in CallingPC
  \/ /\ call[Caller].op = "delete" /\ call[Caller].wait
     /\ call[Caller].node \in Node /\ ~Linked(call[Caller].node)
     /\ call[Caller].pc # "nested"

WorkerDisciplined(n) ==
  \/ wpc[n] \notin {"initCall", "deinitCall"} /\ call[n] = NoCall
  \/ /\ wpc[n] = "initCall" /\ call[n].op = "init" /\ call[n].wait
     /\ call[n].node \in Inputs(n) /\ call[n].pc \in CallingPC
  \/ /\ wpc[n] = "deinitCall" /\ call[n].op = "deinit" /\ ~call[n].wait
     /\ call[n].node \in Outputs(n)
     /\ call[n].pc \in {"request", "wake", "returned"}

LinksVisited(n) ==
  /\ wpc[n] \in {"initDeps", "initCall"} => todo[n] \subseteq Inputs(n)
  /\ wpc[n] \in {"deinitLinks", "deinitCall"} => todo[n] \subseteq Outputs(n)

LinkedKept(n) ==
  Linked(n) => /\ state[n] # "DoShutdown"
               /\ wpc[n] = "initEnter" => state[n] = "DoInitialize"
               /\ wpc[n] = "deinitEnter" => state[n] = "DoDeinitialize"

Disciplined ==
  /\ Unmarked
  /\ CallerDisciplined
  /\ \A n \in Node : WorkerDisciplined(n)
  /\ \A n \in Node : LinksVisited(n)
  /\ \A n \in Node : LinkedKept(n)

(* The caller waits for request o on node n. *)
Asked(o, n) == /\ call[Caller].op = o /\ call[Caller].node = n
               /\ call[Caller].pc \in WaitingPC

(* The worker of a dependent of n waits for n to come up. *)
AwaitedBy(m, n) == /\ wpc[m] = "initCall" /\ call[m].node = n
                   /\ call[m].pc \in WaitingPC

(* A dependent comes up only while somebody waits for it: in the end, the      *)
(* caller.  A node at the start of a chain goes down only while the caller     *)
(* waits for that.  So it is never both.                                       *)
UpIsAsked ==
  \A n \in Node :
    Inputs(n) # {} /\ state[n] \in {"DoInitialize", "Initializing"}
      => Asked("init", n) \/ \E m \in Outputs(n) : AwaitedBy(m, n)

DownIsAsked ==
  \A n \in Node :
    /\ Inputs(n) = {} /\ Outputs(n) # {}
    /\ state[n] \in {"DoDeinitialize", "Deinitializing"}
    => Asked("deinit", n)

(* The initializing worker of b has found a up. *)
FoundUp(a, b) ==
  \/ wpc[b] = "initDeps" /\ a \notin todo[b]
  \/ wpc[b] = "initCall" /\ a \notin todo[b] /\ call[b].node # a
  \/ wpc[b] = "initCall" /\ call[b].node = a /\ call[b].pc = "returned" /\ call[b].ret
  \/ wpc[b] \in {"initBody", "initWake"}

(* The deinitializing worker of a has seen to it that b goes down. *)
Told(a, b) ==
  \/ wpc[a] = "deinitLinks" /\ b \notin todo[a]
  \/ wpc[a] = "deinitCall" /\ b \notin todo[a]
  \/ wpc[a] = "deinitCall" /\ call[a].node = b /\ call[a].pc # "request"
  \/ wpc[a] = "deinitBody"

StaysUp == \A a, b \in Node :
             <<a, b>> \in Deps /\ FoundUp(a, b) => state[a] = "Initialized"

StaysDown == \A a, b \in Node :
               <<a, b>> \in Deps /\ Told(a, b) => state[b] # "Initialized"

HeldInv == UpIsAsked /\ DownIsAsked /\ StaysUp /\ StaysDown /\ DependencyHeld

(* What a step of a call does, whoever takes it.  No other call moves, but that *)
(* a blocked one may check again.                                               *)
Kept(u) ==
  /\ call'[u].op = call[u].op /\ call'[u].node = call[u].node
  /\ call'[u].wait = call[u].wait /\ call'[u].ret = call[u].ret
  /\ \/ call'[u].pc = call[u].pc
     \/ call[u].pc = "parked" /\ call'[u].pc = "check"

Becomes(t, p) ==
  /\ call'[t].op = call[t].op /\ call'[t].node = call[t].node
  /\ call'[t].wait = call[t].wait /\ call'[t].pc = p

Ends(t) == IF call[t].op = "delete" THEN "destroy" ELSE "returned"

Moves(t) ==
  \/ /\ At(t, "request") /\ call[t].op = "init"
     /\ state[Target(t)] = "Deinitialized"
     /\ SetState(Target(t), "DoInitialize") /\ Becomes(t, "wake")
  \/ /\ At(t, "request") /\ call[t].op \in {"deinit", "delete"}
     /\ state[Target(t)] = "Initialized"
     /\ SetState(Target(t), "DoDeinitialize") /\ Becomes(t, "wake")
  \/ /\ At(t, "request") /\ UNCHANGED state /\ Becomes(t, Ends(t))
     /\ call[t].op = "init" /\ call'[t].ret => state[Target(t)] = "Initialized"
     /\ call[t].op = "deinit" => state[Target(t)] # "Initialized"
  \/ /\ At(t, "request") /\ UNCHANGED state /\ call[t].wait /\ Becomes(t, "check")
  \/ /\ At(t, "wake") /\ UNCHANGED state
     /\ Becomes(t, IF call[t].wait THEN "check" ELSE "returned")
  \/ /\ At(t, "check") /\ UNCHANGED state
     /\ \/ Becomes(t, "parking")
        \/ Becomes(t, "result") /\ state[Target(t)] \in Settled(call[t].op)
  \/ /\ At(t, "parking") /\ UNCHANGED state /\ Becomes(t, "parked")
  \/ /\ At(t, "result") /\ UNCHANGED state /\ Becomes(t, Ends(t))
     /\ call[t].op = "init" /\ call'[t].ret => state[Target(t)] = "Initialized"
  \/ /\ call[t].op = "delete" /\ \E p \in CallPC \ {"nested"} : Becomes(t, p)
     /\ UNCHANGED state \/ SetState(Target(t), "DoShutdown")

(* The target of a call is a node; it reinitializes, disables and enables none. *)
LEMMA DisciplinedCall ==
  ASSUME TypeOK, Disciplined, Client = {Caller}, NEW t \in Thread,
         call[t].pc \notin {"none", "returned"}
  PROVE  /\ call[t].op \in {"init", "deinit", "delete"}
         /\ call[t].node \in Node
         /\ call[t].op # "deinit" => call[t].wait
         /\ call[t].op \in {"init", "deinit"} => call[t].pc \in CallingPC
         /\ call[t].pc # "nested"
<1>1. CASE t = Caller
  BY <1>1 DEF Disciplined, CallerDisciplined, NoCall, CallingPC
<1>2. CASE t # Caller
  <2>1. t \in Node /\ WorkerDisciplined(t)
    BY <1>2 DEF Thread, Disciplined
  <2> QED BY <2>1 DEF WorkerDisciplined, NoCall, CallingPC, Inputs, Outputs
<1> QED BY <1>1, <1>2

LEMMA GotoMoves ==
  ASSUME TypeOK, NEW t \in Thread, NEW p, Goto(t, p)
  PROVE  Becomes(t, p) /\ \A u \in Thread \ {t} : Kept(u)
<1>1. call[t] \in CallType
  BY DEF TypeOK
<1>2. /\ call'[t] = [call[t] EXCEPT !.pc = p]
      /\ \A u \in Thread \ {t} : call'[u] = call[u]
  BY DEF TypeOK, Goto
<1> QED BY <1>1, <1>2 DEF CallType, Becomes, Kept

LEMMA ReplyMoves ==
  ASSUME TypeOK, NEW t \in Thread, NEW v, Reply(t, v)
  PROVE  /\ Becomes(t, Ends(t)) /\ call'[t].ret = v
         /\ \A u \in Thread \ {t} : Kept(u)
<1>1. call[t] \in CallType
  BY DEF TypeOK
<1>2. /\ call'[t] = [call[t] EXCEPT !.pc = Ends(t), !.ret = v]
      /\ \A u \in Thread \ {t} : call'[u] = call[u]
  BY DEF TypeOK, Reply, Ends
<1> HIDE DEF Ends
<1> QED BY <1>1, <1>2 DEF CallType, Becomes, Kept

LEMMA WaitOrReplyMoves ==
  ASSUME TypeOK, NEW t \in Thread, WaitOrReply(t)
  PROVE  /\ \/ call[t].wait /\ Becomes(t, "check")
            \/ ~call[t].wait /\ Becomes(t, Ends(t))
         /\ \A u \in Thread \ {t} : Kept(u)
BY GotoMoves, ReplyMoves DEF WaitOrReply

(* A notification lets blocked callers check again. *)
LEMMA NotifiedKept ==
  ASSUME TypeOK, NEW m, call' = Notified(m), NEW u \in Thread
  PROVE  Kept(u)
<1>1. call'[u] = IF call[u].pc = "parked" /\ call[u].node = m
                 THEN [call[u] EXCEPT !.pc = "check"] ELSE call[u]
  BY DEF Notified
<1>2. call[u] \in CallType
  BY DEF TypeOK
<1> QED BY <1>1, <1>2 DEF CallType, Kept

LEMMA WakeMoves ==
  ASSUME TypeOK, NEW t \in Thread, NEW p, NEW m, call[t].pc # "parked",
         call' = [Notified(m) EXCEPT ![t].pc = p, ![t].ret = TRUE]
  PROVE  Becomes(t, p) /\ \A u \in Thread \ {t} : Kept(u)
<1>1. /\ Notified(m) \in [Thread -> CallType]
      /\ call[t] \in CallType
  BY NotifiedType DEF TypeOK
<1>2. Notified(m)[t] = call[t]
  BY DEF Notified
<1>3. Becomes(t, p)
  BY <1>1, <1>2 DEF CallType, Becomes
<1>4. ASSUME NEW u \in Thread \ {t} PROVE Kept(u)
  <2>1. call'[u] = IF call[u].pc = "parked" /\ call[u].node = m
                   THEN [call[u] EXCEPT !.pc = "check"] ELSE call[u]
    BY <1>1 DEF Notified
  <2>2. call[u] \in CallType
    BY DEF TypeOK
  <2> QED BY <2>1, <2>2 DEF CallType, Kept
<1> QED BY <1>3, <1>4

LEMMA CallMoves ==
  ASSUME TypeOK, Disciplined, Client = {Caller}, NEW t \in Thread, CallStep(t)
  PROVE  /\ Moves(t)
         /\ \A u \in Thread \ {t} : Kept(u)
         /\ UNCHANGED <<reinit, disable, wpc, todo>>
<1>0. ASSUME call[t].pc \notin {"none", "returned"}
      PROVE  /\ call[t].op \in {"init", "deinit", "delete"}
             /\ call[t].op # "deinit" => call[t].wait
             /\ call[t].op \in {"init", "deinit"} => call[t].pc \in CallingPC
             /\ call[t].pc # "nested"
  BY <1>0, DisciplinedCall
<1>1. ~ (DoReinitialize(t) \/ DoDisable(t) \/ DisableDeinitializes(t)
         \/ DoEnable(t))
  BY <1>0 DEF DoReinitialize, DoDisable, DisableDeinitializes, DoEnable, At
<1>2. CASE DoInitialize(t)
  <2>1. /\ \A v : Reply(t, v) => /\ Becomes(t, Ends(t)) /\ call'[t].ret = v
                                 /\ \A u \in Thread \ {t} : Kept(u)
        /\ \A p : Goto(t, p) => /\ Becomes(t, p)
                                /\ \A u \in Thread \ {t} : Kept(u)
        /\ WaitOrReply(t) => /\ call[t].wait => Becomes(t, "check")
                             /\ \A u \in Thread \ {t} : Kept(u)
    BY GotoMoves, ReplyMoves, WaitOrReplyMoves
  <2>2. call[t].wait
    BY <1>0, <1>2 DEF DoInitialize, At
  <2> QED BY <1>2, <2>1, <2>2 DEF DoInitialize, Moves
<1>3. CASE DoDeinitialize(t)
  <2>1. /\ \A v : Reply(t, v) => /\ Becomes(t, Ends(t))
                                 /\ \A u \in Thread \ {t} : Kept(u)
        /\ \A p : Goto(t, p) => /\ Becomes(t, p)
                                /\ \A u \in Thread \ {t} : Kept(u)
        /\ WaitOrReply(t) =>
             /\ \/ call[t].wait /\ Becomes(t, "check")
                \/ Becomes(t, Ends(t))
             /\ \A u \in Thread \ {t} : Kept(u)
    BY GotoMoves, ReplyMoves, WaitOrReplyMoves
  <2> QED BY <1>3, <2>1 DEF DoDeinitialize, Moves
<1>4. CASE WakeWorker(t)
  <2> DEFINE p == CASE At(t, "wakeJoin") -> "join"
                    [] At(t, "wake") /\ call[t].wait -> "check"
                    [] OTHER -> "returned"
  <2>1. /\ call[t].pc \in {"wake", "wakeJoin"}
        /\ call' = [Notified(Target(t)) EXCEPT ![t].pc = p, ![t].ret = TRUE]
    BY <1>4 DEF WakeWorker
  <2>2. Becomes(t, p) /\ \A u \in Thread \ {t} : Kept(u)
    <3> HIDE DEF p
    <3> QED BY <2>1, WakeMoves
  <2>3. CASE At(t, "wake")
    BY <1>4, <2>2, <2>3 DEF WakeWorker, Moves, At
  <2>4. CASE At(t, "wakeJoin")
    <3>1. p \in CallPC \ {"nested"} /\ call[t].op = "delete"
      BY <1>0, <2>4 DEF CallPC, At, CallingPC
    <3> HIDE DEF p
    <3> QED BY <1>4, <2>2, <3>1 DEF WakeWorker, Moves
  <2> QED BY <2>1, <2>3, <2>4 DEF At
<1>5. CASE WaitCheck(t)
  <2>1. PICK p \in {"parking", "result"} :
          /\ Goto(t, p)
          /\ p = "result" => state[Target(t)] \in Settled(call[t].op)
    BY <1>5 DEF WaitCheck
  <2>2. Becomes(t, p) /\ \A u \in Thread \ {t} : Kept(u)
    BY <2>1, GotoMoves
  <2> QED BY <1>5, <2>1, <2>2 DEF WaitCheck, Moves
<1>6. CASE WaitBlock(t)
  BY <1>6, GotoMoves DEF WaitBlock, Moves
<1>7. CASE WaitResult(t)
  <2>1. /\ Becomes(t, Ends(t))
        /\ call'[t].ret = (call[t].op \in {"init", "reinit"}
                             => state[Target(t)] = "Initialized")
        /\ \A u \in Thread \ {t} : Kept(u)
    BY <1>7, ReplyMoves DEF WaitResult
  <2> QED BY <1>7, <2>1 DEF WaitResult, Moves
<1>8. CASE DeleteCheck(t) \/ Destroy(t) \/ Join(t)
  <2>1. call[t].op = "delete"
    BY <1>0, <1>8 DEF DeleteCheck, Destroy, Join, At, CallingPC
  <2>2. PICK p \in CallPC \ {"nested"} : Goto(t, p)
    BY <1>8 DEF DeleteCheck, Destroy, Join, CallPC
  <2>3. Becomes(t, p) /\ \A u \in Thread \ {t} : Kept(u)
    BY <2>2, GotoMoves
  <2> QED BY <1>8, <2>1, <2>3 DEF DeleteCheck, Destroy, Join, Moves
<1> QED BY <1>1, <1>2, <1>3, <1>4, <1>5, <1>6, <1>7, <1>8 DEF CallStep

LEMMA NoCallFields ==
  ASSUME NEW k \in CallType
  PROVE  k = NoCall <=> /\ k.pc = "none" /\ k.op = "none" /\ k.node = NoNode
                        /\ k.wait = FALSE /\ k.ret = FALSE
BY DEF CallType, NoCall

LEMMA KeptNoCall ==
  ASSUME TypeOK, TypeOK', NEW u \in Thread, Kept(u), call[u] = NoCall
  PROVE  call'[u] = NoCall
<1>1. call[u] \in CallType /\ call'[u] \in CallType
  BY DEF TypeOK
<1> QED BY <1>1, NoCallFields DEF Kept

(* A step of a call keeps the discipline. *)
LEMMA CallDisciplined ==
  ASSUME TypeOK, Disciplined, Client = {Caller}, NEW t \in Thread, CallStep(t)
  PROVE  Disciplined'
<1>0. TypeOK'
  BY CallStepType
<1>1. /\ Moves(t)
      /\ \A u \in Thread \ {t} : Kept(u)
      /\ UNCHANGED <<reinit, disable, wpc, todo>>
  BY CallMoves
<1>2. Unmarked'
  BY <1>1 DEF Disciplined, Unmarked
<1>3. call[t] # NoCall
  BY <1>1 DEF Moves, At, NoCall
<1>4. CallerDisciplined'
  <2>0. Caller \in Thread /\ CallerDisciplined
    BY DEF Thread, Disciplined
  <2>1. CASE t = Caller
    BY <1>1, <1>3, <2>0, <2>1
    DEF Moves, Becomes, Ends, At, CallerDisciplined, CallingPC
  <2>2. CASE t # Caller
    <3>1. Kept(Caller) /\ (call[Caller] = NoCall => call'[Caller] = NoCall)
      BY <1>0, <1>1, <2>0, <2>2, KeptNoCall
    <3> QED BY <2>0, <3>1 DEF Kept, CallerDisciplined, CallingPC
  <2> QED BY <2>1, <2>2
<1>5. ASSUME NEW n \in Node PROVE WorkerDisciplined(n)'
  <2>0. n \in Thread /\ WorkerDisciplined(n)
    BY DEF Thread, Disciplined
  <2>1. CASE t = n
    BY <1>1, <1>3, <2>0, <2>1
    DEF Moves, Becomes, Ends, At, WorkerDisciplined, CallingPC
  <2>2. CASE t # n
    <3>1. Kept(n) /\ (call[n] = NoCall => call'[n] = NoCall)
      BY <1>0, <1>1, <2>0, <2>2, KeptNoCall
    <3> QED BY <1>1, <2>0, <3>1 DEF Kept, WorkerDisciplined, CallingPC
  <2> QED BY <2>1, <2>2
<1>6. ASSUME NEW n \in Node PROVE LinksVisited(n)'
  BY <1>1 DEF Disciplined, LinksVisited
<1>7. ASSUME NEW n \in Node PROVE LinkedKept(n)'
  <2>0. LinkedKept(n)
    BY DEF Disciplined
  <2>1. \/ state'[n] = state[n]
        \/ state[n] = "Deinitialized" /\ state'[n] = "DoInitialize"
        \/ state[n] = "Initialized" /\ state'[n] = "DoDeinitialize"
        \/ ~Linked(n)
    <3>1. call[t].op = "delete" => ~Linked(Target(t))
      <4>1. CASE t = Caller
        BY <4>1, <1>3 DEF Disciplined, CallerDisciplined, Target
      <4>2. CASE t # Caller
        BY <4>2, <1>3 DEF Disciplined, WorkerDisciplined, Thread
      <4> QED BY <4>1, <4>2
    <3> QED BY <1>1, <3>1 DEF Moves, SetState, TypeOK
  <2> QED BY <1>1, <2>0, <2>1 DEF LinkedKept
<1> QED BY <1>2, <1>4, <1>5, <1>6, <1>7 DEF Disciplined

-------------------------------------------------------------------------------
(* The ends of a dependency. *)
LEMMA DependencyEnds ==
  ASSUME NEW a \in Node, NEW b \in Node, <<a, b>> \in Deps
  PROVE  /\ a # b /\ a \in Inputs(b) /\ b \in Outputs(a)
         /\ Linked(a) /\ Linked(b)
         /\ Inputs(b) # {} /\ Outputs(a) # {}
         /\ a \in Thread /\ b \in Thread
<1>1. a \in Inputs(b) /\ b \in Outputs(a)
  BY DEF Inputs, Outputs
<1> QED BY <1>1, LifecycleAssumption DEF Linked, Thread

(* Workers ask dependencies to initialize, and dependents to deinitialize. *)
LEMMA WhoAsks ==
  ASSUME TypeOK, Disciplined, UnderOneCaller, NEW t \in Thread, call[t] # NoCall
  PROVE  \/ t = Caller
         \/ /\ t \in Node /\ Target(t) \in Node /\ wpc[t] = "initCall"
            /\ call[t].op = "init" /\ call[t].wait /\ <<Target(t), t>> \in Deps
         \/ /\ t \in Node /\ Target(t) \in Node /\ wpc[t] = "deinitCall"
            /\ call[t].op = "deinit" /\ ~call[t].wait /\ <<t, Target(t)>> \in Deps
<1> SUFFICES ASSUME t # Caller
             PROVE  \/ /\ t \in Node /\ Target(t) \in Node /\ wpc[t] = "initCall"
                       /\ call[t].op = "init" /\ call[t].wait
                       /\ <<Target(t), t>> \in Deps
                    \/ /\ t \in Node /\ Target(t) \in Node /\ wpc[t] = "deinitCall"
                       /\ call[t].op = "deinit" /\ ~call[t].wait
                       /\ <<t, Target(t)>> \in Deps
  OBVIOUS
<1>1. t \in Node /\ WorkerDisciplined(t)
  BY DEF Thread, Disciplined, UnderOneCaller
<1> QED BY <1>1 DEF WorkerDisciplined, Target, Inputs, Outputs

(* What a call makes of the state of a node with links. *)
LEMMA CallChanges ==
  ASSUME TypeOK, Disciplined, UnderOneCaller, NEW t \in Thread, CallStep(t),
         NEW n \in Node, Linked(n)
  PROVE  \/ state'[n] = state[n]
         \/ /\ state[n] = "Deinitialized" /\ state'[n] = "DoInitialize"
            /\ At(t, "request") /\ Target(t) = n /\ Becomes(t, "wake")
            /\ call[t].op = "init"
            /\ t # Caller => t \in Node /\ wpc[t] = "initCall" /\ <<n, t>> \in Deps
         \/ /\ state[n] = "Initialized" /\ state'[n] = "DoDeinitialize"
            /\ At(t, "request") /\ Target(t) = n /\ Becomes(t, "wake")
            /\ call[t].op = "deinit"
            /\ t # Caller => t \in Node /\ wpc[t] = "deinitCall" /\ <<t, n>> \in Deps
<1>1. Moves(t)
  BY CallMoves DEF UnderOneCaller
<1>2. CASE Target(t) = n
  <2>0. call[t] # NoCall
    BY <1>1 DEF Moves, At, NoCall
  <2>1. \/ t = Caller
        \/ t \in Node /\ wpc[t] = "initCall" /\ call[t].op = "init" /\ <<n, t>> \in Deps
        \/ t \in Node /\ wpc[t] = "deinitCall" /\ call[t].op = "deinit" /\ <<t, n>> \in Deps
    BY <1>2, <2>0, WhoAsks
  <2>2. call[t].op # "delete"
    <3>1. CASE t = Caller
      BY <1>2, <2>0, <3>1 DEF Disciplined, CallerDisciplined, Target
    <3> QED BY <2>1, <3>1
  <2> QED BY <1>1, <1>2, <2>1, <2>2 DEF Moves, SetState, TypeOK
<1>3. CASE Target(t) # n
  BY <1>1, <1>3 DEF Moves, SetState, TypeOK
<1> QED BY <1>2, <1>3

(* A thread that waits goes on waiting until the state has settled. *)
LEMMA WaitingKept ==
  ASSUME TypeOK, Disciplined, UnderOneCaller, NEW t \in Thread, CallStep(t),
         NEW u \in Thread, call[u].op \in {"init", "deinit"}, call[u].wait,
         call[u].pc \in WaitingPC,
         state[Target(u)] \notin {"Initialized", "Deinitialized"}
  PROVE  /\ call'[u].op = call[u].op /\ call'[u].node = call[u].node
         /\ call'[u].pc \in WaitingPC
<1>1. Moves(t) /\ \A v \in Thread \ {t} : Kept(v)
  BY CallMoves DEF UnderOneCaller
<1>2. CASE t = u
  BY <1>1, <1>2 DEF WaitingPC, Moves, Becomes, At, Settled
<1>3. CASE t # u
  BY <1>1, <1>3 DEF WaitingPC, Kept
<1> QED BY <1>2, <1>3

LEMMA AskedKept ==
  ASSUME TypeOK, Disciplined, UnderOneCaller, NEW t \in Thread, CallStep(t),
         NEW o \in {"init", "deinit"}, NEW n \in Node, Asked(o, n),
         state[n] \notin {"Initialized", "Deinitialized"}
  PROVE  Asked(o, n)'
<1>1. Caller \in Thread /\ call[Caller].wait
  BY DEF UnderOneCaller, Thread, Disciplined, CallerDisciplined, Asked, NoCall
<1> QED BY <1>1, WaitingKept DEF Asked, Target

LEMMA AwaitedKept ==
  ASSUME TypeOK, Disciplined, UnderOneCaller, NEW t \in Thread, CallStep(t),
         NEW m \in Node, NEW n \in Node, AwaitedBy(m, n),
         state[n] \notin {"Initialized", "Deinitialized"}
  PROVE  AwaitedBy(m, n)'
<1>1. m \in Thread /\ WorkerDisciplined(m) /\ wpc' = wpc
  BY CallStates DEF Thread, Disciplined
<1>2. call[m].op = "init" /\ call[m].wait
  BY <1>1 DEF WorkerDisciplined, AwaitedBy
<1> QED BY <1>1, <1>2, WaitingKept DEF AwaitedBy, Target

(* The caller waits for a node to come up. *)
CallerInits == call[Caller].op = "init" /\ call[Caller].pc \in WaitingPC

(* Whoever initializes a dependent, the caller waits for it. *)
LEMMA InitializingAsked ==
  ASSUME TypeOK, Disciplined, WorkerOwnsTransient, UnderOneCaller, UpIsAsked,
         NEW n \in Node, Inputs(n) # {}, wpc[n] \in InitSection
  PROVE  CallerInits
<1>1. ASSUME NEW m \in Node, Inputs(m) # {}, wpc[m] \in InitSection
      PROVE  Asked("init", m) \/ \E d \in Outputs(m) : AwaitedBy(d, m)
  <2>1. state[m] = "Initializing"
    BY <1>1 DEF Disciplined, LinkedKept, Linked, WorkerOwnsTransient
  <2> QED BY <1>1, <2>1 DEF UpIsAsked
<1>2. CASE Asked("init", n)
  BY <1>2 DEF Asked, CallerInits
<1>3. ASSUME NEW d \in Outputs(n), AwaitedBy(d, n) PROVE CallerInits
  <2>1. d \in Node /\ <<n, d>> \in Deps /\ Inputs(d) # {}
    BY DEF Outputs, Inputs
  <2>2. wpc[d] \in InitSection
    BY <1>3 DEF AwaitedBy, InitSection
  <2>3. Outputs(d) = {}
    <3> SUFFICES ASSUME NEW f \in Outputs(d) PROVE FALSE
      OBVIOUS
    <3>1. <<d, f>> \in Deps
      BY DEF Outputs
    <3> QED BY <2>1, <3>1 DEF UnderOneCaller, TwoLinks
  <2> QED BY <1>1, <2>1, <2>2, <2>3 DEF Asked, CallerInits
<1> QED BY <1>1, <1>2, <1>3

(* While it does, the start of a chain does not go down. *)
LEMMA DeinitializingAsked ==
  ASSUME TypeOK, Disciplined, WorkerOwnsTransient, DownIsAsked,
         NEW n \in Node, Inputs(n) = {}, Outputs(n) # {}, wpc[n] \in DeinitSection
  PROVE  ~CallerInits
<1>1. state[n] = "Deinitializing"
  BY DEF Disciplined, LinkedKept, Linked, WorkerOwnsTransient
<1> QED BY <1>1 DEF DownIsAsked, Asked, CallerInits

LEMMA CallHeld ==
  ASSUME TypeOK, Disciplined, WorkerOwnsTransient, UnderOneCaller, HeldInv,
         NEW t \in Thread, CallStep(t)
  PROVE  HeldInv'
<1>0. /\ Moves(t)
      /\ \A u \in Thread \ {t} : Kept(u)
      /\ UNCHANGED <<reinit, disable, wpc, todo>>
  BY CallMoves DEF UnderOneCaller
<1>1. UpIsAsked'
  <2> SUFFICES ASSUME NEW n \in Node, Inputs(n) # {},
                      state'[n] \in {"DoInitialize", "Initializing"}
               PROVE  Asked("init", n)' \/ \E m \in Outputs(n) : AwaitedBy(m, n)'
    BY DEF UpIsAsked, Inputs, Outputs
  <2>0. Linked(n)
    BY DEF Linked
  <2>1. CASE state'[n] = state[n]
    <3>1. Asked("init", n) \/ \E m \in Outputs(n) : AwaitedBy(m, n)
      BY <2>1 DEF HeldInv, UpIsAsked
    <3>2. CASE Asked("init", n)
      BY <2>1, <3>2, AskedKept
    <3>3. ASSUME NEW m \in Outputs(n), AwaitedBy(m, n) PROVE AwaitedBy(m, n)'
      BY <2>1, <3>3, AwaitedKept DEF Outputs
    <3> QED BY <3>1, <3>2, <3>3
  <2>2. CASE state'[n] # state[n]
    <3>1. /\ call[t].op = "init" /\ Target(t) = n /\ Becomes(t, "wake")
          /\ t # Caller => t \in Node /\ wpc[t] = "initCall" /\ <<n, t>> \in Deps
      BY <2>0, <2>2, CallChanges
    <3>2. CASE t = Caller
      BY <3>1, <3>2 DEF Becomes, Asked, WaitingPC, Target
    <3>3. CASE t # Caller
      <4>1. t \in Outputs(n) /\ AwaitedBy(t, n)'
        BY <1>0, <3>1, <3>3 DEF Becomes, AwaitedBy, WaitingPC, Target, Outputs
      <4> QED BY <4>1
    <3> QED BY <3>2, <3>3
  <2> QED BY <2>1, <2>2
<1>2. DownIsAsked'
  <2> SUFFICES ASSUME NEW n \in Node, Inputs(n) = {}, Outputs(n) # {},
                      state'[n] \in {"DoDeinitialize", "Deinitializing"}
               PROVE  Asked("deinit", n)'
    BY DEF DownIsAsked, Inputs, Outputs
  <2>0. Linked(n)
    BY DEF Linked
  <2>1. CASE state'[n] = state[n]
    <3>1. Asked("deinit", n)
      BY <2>1 DEF HeldInv, DownIsAsked
    <3> QED BY <2>1, <3>1, AskedKept
  <2>2. CASE state'[n] # state[n]
    <3>1. /\ call[t].op = "deinit" /\ Target(t) = n /\ Becomes(t, "wake")
          /\ t # Caller => t \in Node /\ <<t, n>> \in Deps
      BY <2>0, <2>2, CallChanges
    <3>2. t = Caller
      BY <3>1 DEF Inputs
    <3> QED BY <3>1, <3>2 DEF Becomes, Asked, WaitingPC, Target
  <2> QED BY <2>1, <2>2
<1>3. StaysUp'
  <2> SUFFICES ASSUME NEW a \in Node, NEW b \in Node, <<a, b>> \in Deps,
                      FoundUp(a, b)'
               PROVE  state'[a] = "Initialized"
    BY DEF StaysUp
  <2>0. Linked(a) /\ Inputs(b) # {} /\ b \in Thread
    BY DependencyEnds
  <2>1. wpc[b] \in InitSection
    BY <1>0 DEF FoundUp, InitSection
  <2>2. state[a] = "Initialized"
    <3>1. CASE FoundUp(a, b)
      BY <3>1 DEF HeldInv, StaysUp
    <3>2. CASE ~FoundUp(a, b)
      <4>1. CASE t = b
        <5>1. /\ wpc[b] = "initCall" /\ call[b].node = a
              /\ call'[b].pc = "returned" /\ call'[b].ret
              /\ ~ (call[b].pc = "returned" /\ call[b].ret)
          BY <1>0, <3>2, <4>1 DEF FoundUp, Moves, Becomes
        <5>2. call[b].op = "init" /\ call[b].wait
          BY <5>1 DEF Disciplined, WorkerDisciplined
        <5> QED
          BY <1>0, <4>1, <5>1, <5>2 DEF Moves, Becomes, Ends, At, Target
      <4>2. CASE t # b
        BY <1>0, <2>0, <3>2, <4>2 DEF Kept, FoundUp
      <4> QED BY <4>1, <4>2
    <3> QED BY <3>1, <3>2
  <2>3. CallerInits
    BY <2>0, <2>1, InitializingAsked DEF HeldInv
  <2>4. ASSUME t \in Node, wpc[t] = "deinitCall", <<t, a>> \in Deps PROVE FALSE
    <3>1. Inputs(t) = {}
      BY <2>4 DEF UnderOneCaller, TwoLinks
    <3>2. Outputs(t) # {} /\ wpc[t] \in DeinitSection
      BY <2>4 DEF Outputs, DeinitSection
    <3> QED BY <2>3, <2>4, <3>1, <3>2, DeinitializingAsked DEF HeldInv
  <2>5. t = Caller => ~ (At(t, "request") /\ call[t].op = "deinit")
    BY <2>3 DEF CallerInits
  <2> QED BY <2>0, <2>2, <2>4, <2>5, CallChanges
<1>4. StaysDown'
  <2> SUFFICES ASSUME NEW a \in Node, NEW b \in Node, <<a, b>> \in Deps,
                      Told(a, b)'
               PROVE  state'[b] # "Initialized"
    BY DEF StaysDown
  <2>0. Linked(b) /\ a \in Thread
    BY DependencyEnds
  <2>1. CASE Told(a, b)
    <3>1. state[b] # "Initialized"
      BY <2>1 DEF HeldInv, StaysDown
    <3> QED BY <2>0, <3>1, CallChanges
  <2>2. CASE ~Told(a, b)
    <3>1. CASE t = a
      <4>1. /\ wpc[a] = "deinitCall" /\ call[a].node = b
            /\ call[a].pc = "request"
        BY <1>0, <2>2, <3>1 DEF Told, Moves, Becomes
      <4>2. call[a].op = "deinit" /\ ~call[a].wait
        BY <4>1 DEF Disciplined, WorkerDisciplined
      <4> QED
        BY <1>0, <3>1, <4>1, <4>2
        DEF Moves, Becomes, Ends, At, Target, SetState, TypeOK
    <3>2. CASE t # a
      BY <1>0, <2>0, <2>2, <3>2 DEF Kept, Told
    <3> QED BY <3>1, <3>2
  <2> QED BY <2>1, <2>2
<1>5. DependencyHeld'
  <2> SUFFICES ASSUME NEW a \in Node, NEW b \in Node, <<a, b>> \in Deps,
                      state'[b] = "Initialized"
               PROVE  state'[a] = "Initialized" \/ CascadePending(a, b)'
    BY LifecycleAssumption DEF DependencyHeld
  <2>0. Linked(a) /\ Linked(b)
    BY DependencyEnds
  <2>1. state[b] = "Initialized"
    BY <2>0, CallChanges
  <2>2. state[a] = "Initialized" \/ CascadePending(a, b)
    BY <2>1 DEF HeldInv, DependencyHeld
  <2>3. \/ state'[a] = state[a]
        \/ state[a] = "Deinitialized"
        \/ state'[a] = "DoDeinitialize"
    BY <2>0, CallChanges
  <2> QED BY <1>0, <2>2, <2>3 DEF CascadePending
<1> QED BY <1>1, <1>2, <1>3, <1>4, <1>5 DEF HeldInv

-------------------------------------------------------------------------------
(* A worker's step is its own: the others' calls at most check again.          *)
LEMMA WorkerAlone ==
  ASSUME TypeOK, NEW n \in Node, WorkerStep(n) \/ Timeout(n)
  PROVE  /\ \A u \in Thread \ {n} : Kept(u)
         /\ \A m \in Node \ {n} : /\ state'[m] = state[m]
                                  /\ wpc'[m] = wpc[m]
                                  /\ todo'[m] = todo[m]
<1>1. ASSUME NEW k, call' = [call EXCEPT ![n] = k], NEW u \in Thread \ {n}
      PROVE  Kept(u)
  BY <1>1 DEF Kept, TypeOK
<1>2. ASSUME NEW m, call' = Notified(m), NEW u \in Thread
      PROVE  Kept(u)
  BY <1>2, NotifiedKept
<1>3. ASSUME UNCHANGED call, NEW u \in Thread
      PROVE  Kept(u)
  BY <1>3 DEF Kept
<1>4. ASSUME NEW u \in Thread \ {n} PROVE Kept(u)
  <2>1. CASE InitDependency(n)
    BY <2>1, <1>1, <1>3 DEF InitDependency
  <2>2. CASE DeinitDependent(n)
    BY <2>2, <1>1, <1>3 DEF DeinitDependent
  <2>3. CASE InitDependencyAnswer(n) \/ DeinitDependentAnswer(n)
    BY <2>3, <1>1 DEF InitDependencyAnswer, DeinitDependentAnswer
  <2>4. CASE InitWakesLinked(n) \/ Notify(n)
    BY <2>4, <1>2 DEF InitWakesLinked, Notify
  <2>5. CASE \/ Dispatch(n) \/ Wakeup(n) \/ Timeout(n) \/ InitEnter(n)
             \/ InitReady(n) \/ InitSucceeds(n) \/ InitFails(n) \/ InitDone(n)
             \/ DeinitEnter(n) \/ DeinitReady(n) \/ DeinitDone(n)
    BY <2>5, <1>3
    DEF Dispatch, Wakeup, Timeout, InitEnter, InitReady, InitSucceeds,
        InitFails, InitDone, DeinitEnter, DeinitReady, DeinitDone
  <2> QED BY <2>1, <2>2, <2>3, <2>4, <2>5 DEF WorkerStep
<1>5. ASSUME NEW m \in Node \ {n} PROVE state'[m] = state[m]
  <2>1. ASSUME NEW r, NEW s, Settle(n, r, s) PROVE state'[m] = state[m]
    BY <2>1 DEF Settle, SetState, TypeOK
  <2>2. CASE Dispatch(n) \/ InitEnter(n) \/ DeinitEnter(n)
    BY <2>2 DEF Dispatch, InitEnter, DeinitEnter, SetState, TypeOK
  <2>3. CASE InitDependencyAnswer(n) \/ InitFails(n) \/ InitDone(n) \/ DeinitDone(n)
    BY <2>1, <2>3 DEF InitDependencyAnswer, InitFails, InitDone, DeinitDone
  <2>4. CASE \/ Wakeup(n) \/ Timeout(n) \/ InitDependency(n) \/ InitReady(n)
             \/ InitSucceeds(n) \/ InitWakesLinked(n) \/ DeinitDependent(n)
             \/ DeinitDependentAnswer(n) \/ DeinitReady(n) \/ Notify(n)
    BY <2>4
    DEF Wakeup, Timeout, InitDependency, InitReady, InitSucceeds,
        InitWakesLinked, DeinitDependent, DeinitDependentAnswer, DeinitReady,
        Notify
  <2> QED BY <2>2, <2>3, <2>4 DEF WorkerStep
<1>6. ASSUME NEW m \in Node \ {n} PROVE wpc'[m] = wpc[m]
  BY DEF WorkerStep, Dispatch, Wakeup, Timeout, InitEnter, InitDependency,
         InitDependencyAnswer, InitReady, InitSucceeds, InitFails,
         InitWakesLinked, InitDone, DeinitEnter, DeinitDependent,
         DeinitDependentAnswer, DeinitReady, DeinitDone, Notify, Settle,
         WorkerGoto, TypeOK
<1>7. ASSUME NEW m \in Node \ {n} PROVE todo'[m] = todo[m]
  BY DEF WorkerStep, Dispatch, Wakeup, Timeout, InitEnter, InitDependency,
         InitDependencyAnswer, InitReady, InitSucceeds, InitFails,
         InitWakesLinked, InitDone, DeinitEnter, DeinitDependent,
         DeinitDependentAnswer, DeinitReady, DeinitDone, Notify, TypeOK
<1> QED BY <1>4, <1>5, <1>6, <1>7

(* What the worker of a node with links makes of its state. *)
LEMMA WorkerChanges ==
  ASSUME TypeOK, Disciplined, NEW n \in Node, Linked(n),
         WorkerStep(n) \/ Timeout(n)
  PROVE  \/ state'[n] = state[n]
         \/ /\ state[n] = "DoInitialize" /\ state'[n] = "Initializing"
            /\ wpc'[n] = "initDeps"
         \/ /\ state[n] = "Initializing" /\ state'[n] = "Deinitialized"
            /\ wpc'[n] = "notify"
         \/ /\ wpc[n] = "initWake" /\ wpc'[n] = "notify"
            /\ state[n] = "Initializing" /\ state'[n] = "Initialized"
         \/ /\ state[n] = "DoDeinitialize" /\ state'[n] = "Deinitializing"
            /\ wpc'[n] = "deinitLinks" /\ todo'[n] = Outputs(n)
         \/ /\ wpc[n] = "deinitBody" /\ wpc'[n] = "notify"
            /\ state[n] = "Deinitializing" /\ state'[n] = "Deinitialized"
<1> USE DEF TypeOK
<1>0. /\ LinkedKept(n) /\ ~reinit[n] /\ ~disable[n]
  BY DEF Disciplined, Unmarked
<1>1. ASSUME NEW r, NEW s, Settle(n, r, s)
      PROVE  /\ wpc'[n] = "notify"
             /\ state'[n] = IF state[n] = r THEN s ELSE state[n]
  BY <1>1 DEF Settle, SetState, WorkerGoto
<1>2. CASE Dispatch(n)
  BY <1>0, <1>2 DEF Dispatch, LinkedKept
<1>3. CASE InitEnter(n)
  BY <1>0, <1>3 DEF InitEnter, LinkedKept, WorkerAt, WorkerGoto, SetState
<1>4. CASE DeinitEnter(n)
  BY <1>0, <1>4 DEF DeinitEnter, LinkedKept, WorkerAt, WorkerGoto, SetState
<1>5. CASE InitDependencyAnswer(n) \/ InitFails(n)
  BY <1>1, <1>5 DEF InitDependencyAnswer, InitFails
<1>6. CASE InitDone(n)
  BY <1>1, <1>6 DEF InitDone, WorkerAt
<1>7. CASE DeinitDone(n)
  <2>1. Settle(n, "Deinitializing", "Deinitialized")
    BY <1>0, <1>7 DEF DeinitDone
  <2> QED BY <1>1, <1>7, <2>1 DEF DeinitDone, WorkerAt
<1>8. CASE \/ Wakeup(n) \/ Timeout(n) \/ InitDependency(n) \/ InitReady(n)
           \/ InitSucceeds(n) \/ InitWakesLinked(n) \/ DeinitDependent(n)
           \/ DeinitDependentAnswer(n) \/ DeinitReady(n) \/ Notify(n)
  BY <1>8
  DEF Wakeup, Timeout, InitDependency, InitReady, InitSucceeds,
      InitWakesLinked, DeinitDependent, DeinitDependentAnswer, DeinitReady,
      Notify
<1> QED BY <1>2, <1>3, <1>4, <1>5, <1>6, <1>7, <1>8 DEF WorkerStep

(* The worker's own part of the discipline. *)
LEMMA WorkerDisciplinedOwn ==
  ASSUME TypeOK, TypeOK', Disciplined, NEW n \in Node,
         WorkerStep(n) \/ Timeout(n)
  PROVE  WorkerDisciplined(n)' /\ LinksVisited(n)' /\ LinkedKept(n)' /\ Unmarked'
<1>0. /\ WorkerDisciplined(n) /\ LinksVisited(n) /\ LinkedKept(n) /\ Unmarked
      /\ n \in Thread
  BY DEF Disciplined, Thread
<1>1. Unmarked'
  BY <1>0
  DEF WorkerStep, Dispatch, Wakeup, Timeout, InitEnter, InitDependency,
      InitDependencyAnswer, InitReady, InitSucceeds, InitFails,
      InitWakesLinked, InitDone, DeinitEnter, DeinitDependent,
      DeinitDependentAnswer, DeinitReady, DeinitDone, Notify, Unmarked, TypeOK
<1>2. LinkedKept(n)'
  <2>1. CASE Dispatch(n)
    BY <1>0, <2>1 DEF Dispatch, LinkedKept, WorkerGoto, WorkerAt, TypeOK
  <2>2. CASE ~Dispatch(n) /\ Linked(n)
    <3>1. wpc'[n] \notin {"initEnter", "deinitEnter"}
      BY <2>2
      DEF WorkerStep, Wakeup, Timeout, InitEnter, InitDependency,
          InitDependencyAnswer, InitReady, InitSucceeds, InitFails,
          InitWakesLinked, InitDone, DeinitEnter, DeinitDependent,
          DeinitDependentAnswer, DeinitReady, DeinitDone, Notify, Settle,
          WorkerGoto, WorkerAt, TypeOK
    <3>2. state'[n] # "DoShutdown"
      BY <1>0, <2>2, WorkerChanges DEF LinkedKept
    <3> QED BY <3>1, <3>2 DEF LinkedKept
  <2>3. CASE ~Linked(n)
    BY <2>3 DEF LinkedKept, Linked, Inputs, Outputs
  <2> QED BY <2>1, <2>2, <2>3
<1>3. LinksVisited(n)'
  <2> USE DEF LinksVisited, WorkerAt, WorkerGoto, TypeOK
  <2>1. ASSUME wpc'[n] \notin {"initDeps", "initCall", "deinitLinks", "deinitCall"}
        PROVE  LinksVisited(n)'
    BY <2>1
  <2>2. CASE InitEnter(n) \/ DeinitEnter(n)
    BY <2>2 DEF InitEnter, DeinitEnter, Inputs, Outputs
  <2>3. CASE InitDependency(n)
    <3>1. wpc[n] = "initDeps" /\ todo[n] \subseteq Inputs(n)
      BY <1>0, <2>3 DEF InitDependency
    <3>2. todo'[n] \subseteq todo[n]
      BY <2>3 DEF InitDependency
    <3>3. wpc'[n] \in {"initDeps", "initCall"}
      BY <2>3, <3>1 DEF InitDependency
    <3> QED BY <3>1, <3>2, <3>3 DEF Inputs, Outputs
  <2>4. CASE InitDependencyAnswer(n)
    BY <1>0, <2>4 DEF InitDependencyAnswer, Settle, Inputs, Outputs
  <2>5. CASE DeinitDependent(n)
    <3>1. wpc[n] = "deinitLinks" /\ todo[n] \subseteq Outputs(n)
      BY <1>0, <2>5 DEF DeinitDependent
    <3>2. todo'[n] \subseteq todo[n]
      <4>1. \/ todo' = todo
            \/ \E d \in todo[n] : todo' = [todo EXCEPT ![n] = @ \ {d}]
        BY <2>5 DEF DeinitDependent
      <4> QED BY <4>1
    <3>3. wpc'[n] \in {"deinitLinks", "deinitCall"}
      BY <2>5, <3>1 DEF DeinitDependent
    <3> QED BY <3>1, <3>2, <3>3 DEF Inputs, Outputs
  <2>6. CASE DeinitDependentAnswer(n)
    BY <1>0, <2>6 DEF DeinitDependentAnswer, Inputs, Outputs
  <2>7. CASE \/ Dispatch(n) \/ Wakeup(n) \/ Timeout(n) \/ InitReady(n)
             \/ InitSucceeds(n) \/ InitFails(n) \/ InitDone(n)
             \/ DeinitReady(n) \/ DeinitDone(n) \/ Notify(n)
    BY <2>1, <2>7
    DEF Dispatch, Wakeup, Timeout, InitReady, InitSucceeds, InitFails,
        InitDone, DeinitReady, DeinitDone, Notify, Settle
  <2>8. CASE InitWakesLinked(n)
    BY <2>1, <2>8 DEF InitWakesLinked
  <2> QED
    BY <2>2, <2>3, <2>4, <2>5, <2>6, <2>7, <2>8 DEF WorkerStep
<1>4. WorkerDisciplined(n)'
  <2>1. ASSUME wpc'[n] \notin {"initCall", "deinitCall"}, call'[n] = NoCall
        PROVE  WorkerDisciplined(n)'
    BY <2>1 DEF WorkerDisciplined, NoCall
  <2>2. ASSUME NEW m, call' = Notified(m), call[n] = NoCall
        PROVE  call'[n] = NoCall
    BY <1>0, <2>2, NotifiedKept, KeptNoCall
  <2>3. wpc[n] \notin {"initCall", "deinitCall"} => call[n] = NoCall
    BY <1>0 DEF WorkerDisciplined
  <2>4. CASE InitDependency(n)
    <3>1. todo[n] \subseteq Inputs(n) /\ wpc[n] = "initDeps"
      BY <1>0, <2>4 DEF InitDependency, LinksVisited, WorkerAt
    <3>2. PICK d \in todo[n] :
            \/ UNCHANGED <<wpc, call>>
            \/ /\ call' = [call EXCEPT ![n] = NewCall("init", d, TRUE)]
               /\ WorkerGoto(n, "initCall")
      BY <2>4 DEF InitDependency
    <3>3. CASE UNCHANGED <<wpc, call>>
      BY <2>1, <2>3, <3>1, <3>3
    <3>4. CASE /\ call' = [call EXCEPT ![n] = NewCall("init", d, TRUE)]
               /\ WorkerGoto(n, "initCall")
      <4>1. call'[n] = NewCall("init", d, TRUE) /\ wpc'[n] = "initCall"
        BY <1>0, <3>4 DEF WorkerGoto, TypeOK
      <4>2. d \in Inputs(n)'
        BY <3>1 DEF Inputs
      <4> QED BY <4>1, <4>2 DEF WorkerDisciplined, NewCall, CallingPC
    <3> QED BY <3>2, <3>3, <3>4
  <2>5. CASE DeinitDependent(n)
    <3>1. todo[n] \subseteq Outputs(n) /\ wpc[n] = "deinitLinks" /\ ~reinit[n]
      BY <1>0, <2>5 DEF DeinitDependent, LinksVisited, WorkerAt, Unmarked
    <3>2. PICK d \in todo[n] :
            \/ UNCHANGED <<wpc, call>>
            \/ /\ call' = [call EXCEPT ![n] = NewCall("deinit", d, FALSE)]
               /\ WorkerGoto(n, "deinitCall")
      BY <2>5, <3>1 DEF DeinitDependent
    <3>3. CASE UNCHANGED <<wpc, call>>
      BY <2>1, <2>3, <3>1, <3>3
    <3>4. CASE /\ call' = [call EXCEPT ![n] = NewCall("deinit", d, FALSE)]
               /\ WorkerGoto(n, "deinitCall")
      <4>1. call'[n] = NewCall("deinit", d, FALSE) /\ wpc'[n] = "deinitCall"
        BY <1>0, <3>4 DEF WorkerGoto, TypeOK
      <4>2. d \in Outputs(n)'
        BY <3>1 DEF Outputs
      <4> QED BY <4>1, <4>2 DEF WorkerDisciplined, NewCall
    <3> QED BY <3>2, <3>3, <3>4
  <2>6. CASE InitDependencyAnswer(n) \/ DeinitDependentAnswer(n)
    BY <1>0, <2>1, <2>6
    DEF InitDependencyAnswer, DeinitDependentAnswer, Settle, WorkerGoto, TypeOK
  <2>7. CASE InitWakesLinked(n) \/ Notify(n)
    <3>1. wpc[n] \in {"initWake", "notify", "lastNotify"}
      BY <2>7 DEF InitWakesLinked, Notify, WorkerAt
    <3>2. wpc'[n] \notin {"initCall", "deinitCall"}
      BY <2>7, <3>1 DEF InitWakesLinked, Notify, WorkerGoto, TypeOK
    <3>3. \E m : call' = Notified(m)
      BY <2>7 DEF InitWakesLinked, Notify
    <3> QED BY <2>1, <2>2, <2>3, <3>1, <3>2, <3>3
  <2>8. CASE \/ Dispatch(n) \/ Wakeup(n) \/ Timeout(n) \/ InitEnter(n)
             \/ InitReady(n) \/ InitSucceeds(n) \/ InitFails(n) \/ InitDone(n)
             \/ DeinitEnter(n) \/ DeinitReady(n) \/ DeinitDone(n)
    BY <2>1, <2>3, <2>8
    DEF Dispatch, Wakeup, Timeout, InitEnter, InitReady, InitSucceeds,
        InitFails, InitDone, DeinitEnter, DeinitReady, DeinitDone, Settle,
        WorkerGoto, WorkerAt, TypeOK
  <2> QED
    BY <2>4, <2>5, <2>6, <2>7, <2>8 DEF WorkerStep
<1> QED BY <1>1, <1>2, <1>3, <1>4

LEMMA WorkerDisciplinedNext ==
  ASSUME TypeOK, Disciplined, Client = {Caller}, NEW n \in Node,
         WorkerStep(n) \/ Timeout(n)
  PROVE  Disciplined'
<1>0. TypeOK'
  BY WorkerStepType
<1>1. WorkerDisciplined(n)' /\ LinksVisited(n)' /\ LinkedKept(n)' /\ Unmarked'
  BY <1>0, WorkerDisciplinedOwn
<1>2. CallerDisciplined'
  <2>1. Caller \in Thread \ {n}
    BY LifecycleAssumption DEF Thread
  <2>2. Kept(Caller) /\ (call[Caller] = NoCall => call'[Caller] = NoCall)
    BY <1>0, <2>1, WorkerAlone, KeptNoCall
  <2> QED BY <2>2 DEF Disciplined, CallerDisciplined, Kept, CallingPC
<1>3. ASSUME NEW m \in Node, m # n
      PROVE  WorkerDisciplined(m)' /\ LinksVisited(m)' /\ LinkedKept(m)'
  <2>1. /\ m \in Thread \ {n}
        /\ WorkerDisciplined(m) /\ LinksVisited(m) /\ LinkedKept(m)
    BY <1>3 DEF Thread, Disciplined
  <2>2. /\ Kept(m) /\ (call[m] = NoCall => call'[m] = NoCall)
        /\ state'[m] = state[m] /\ wpc'[m] = wpc[m] /\ todo'[m] = todo[m]
    BY <1>0, <1>3, <2>1, WorkerAlone, KeptNoCall
  <2>3. WorkerDisciplined(m)'
    BY <2>1, <2>2 DEF WorkerDisciplined, Kept, CallingPC, Inputs, Outputs
  <2>4. LinksVisited(m)' /\ LinkedKept(m)'
    BY <2>1, <2>2 DEF LinksVisited, LinkedKept, Linked, Inputs, Outputs
  <2> QED BY <2>3, <2>4
<1> QED BY <1>1, <1>2, <1>3 DEF Disciplined

-------------------------------------------------------------------------------
(* A worker that counts a dependency as up has just found it up. *)
LEMMA FoundLater ==
  ASSUME TypeOK, Disciplined, NEW a \in Node, NEW n \in Node,
         a \in Inputs(n),
         WorkerStep(n) \/ Timeout(n), FoundUp(a, n)'
  PROVE  FoundUp(a, n) \/ state[a] = "Initialized"
<1> USE DEF TypeOK, WorkerAt, WorkerGoto, FoundUp
<1>0. WorkerDisciplined(n) /\ n \in Thread
  BY DEF Disciplined, Thread
<1>1. CASE InitEnter(n)
  <2>1. wpc'[n] = "initDeps" /\ todo'[n] = Inputs(n)
    BY <1>1 DEF InitEnter
  <2> QED BY <2>1
<1>2. CASE InitDependency(n)
  <2>1. PICK d \in todo[n] :
          /\ todo' = [todo EXCEPT ![n] = @ \ {d}]
          /\ \/ state[d] = "Initialized" /\ UNCHANGED wpc
             \/ /\ call' = [call EXCEPT ![n] = NewCall("init", d, TRUE)]
                /\ WorkerGoto(n, "initCall")
    BY <1>2 DEF InitDependency
  <2>2. wpc[n] = "initDeps" /\ todo'[n] = todo[n] \ {d}
    BY <1>2, <2>1 DEF InitDependency
  <2>3. CASE state[d] = "Initialized" /\ UNCHANGED wpc
    BY <2>2, <2>3
  <2>4. CASE /\ call' = [call EXCEPT ![n] = NewCall("init", d, TRUE)]
             /\ WorkerGoto(n, "initCall")
    <3>1. /\ wpc'[n] = "initCall" /\ call'[n].node = d
          /\ call'[n].pc = "request"
      BY <1>0, <2>4 DEF NewCall
    <3> QED BY <2>2, <3>1
  <2> QED BY <2>1, <2>3, <2>4
<1>3. CASE InitDependencyAnswer(n)
  <2>1. /\ wpc[n] = "initCall" /\ call[n].pc = "returned"
        /\ todo'[n] = todo[n]
        /\ IF call[n].ret THEN wpc'[n] = "initDeps" ELSE wpc'[n] = "notify"
    BY <1>3 DEF InitDependencyAnswer, At, Settle
  <2> QED BY <2>1
<1>4. CASE InitReady(n)
  BY <1>4 DEF InitReady
<1>5. CASE InitSucceeds(n)
  BY <1>5 DEF InitSucceeds
<1>6. CASE InitWakesLinked(n)
  BY <1>6 DEF InitWakesLinked
<1>7. CASE Dispatch(n) \/ Wakeup(n) \/ Timeout(n)
  BY <1>7 DEF Dispatch, Wakeup, Timeout
<1>8. CASE InitFails(n) \/ InitDone(n) \/ DeinitDone(n)
  BY <1>8 DEF InitFails, InitDone, DeinitDone, Settle
<1>9. CASE DeinitEnter(n) \/ DeinitReady(n) \/ Notify(n)
  BY <1>9 DEF DeinitEnter, DeinitReady, Notify
<1>10. CASE DeinitDependent(n) \/ DeinitDependentAnswer(n)
  <2>1. wpc'[n] \in {"deinitLinks", "deinitCall"}
    BY <1>10 DEF DeinitDependent, DeinitDependentAnswer
  <2> QED BY <2>1
<1> QED
  BY <1>1, <1>2, <1>3, <1>4, <1>5, <1>6, <1>7, <1>8, <1>9, <1>10 DEF WorkerStep

(* A worker that counts a dependent as told has just seen to it. *)
LEMMA ToldLater ==
  ASSUME TypeOK, Disciplined, NEW b \in Node, NEW n \in Node, b \in Outputs(n),
         WorkerStep(n) \/ Timeout(n), Told(n, b)'
  PROVE  Told(n, b) \/ state[b] # "Initialized"
<1> USE DEF TypeOK, WorkerAt, WorkerGoto, Told
<1>0. WorkerDisciplined(n) /\ n \in Thread /\ ~reinit[n]
  BY DEF Disciplined, Unmarked, Thread
<1>1. CASE DeinitEnter(n)
  <2>1. wpc'[n] = "deinitLinks" /\ todo'[n] = Outputs(n)
    BY <1>1 DEF DeinitEnter
  <2> QED BY <2>1
<1>2. CASE DeinitDependent(n)
  <2>1. PICK d \in todo[n] :
          \/ /\ state[d] # "Initialized"
             /\ todo' = [todo EXCEPT ![n] = @ \ {d}]
             /\ UNCHANGED wpc
          \/ /\ call' = [call EXCEPT ![n] = NewCall("deinit", d, FALSE)]
             /\ WorkerGoto(n, "deinitCall") /\ UNCHANGED todo
    BY <1>0, <1>2 DEF DeinitDependent
  <2>2. wpc[n] = "deinitLinks"
    BY <1>2 DEF DeinitDependent
  <2>3. CASE /\ state[d] # "Initialized"
             /\ todo' = [todo EXCEPT ![n] = @ \ {d}]
             /\ UNCHANGED wpc
    <3>1. wpc'[n] = "deinitLinks" /\ todo'[n] = todo[n] \ {d}
      BY <2>2, <2>3
    <3> QED BY <2>2, <2>3, <3>1
  <2>4. CASE /\ call' = [call EXCEPT ![n] = NewCall("deinit", d, FALSE)]
             /\ WorkerGoto(n, "deinitCall") /\ UNCHANGED todo
    <3>1. /\ wpc'[n] = "deinitCall" /\ call'[n].node = d
          /\ call'[n].pc = "request" /\ todo'[n] = todo[n]
      BY <1>0, <2>4 DEF NewCall
    <3> QED BY <2>2, <3>1
  <2> QED BY <2>1, <2>3, <2>4
<1>3. CASE DeinitDependentAnswer(n)
  <2>1. /\ wpc[n] = "deinitCall" /\ call[n].pc = "returned"
        /\ todo'[n] = todo[n] \ {call[n].node}
        /\ wpc'[n] = "deinitLinks"
    BY <1>3 DEF DeinitDependentAnswer, At, Target
  <2> QED BY <2>1
<1>4. CASE DeinitReady(n)
  BY <1>4 DEF DeinitReady
<1>5. CASE Dispatch(n) \/ Wakeup(n) \/ Timeout(n) \/ Notify(n)
  BY <1>5 DEF Dispatch, Wakeup, Timeout, Notify
<1>6. CASE InitFails(n) \/ InitDone(n) \/ DeinitDone(n)
  BY <1>6 DEF InitFails, InitDone, DeinitDone, Settle
<1>7. CASE InitEnter(n) \/ InitReady(n) \/ InitSucceeds(n) \/ InitWakesLinked(n)
  BY <1>7 DEF InitEnter, InitReady, InitSucceeds, InitWakesLinked
<1>8. CASE InitDependency(n) \/ InitDependencyAnswer(n)
  <2>1. wpc'[n] \in {"initDeps", "initCall", "notify"}
    BY <1>8 DEF InitDependency, InitDependencyAnswer, Settle
  <2> QED BY <2>1
<1> QED
  BY <1>1, <1>2, <1>3, <1>4, <1>5, <1>6, <1>7, <1>8 DEF WorkerStep

(* A deinitializing worker forgets no dependent that is up. *)
LEMMA CascadeKept ==
  ASSUME TypeOK, Disciplined, NEW b \in Node, NEW n \in Node,
         wpc[n] \in DeinitSection, b \in todo[n],
         WorkerStep(n) \/ Timeout(n)
  PROVE  b \in todo'[n] \/ Told(n, b) \/ state[b] # "Initialized"
<1>1. CASE DeinitDependent(n)
  <2>1. PICK d \in todo[n] :
          \/ /\ state[d] # "Initialized"
             /\ todo' = [todo EXCEPT ![n] = @ \ {d}]
          \/ UNCHANGED todo
    BY <1>1 DEF DeinitDependent
  <2> QED BY <2>1 DEF TypeOK
<1>2. CASE DeinitDependentAnswer(n)
  BY <1>2 DEF DeinitDependentAnswer, WorkerAt, At, Target, Told, TypeOK
<1>3. CASE DeinitReady(n) \/ DeinitDone(n)
  BY <1>3 DEF DeinitReady, DeinitDone
<1> QED
  BY <1>1, <1>2, <1>3
  DEF WorkerStep, Dispatch, Wakeup, Timeout, InitEnter, InitDependency,
      InitDependencyAnswer, InitReady, InitSucceeds, InitFails,
      InitWakesLinked, InitDone, DeinitEnter, Notify, WorkerAt, DeinitSection

(* A worker whose request is not answered does nothing. *)
LEMMA WorkerBlocked ==
  ASSUME NEW n \in Node, WorkerStep(n) \/ Timeout(n), NEW m
  PROVE  ~AwaitedBy(n, m)
BY DEF WorkerStep, Dispatch, Wakeup, Timeout, InitEnter, InitDependency,
       InitDependencyAnswer, InitReady, InitSucceeds, InitFails,
       InitWakesLinked, InitDone, DeinitEnter, DeinitDependent,
       DeinitDependentAnswer, DeinitReady, DeinitDone, Notify, WorkerAt, At,
       AwaitedBy, WaitingPC

LEMMA WorkerHeld ==
  ASSUME TypeOK, Disciplined, WorkerOwnsTransient, UnderOneCaller, HeldInv,
         NEW n \in Node, WorkerStep(n) \/ Timeout(n)
  PROVE  HeldInv'
<1>0. /\ \A u \in Thread \ {n} : Kept(u)
      /\ \A m \in Node \ {n} : /\ state'[m] = state[m]
                               /\ wpc'[m] = wpc[m]
                               /\ todo'[m] = todo[m]
      /\ Kept(Caller)
  <2>1. Caller \in Thread \ {n}
    BY LifecycleAssumption DEF Thread, UnderOneCaller
  <2> QED BY <2>1, WorkerAlone
<1>1. ASSUME NEW o, NEW m, Asked(o, m) PROVE Asked(o, m)'
  BY <1>0, <1>1 DEF Asked, WaitingPC, Kept
<1>2. UpIsAsked'
  <2> SUFFICES ASSUME NEW m \in Node, Inputs(m) # {},
                      state'[m] \in {"DoInitialize", "Initializing"}
               PROVE  Asked("init", m)' \/ \E d \in Outputs(m) : AwaitedBy(d, m)'
    BY DEF UpIsAsked, Inputs, Outputs
  <2>1. state[m] \in {"DoInitialize", "Initializing"}
    <3>1. CASE m = n
      BY <3>1, WorkerChanges DEF Linked
    <3>2. CASE m # n
      BY <1>0, <3>2
    <3> QED BY <3>1, <3>2
  <2>2. Asked("init", m) \/ \E d \in Outputs(m) : AwaitedBy(d, m)
    BY <2>1 DEF HeldInv, UpIsAsked
  <2>3. ASSUME NEW d \in Outputs(m), AwaitedBy(d, m) PROVE AwaitedBy(d, m)'
    <3>1. d # n
      BY <2>3, WorkerBlocked
    <3>2. d \in Node /\ d \in Thread
      BY DEF Outputs, Thread
    <3> QED BY <1>0, <2>3, <3>1, <3>2 DEF AwaitedBy, WaitingPC, Kept
  <2> QED BY <1>1, <2>2, <2>3
<1>3. DownIsAsked'
  <2> SUFFICES ASSUME NEW m \in Node, Inputs(m) = {}, Outputs(m) # {},
                      state'[m] \in {"DoDeinitialize", "Deinitializing"}
               PROVE  Asked("deinit", m)'
    BY DEF DownIsAsked, Inputs, Outputs
  <2>1. state[m] \in {"DoDeinitialize", "Deinitializing"}
    <3>1. CASE m = n
      BY <3>1, WorkerChanges DEF Linked
    <3>2. CASE m # n
      BY <1>0, <3>2
    <3> QED BY <3>1, <3>2
  <2>2. Asked("deinit", m)
    BY <2>1 DEF HeldInv, DownIsAsked
  <2> QED BY <1>1, <2>2
<1>4. ASSUME NEW a \in Node, NEW b \in Node, <<a, b>> \in Deps
      PROVE  /\ a # b /\ a \in Inputs(b) /\ b \in Outputs(a)
             /\ Linked(a) /\ Linked(b)
             /\ Inputs(b) # {} /\ Outputs(a) # {}
             /\ a \in Thread /\ b \in Thread
  BY <1>4, DependencyEnds
<1>5. StaysUp'
  <2> SUFFICES ASSUME NEW a \in Node, NEW b \in Node, <<a, b>> \in Deps,
                      FoundUp(a, b)'
               PROVE  state'[a] = "Initialized"
    BY DEF StaysUp
  <2>1. FoundUp(a, b) => state[a] = "Initialized"
    BY DEF HeldInv, StaysUp
  <2>2. CASE b = n
    BY <1>0, <1>4, <2>1, <2>2, FoundLater
  <2>3. CASE b # n
    <3>1. FoundUp(a, b)
      <4>1. Kept(b) /\ wpc'[b] = wpc[b] /\ todo'[b] = todo[b]
        BY <1>0, <1>4, <2>3
      <4> QED BY <4>1 DEF FoundUp, Kept
    <3>2. CASE a = n
      BY <1>4, <2>1, <3>1, <3>2, WorkerChanges
    <3>3. CASE a # n
      BY <1>0, <2>1, <3>1, <3>3
    <3> QED BY <3>2, <3>3
  <2> QED BY <2>2, <2>3
<1>6. StaysDown'
  <2> SUFFICES ASSUME NEW a \in Node, NEW b \in Node, <<a, b>> \in Deps,
                      Told(a, b)'
               PROVE  state'[b] # "Initialized"
    BY DEF StaysDown
  <2>1. Told(a, b) => state[b] # "Initialized"
    BY DEF HeldInv, StaysDown
  <2>2. CASE a = n
    BY <1>0, <1>4, <2>1, <2>2, ToldLater
  <2>3. CASE a # n
    <3>1. Told(a, b)
      <4>1. Kept(a) /\ wpc'[a] = wpc[a] /\ todo'[a] = todo[a]
        BY <1>0, <1>4, <2>3
      <4> QED BY <4>1 DEF Told, Kept
    <3>2. state[a] = "Deinitializing"
      <4>1. wpc[a] \in DeinitSection
        BY <3>1 DEF Told, DeinitSection
      <4> QED BY <1>4, <4>1 DEF Disciplined, LinkedKept, WorkerOwnsTransient
    <3>3. wpc[b] # "initWake"
      BY <3>2 DEF HeldInv, StaysUp, FoundUp
    <3>4. CASE b = n
      BY <1>4, <2>1, <3>1, <3>3, <3>4, WorkerChanges
    <3>5. CASE b # n
      BY <1>0, <2>1, <3>1, <3>5
    <3> QED BY <3>4, <3>5
  <2> QED BY <2>2, <2>3
<1>7. DependencyHeld'
  <2> SUFFICES ASSUME NEW a \in Node, NEW b \in Node, <<a, b>> \in Deps,
                      state'[b] = "Initialized"
               PROVE  state'[a] = "Initialized" \/ CascadePending(a, b)'
    BY LifecycleAssumption DEF DependencyHeld
  <2>1. CASE state[b] # "Initialized"
    <3>1. b = n
      BY <1>0, <2>1
    <3>2. wpc[b] = "initWake"
      BY <1>4, <2>1, <3>1, WorkerChanges
    <3>3. state[a] = "Initialized"
      BY <3>2 DEF FoundUp, HeldInv, StaysUp
    <3> QED BY <1>0, <1>4, <3>1, <3>3
  <2>2. CASE state[b] = "Initialized"
    <3>0. ~Told(a, b)
      BY <2>2 DEF HeldInv, StaysDown
    <3>1. state[a] = "Initialized" \/ CascadePending(a, b)
      BY <2>2 DEF HeldInv, DependencyHeld
    <3>2. CASE a # n
      BY <1>0, <3>1, <3>2 DEF CascadePending
    <3>3. CASE a = n
      <4>1. CASE state[a] \in {"Initialized", "DoDeinitialize"}
        BY <1>4, <3>3, <4>1, WorkerChanges DEF CascadePending
      <4>2. CASE state[a] \notin {"Initialized", "DoDeinitialize"}
        <5>1. state[a] = "Deinitializing" /\ b \in todo[a]
          BY <3>1, <4>2 DEF CascadePending
        <5>2. wpc[a] \in DeinitSection
          BY <5>1 DEF WorkerOwnsTransient
        <5>3. b \in todo'[a]
          BY <2>2, <3>0, <3>3, <5>1, <5>2, CascadeKept
        <5>4. state'[a] = "Deinitializing"
          <6>1. wpc[a] # "deinitBody"
            BY <3>0 DEF Told
          <6> QED BY <1>4, <3>3, <5>1, <6>1, WorkerChanges
        <5> QED BY <5>3, <5>4 DEF CascadePending
      <4> QED BY <4>1, <4>2
    <3> QED BY <3>2, <3>3
  <2> QED BY <2>1, <2>2
<1> QED BY <1>2, <1>3, <1>5, <1>6, <1>7 DEF HeldInv

(* A request is issued by a caller that waits for nothing. *)
LEMMA IssueHeld ==
  ASSUME TypeOK, Disciplined, UnderOneCaller, HeldInv,
         NEW c \in Client, Issue(c)
  PROVE  Disciplined' /\ HeldInv'
<1>0. /\ c = Caller /\ Caller \in Thread /\ Caller \notin Node
      /\ UNCHANGED <<state, reinit, disable, wpc, todo>>
  BY LifecycleAssumption DEF UnderOneCaller, Issue, Thread
<1>1. PICK n \in alive, r \in Requests :
        \/ /\ r.op # "delete"
           /\ call' = [call EXCEPT ![c] = NewCall(r.op, n, r.wait)]
        \/ /\ r.op = "delete" /\ Inputs(n) = {} /\ Outputs(n) = {}
           /\ call' = [call EXCEPT ![c] = [NewCall("delete", n, TRUE)
                                             EXCEPT !.pc = "delete"]]
  <2>1. PICK n \in alive, r \in Requests :
          \/ /\ r.op # "delete"
             /\ call' = [call EXCEPT ![c] = NewCall(r.op, n, r.wait)]
          \/ /\ r.op = "delete"
             /\ \A e \in Deps \cup FlowLinks : n \notin {e[1], e[2]}
             /\ call' = [call EXCEPT ![c] = [NewCall("delete", n, TRUE)
                                               EXCEPT !.pc = "delete"]]
    BY DEF Issue
  <2>2. ASSUME \A e \in Deps \cup FlowLinks : n \notin {e[1], e[2]}
        PROVE  Inputs(n) = {} /\ Outputs(n) = {}
    <3>1. \A b \in Node : <<b, n>> \notin Deps /\ <<n, b>> \notin Deps
      BY <2>2
    <3> QED BY <3>1 DEF Inputs, Outputs
  <2> QED BY <2>1, <2>2
<1>2. /\ n \in Node
      /\ r.op \in {"init", "deinit", "delete"} /\ r.wait
  BY DEF TypeOK, UnderOneCaller, RequestsWait
<1>3. ASSUME NEW m \in Node PROVE call'[m] = call[m]
  <2>1. \E k : call' = [call EXCEPT ![c] = k]
    BY <1>1
  <2> QED BY <1>0, <2>1 DEF TypeOK
<1>4. CallerDisciplined'
  <2>1. CASE r.op # "delete"
    <3>1. call'[Caller] = NewCall(r.op, n, r.wait)
      BY <1>0, <1>1, <2>1 DEF TypeOK
    <3> QED BY <1>2, <2>1, <3>1 DEF CallerDisciplined, NewCall, CallingPC
  <2>2. CASE r.op = "delete"
    <3>1. /\ call'[Caller] = [NewCall("delete", n, TRUE) EXCEPT !.pc = "delete"]
          /\ Inputs(n) = {} /\ Outputs(n) = {}
      BY <1>0, <1>1, <2>2 DEF TypeOK
    <3>2. /\ call'[Caller].op = "delete" /\ call'[Caller].wait
          /\ call'[Caller].node = n /\ call'[Caller].pc = "delete"
      BY <3>1 DEF NewCall
    <3>3. ~Linked(n)'
      BY <3>1 DEF Linked, Inputs, Outputs
    <3> QED BY <1>2, <3>2, <3>3 DEF CallerDisciplined
  <2> QED BY <2>1, <2>2
<1>5. Unmarked'
  BY <1>0 DEF Disciplined, Unmarked
<1>6. ASSUME NEW m \in Node
      PROVE  WorkerDisciplined(m)' /\ LinksVisited(m)' /\ LinkedKept(m)'
  <2>1. WorkerDisciplined(m) /\ LinksVisited(m) /\ LinkedKept(m)
    BY DEF Disciplined
  <2>2. WorkerDisciplined(m)'
    BY <1>0, <1>3, <2>1 DEF WorkerDisciplined, Inputs, Outputs
  <2>3. LinksVisited(m)' /\ LinkedKept(m)'
    BY <1>0, <2>1 DEF LinksVisited, LinkedKept, Linked, Inputs, Outputs
  <2> QED BY <2>2, <2>3
<1>7. \A o, m : ~Asked(o, m)
  BY <1>0 DEF Issue, Idle, Asked, WaitingPC
<1>8. UpIsAsked' /\ DownIsAsked'
  <2>1. UpIsAsked'
    <3> SUFFICES ASSUME NEW m \in Node, Inputs(m) # {},
                        state'[m] \in {"DoInitialize", "Initializing"}
                 PROVE  \E d \in Outputs(m) : AwaitedBy(d, m)'
      BY DEF UpIsAsked, Inputs, Outputs
    <3>1. PICK d \in Outputs(m) : AwaitedBy(d, m)
      BY <1>0, <1>7 DEF HeldInv, UpIsAsked
    <3>2. AwaitedBy(d, m)'
      BY <1>0, <1>3, <3>1 DEF AwaitedBy, Outputs
    <3> QED BY <3>2
  <2>2. DownIsAsked'
    BY <1>0, <1>7 DEF HeldInv, DownIsAsked, Inputs, Outputs
  <2> QED BY <2>1, <2>2
<1>9. StaysUp' /\ StaysDown'
  BY <1>0, <1>3 DEF HeldInv, StaysUp, StaysDown, FoundUp, Told
<1>10. DependencyHeld'
  BY <1>0 DEF HeldInv, DependencyHeld, CascadePending
<1> QED
  BY <1>4, <1>5, <1>6, <1>8, <1>9, <1>10 DEF Disciplined, HeldInv

(* A node is up only while the nodes it takes data from through non-flow pins  *)
(* are up or still have to tell it that they go down: for any number of nodes, *)
(* chains of dependencies of up to two links, and any number of requests of    *)
(* one thread that waits for each of them.                                     *)
THEOREM DependenciesHeld ==
  OneCaller /\ RequestsWait /\ TwoLinks => (Spec => []DependencyHeld)
<1> SUFFICES ASSUME OneCaller, RequestsWait, TwoLinks
             PROVE  Spec => []DependencyHeld
  OBVIOUS
<1>0. UnderOneCaller
  BY DEF OneCaller, Caller, UnderOneCaller
<1>1. Init => Disciplined /\ HeldInv
  <2> SUFFICES ASSUME Init PROVE Disciplined /\ HeldInv
    OBVIOUS
  <2>1. /\ \A t \in Thread : call[t] = NoCall
        /\ \A n \in Node : /\ state[n] \in {"Deinitialized", "Disabled"}
                          /\ wpc[n] = "top" /\ ~reinit[n] /\ ~disable[n]
        /\ Node \subseteq Thread /\ Caller \in Thread
    BY <1>0 DEF Init, Thread, UnderOneCaller
  <2>2. Disciplined
    BY <2>1 DEF Disciplined, Unmarked, CallerDisciplined, WorkerDisciplined,
                LinksVisited, LinkedKept
  <2>3. HeldInv
    BY <2>1, LifecycleAssumption
    DEF HeldInv, UpIsAsked, DownIsAsked, StaysUp, StaysDown, FoundUp, Told,
        DependencyHeld
  <2> QED BY <2>2, <2>3
<1>2. IInv /\ Disciplined /\ HeldInv /\ [Next]_vars => Disciplined' /\ HeldInv'
  <2> SUFFICES ASSUME IInv, Disciplined, HeldInv, [Next]_vars
               PROVE  Disciplined' /\ HeldInv'
    OBVIOUS
  <2>0. TypeOK /\ WorkerOwnsTransient /\ Client = {Caller}
    BY <1>0 DEF IInv, UnderOneCaller
  <2>1. CASE UNCHANGED vars
    <3>1. Disciplined'
      <4>1. ASSUME NEW n \in Node
            PROVE  WorkerDisciplined(n)' /\ LinksVisited(n)' /\ LinkedKept(n)'
        BY <2>1 DEF vars, Disciplined, WorkerDisciplined, LinksVisited,
                    LinkedKept, Linked, Inputs, Outputs
      <4>2. Unmarked' /\ CallerDisciplined'
        BY <2>1 DEF vars, Disciplined, Unmarked, CallerDisciplined, Linked,
                    Inputs, Outputs
      <4> QED BY <4>1, <4>2 DEF Disciplined
    <3>2. UpIsAsked' /\ DownIsAsked'
      BY <2>1 DEF vars, HeldInv, UpIsAsked, DownIsAsked, Asked, AwaitedBy,
                  Inputs, Outputs
    <3>3. StaysUp' /\ StaysDown'
      BY <2>1 DEF vars, HeldInv, StaysUp, StaysDown, FoundUp, Told
    <3>4. DependencyHeld'
      BY <2>1 DEF vars, HeldInv, DependencyHeld, CascadePending
    <3> QED BY <3>1, <3>2, <3>3, <3>4 DEF HeldInv
  <2>2. ASSUME NEW c \in Client, Issue(c) PROVE Disciplined' /\ HeldInv'
    BY <1>0, <2>0, <2>2, IssueHeld
  <2>3. ASSUME NEW t \in Thread, CallStep(t) PROVE Disciplined' /\ HeldInv'
    BY <1>0, <2>0, <2>3, CallDisciplined, CallHeld
  <2>4. ASSUME NEW n \in Node, WorkerStep(n) \/ Timeout(n)
        PROVE  Disciplined' /\ HeldInv'
    BY <1>0, <2>0, <2>4, WorkerDisciplinedNext, WorkerHeld
  <2> QED BY <2>1, <2>2, <2>3, <2>4 DEF Next
<1>3. HeldInv => DependencyHeld
  BY DEF HeldInv
<1> QED BY <1>1, <1>2, <1>3, Invariance, PTL DEF Spec
===============================================================================
