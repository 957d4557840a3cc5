----------------------- MODULE ServerLifecycleProofs -----------------------
(***************************************************************************)
(* Theorems about ServerLifecycle, for any sets of slots and workers: the  *)
(* order in which main starts and joins the threads is what keeps them off *)
(* the ClientInfos that have not been made or are being deleted.           *)
(***************************************************************************)
EXTENDS ServerLifecycle, TLAPS

(* Where main is while a thread it has started may be at work. *)
WithWorker == {"workers", "process", "command", "stop", "close", "joinWorkers"}
WithAccept == WithWorker \union {"joinAccept"}
WithSlots  == WithAccept \union {"accept", "joinProcess"}
Before     == {"construct", "function"}
Over       == {"delete", "again", "exited", "aborted"}

Completion == [slot : Slots, ok : BOOLEAN]

LifeType ==
  /\ main \in Before \union {"listen", "setup"} \union WithSlots \union Over
  /\ accept \in {"none", "test", "pass", "ended"}
  /\ worker \in [Workers -> {"none", "test", "wait", "serve", "ended"}]
  /\ held \in [Workers -> Completion]
  /\ port \in Seq(Completion)
  /\ requests \in Seq(Slots)
  /\ alive \subseteq Slots

(* The slots are there from before the first thread that uses them until   *)
(* after the last one, and a thread at work dates main.                    *)
SlotsInTime == main \in WithSlots => alive = Slots
AcceptInTime == accept \in {"test", "pass"} => main \in WithAccept
WorkersInTime ==
  \A w \in Workers : worker[w] \in {"test", "wait", "serve"} => main \in WithWorker

(* No request comes before SendPacketFunc is assigned. *)
AssignedFirst == (main \in Before => requests = <<>>) /\ (main \notin Before => sendFunc)

(* The port is open for as long as the server has not been told to stop,   *)
(* so that no worker turns isRun off.                                      *)
Started ==
  /\ main \in {"setup", "accept", "workers", "process", "command"} => open
  /\ main \in {"accept", "workers", "process", "command"} => isRun

Order == SlotsInTime /\ AcceptInTime /\ WorkersInTime /\ AssignedFirst /\ Started

IInv == LifeType /\ Order /\ ThreadsGoneBeforeDelete /\ FunctionInTime

-----------------------------------------------------------------------------
(* What is taken from a queue and what stays in it are of its elements. *)
LEMMA HeadTail ==
  ASSUME NEW S, NEW q \in Seq(S), q # <<>> PROVE Head(q) \in S /\ Tail(q) \in Seq(S)
  OBVIOUS

(* At first there are no threads and nothing has been touched. *)
LEMMA InitHolds == Init => IInv
<1> SUFFICES ASSUME Init PROVE IInv
  OBVIOUS
<1> USE DEF Init, Before, WithWorker, WithAccept, WithSlots, Over, Completion
<1>1. (CHOOSE s \in Slots : TRUE) \in Slots
  BY LifeAssumption
<1>2. LifeType
  <2>1. held \in [Workers -> Completion]
    BY <1>1
  <2>2. port \in Seq(Completion) /\ requests \in Seq(Slots)
    BY SMT
  <2> HIDE DEF Completion
  <2> QED
    BY <2>1, <2>2 DEF LifeType
<1>3. Order
  BY DEF Order, SlotsInTime, AcceptInTime, WorkersInTime, AssignedFirst, Started
<1>4. ThreadsGoneBeforeDelete /\ FunctionInTime
  BY DEF ThreadsGoneBeforeDelete, FunctionInTime
<1> QED
  BY <1>2, <1>3, <1>4 DEF IInv

(* Every step of every thread keeps the order. *)
LEMMA StepHolds == IInv /\ [Next]_vars => IInv'
<1> SUFFICES ASSUME IInv, [Next]_vars PROVE IInv'
  OBVIOUS
<1> USE DEF IInv, LifeType, Order, SlotsInTime, AcceptInTime, WorkersInTime, AssignedFirst,
        Started, ThreadsGoneBeforeDelete, FunctionInTime, Before, WithWorker, WithAccept,
        WithSlots, Over, shared, threads, history
<1>1. CASE Construct
  BY <1>1 DEF Construct
<1>2. CASE SetSendPacketFunc
  BY <1>2 DEF SetSendPacketFunc
<1>3. CASE Listen
  BY <1>3 DEF Listen
<1>4. CASE SetupClientInfos
  BY <1>4 DEF SetupClientInfos
<1>5. CASE StartAccept
  BY <1>5 DEF StartAccept
<1>6. CASE SetupWorkerThread
  BY <1>6 DEF SetupWorkerThread
<1>7. CASE StartProcess
  BY <1>7 DEF StartProcess
<1>8. CASE Quit
  BY <1>8 DEF Quit
<1>9. CASE Stop
  BY <1>9 DEF Stop
<1>10. CASE CloseHandle
  BY <1>10 DEF CloseHandle
<1>11. CASE JoinWorkers
  BY <1>11 DEF JoinWorkers
<1>12. CASE JoinAccept
  BY <1>12 DEF JoinAccept
<1>13. CASE JoinProcess
  BY <1>13 DEF JoinProcess
<1>14. CASE DeleteClientInfo
  BY <1>14 DEF DeleteClientInfo
<1>15. CASE ClearServers
  BY <1>15 DEF ClearServers
<1>16. CASE ShutdownAgain
  BY <1>16 DEF ShutdownAgain
<1>17. CASE AcceptTest
  BY <1>17 DEF AcceptTest, Up, Touch, Completion
<1>18. CASE AcceptPass
  BY <1>18 DEF AcceptPass, Up, Touch, Completion
<1>19. CASE Arrive
  BY <1>19 DEF Arrive, Up, Touch, Completion
<1>20. CASE ProcessTest
  BY <1>20 DEF ProcessTest
<1>21. CASE PacketThread
  <2>1. requests \in Seq(Slots) /\ requests' = Tail(requests) /\ requests # <<>>
    BY <1>21 DEF PacketThread
  <2>2. requests' \in Seq(Slots)
    BY <2>1, HeadTail
  <2>3. LifeType'
    BY <1>21, <2>2 DEF PacketThread
  <2>4. Order' /\ ThreadsGoneBeforeDelete' /\ FunctionInTime'
    BY <1>21, <2>1 DEF PacketThread, Touch
  <2> QED
    BY <2>3, <2>4
<1>22. ASSUME NEW w \in Workers, WorkerTest(w) PROVE IInv'
  BY <1>22 DEF WorkerTest, Up, Touch, Completion
<1>23. ASSUME NEW w \in Workers, WorkerAbandoned(w) PROVE IInv'
  BY <1>23 DEF WorkerAbandoned, Up, Touch, Completion
<1>24. ASSUME NEW w \in Workers, WorkerGet(w) PROVE IInv'
  <2>1. port \in Seq(Completion) /\ port # <<>>
    BY <1>24 DEF WorkerGet
  <2>2. Head(port) \in Completion /\ Tail(port) \in Seq(Completion)
    BY <2>1, HeadTail
  <2>3. LifeType'
    BY <1>24, <2>2 DEF WorkerGet
  <2>4. Order' /\ ThreadsGoneBeforeDelete' /\ FunctionInTime'
    BY <1>24 DEF WorkerGet
  <2> QED
    BY <2>3, <2>4
<1>25. ASSUME NEW w \in Workers, WorkerServe(w) PROVE IInv'
  BY <1>25 DEF WorkerServe, Up, Touch, Completion
<1>26. CASE UNCHANGED vars
  BY <1>26 DEF vars
<1> QED
  BY <1>1, <1>2, <1>3, <1>4, <1>5, <1>6, <1>7, <1>8, <1>9, <1>10, <1>11, <1>12, <1>13, <1>14, <1>15, <1>16, <1>17, <1>18, <1>19, <1>20, <1>21, <1>22, <1>23, <1>24, <1>25, <1>26
     DEF Next, Main, Accept, Worker

(* The inductive invariant holds throughout. *)
THEOREM Inductive == Spec => []IInv
  BY InitHolds, StepHolds, PTL DEF Spec

(* For any number of workers and slots, the threads that Shutdown joins    *)
(* never use a ClientInfo that has not been made or has been deleted.      *)
THEOREM SlotsOutliveThreads == Spec => []ThreadsGoneBeforeDelete
<1>1. IInv => ThreadsGoneBeforeDelete
  BY DEF IInv
<1> QED
  BY <1>1, Inductive, PTL

(* No request is answered before SendPacketFunc is there, although         *)
(* PacketThread is started first.                                          *)
THEOREM FunctionAssigned == Spec => []FunctionInTime
<1>1. IInv => FunctionInTime
  BY DEF IInv
<1> QED
  BY <1>1, Inductive, PTL

(* No failed I/O of any number of clients stops the server. *)
THEOREM OnlyQuitStops == Spec => []RunsUntilQuit
<1>1. IInv => RunsUntilQuit
  BY DEF IInv, Order, Started, RunsUntilQuit
<1> QED
  BY <1>1, Inductive, PTL
=============================================================================
