-------------------------- MODULE ServerLifecycle ---------------------------
(***************************************************************************)
(* The server process from main to its end: which thread is started when,  *)
(* what the threads share (clientInfos, the completion port, the request   *)
(* queue, SendPacketFunc) and how Shutdown takes it apart.  What a request *)
(* does is in GameServer, what a slot does in ConnectionSlot: here a       *)
(* completion or a request is the slot it belongs to.                      *)
(***************************************************************************)
EXTENDS Integers, Sequences

CONSTANTS
  Slots,       \* the ClientInfos
  Workers,     \* the worker threads
  MaxArrivals  \* bound on the completions of clients' I/O

ASSUME LifeAssumption == Slots # {} /\ MaxArrivals \in Nat

VARIABLES
  main,      \* where the main thread is
  servers,   \* ServerManager::servers holds the server
  isRun,     \* IOCPServer::isRun
  sendFunc,  \* PacketManager::SendPacketFunc has been assigned
  alive,     \* the ClientInfos that have been made and not deleted
  open,      \* handleIOCP is open
  port,      \* the completions on it: slot and success
  requests,  \* PacketManager's queue: the slots they came from
  accept, worker, process, packet,  \* where the other threads are
  held,      \* the completion each worker is at work on
  arrivals,  \* how many completions there have been
  touched,   \* history: the threads that used a ClientInfo that is not alive
  unsent     \* history: a request was answered without SendPacketFunc

vars == <<main, servers, isRun, sendFunc, alive, open, port, requests, accept, worker,
          process, packet, held, arrivals, touched, unsent>>

shared  == <<servers, isRun, sendFunc, alive, open, port, requests>>
threads == <<accept, worker, process, packet, held>>
history == <<arrivals, touched, unsent>>

Up == main \notin {"exited", "aborted"}

Init ==
  /\ main = "construct" /\ servers = FALSE /\ isRun = FALSE /\ sendFunc = FALSE
  /\ alive = {} /\ open = FALSE /\ port = <<>> /\ requests = <<>>
  /\ accept = "none" /\ worker = [w \in Workers |-> "none"]
  /\ process = "none" /\ packet = "none"
  /\ held = [w \in Workers |-> [slot |-> CHOOSE s \in Slots : TRUE, ok |-> FALSE]]
  /\ arrivals = 0 /\ touched = {} /\ unsent = FALSE

Touch(thread, s) == touched' = IF s \in alive THEN touched ELSE touched \union {thread}

-----------------------------------------------------------------------------
(* The main thread.  PacketManager::Init starts PacketThread before the    *)
(* constructor assigns SendPacketFunc.                                     *)
Construct ==
  /\ main = "construct"
  /\ main' = "function" /\ packet' = "test"
  /\ UNCHANGED <<shared, accept, worker, process, held, history>>

(* A slip: it is never assigned. *)
NoSendPacketFunc ==
  /\ main = "function"
  /\ main' = "listen"
  /\ UNCHANGED <<shared, threads, history>>

SetSendPacketFunc ==
  /\ main = "function"
  /\ main' = "listen" /\ sendFunc' = TRUE
  /\ UNCHANGED <<servers, isRun, alive, open, port, requests, threads, history>>

(* IOCPServer::Start; each of its calls is asserted to succeed. *)
Listen ==
  /\ main = "listen"
  /\ \/ main' = "setup" /\ open' = TRUE
     \/ main' = "aborted" /\ UNCHANGED open
  /\ UNCHANGED <<servers, isRun, sendFunc, alive, port, requests, threads, history>>

SetupClientInfos ==
  /\ main = "setup"
  /\ main' = "accept" /\ isRun' = TRUE /\ alive' = Slots
  /\ UNCHANGED <<servers, sendFunc, open, port, requests, threads, history>>

StartAccept ==
  /\ main = "accept"
  /\ main' = "workers" /\ accept' = "test"
  /\ UNCHANGED <<shared, worker, process, packet, held, history>>

SetupWorkerThread ==
  /\ main = "workers"
  /\ \E w \in Workers :
       /\ worker[w] = "none"
       /\ worker' = [worker EXCEPT ![w] = "test"]
       /\ main' = IF \E v \in Workers \ {w} : worker[v] = "none" THEN "workers" ELSE "process"
  /\ UNCHANGED <<shared, accept, process, packet, held, history>>

StartProcess ==
  /\ main = "process"
  /\ main' = "command" /\ process' = "test" /\ servers' = TRUE
  /\ UNCHANGED <<isRun, sendFunc, alive, open, port, requests, accept, worker, packet, held, history>>

(* Command("quit") calls ServerManager::Shutdown; other lines do nothing. *)
Quit ==
  /\ main = "command"
  /\ main' = "stop"
  /\ UNCHANGED <<shared, threads, history>>

Stop ==
  /\ main = "stop"
  /\ main' = "close" /\ isRun' = FALSE
  /\ UNCHANGED <<servers, sendFunc, alive, open, port, requests, threads, history>>

(* A slip: the port stays open. *)
NoCloseHandle ==
  /\ main = "close"
  /\ main' = "joinWorkers"
  /\ UNCHANGED <<shared, threads, history>>

CloseHandle ==
  /\ main = "close"
  /\ main' = "joinWorkers" /\ open' = FALSE /\ port' = <<>>
  /\ UNCHANGED <<servers, isRun, sendFunc, alive, requests, threads, history>>

JoinWorkers ==
  /\ main = "joinWorkers"
  /\ \A w \in Workers : worker[w] = "ended"
  /\ main' = "joinAccept"
  /\ UNCHANGED <<shared, threads, history>>

(* A slip: the accept thread is not waited for. *)
DetachAccept ==
  /\ main = "joinAccept"
  /\ main' = "joinProcess"
  /\ UNCHANGED <<shared, threads, history>>

JoinAccept ==
  /\ main = "joinAccept"
  /\ accept = "ended"
  /\ main' = "joinProcess"
  /\ UNCHANGED <<shared, threads, history>>

JoinProcess ==
  /\ main = "joinProcess"
  /\ process = "ended"
  /\ main' = "delete"
  /\ UNCHANGED <<shared, threads, history>>

DeleteClientInfo ==
  /\ main = "delete"
  /\ \E s \in alive : alive' = alive \ {s}
  /\ UNCHANGED <<main, servers, isRun, sendFunc, open, port, requests, threads, history>>

(* The rest of ServerManager::Shutdown. *)
ClearServers ==
  /\ main = "delete" /\ alive = {}
  /\ main' = "again" /\ servers' = FALSE
  /\ UNCHANGED <<isRun, sendFunc, alive, open, port, requests, threads, history>>

(* Its loop over, main calls ServerManager::Shutdown once more: a server   *)
(* still in the list would go through the null pointers of clientInfos.    *)
ShutdownAgain ==
  /\ main = "again"
  /\ main' = IF servers THEN "aborted" ELSE "exited"
  /\ UNCHANGED <<shared, threads, history>>

-----------------------------------------------------------------------------
(* AcceptThread goes over every slot, then looks at isRun again. *)
AcceptPass ==
  /\ Up
  /\ accept = "pass" /\ accept' = "test"
  /\ touched' = IF Slots \subseteq alive THEN touched ELSE touched \union {"accept"}
  /\ UNCHANGED <<main, shared, worker, process, packet, held, arrivals, unsent>>

AcceptTest ==
  /\ Up
  /\ accept = "test" /\ accept' = IF isRun THEN "pass" ELSE "ended"
  /\ UNCHANGED <<main, shared, worker, process, packet, held, history>>

(* Some I/O of a client completes, well or not. *)
Arrive ==
  /\ Up /\ open /\ alive # {}
  /\ arrivals < MaxArrivals
  /\ \E s \in alive, ok \in BOOLEAN : port' = Append(port, [slot |-> s, ok |-> ok])
  /\ arrivals' = arrivals + 1
  /\ UNCHANGED <<main, servers, isRun, sendFunc, alive, open, requests, threads, touched, unsent>>

WorkerTest(w) ==
  /\ Up
  /\ worker[w] = "test"
  /\ worker' = [worker EXCEPT ![w] = IF isRun THEN "wait" ELSE "ended"]
  /\ UNCHANGED <<main, shared, accept, process, packet, held, history>>

(* GetQueuedCompletionStatus fails once the handle is closed: it leaves    *)
(* dwIoSize as the last completion set it, and only a zero stops the       *)
(* server.                                                                 *)
WorkerAbandoned(w) ==
  /\ Up
  /\ worker[w] = "wait" /\ ~open
  /\ worker' = [worker EXCEPT ![w] = "test"]
  /\ isRun' \in {isRun, FALSE}
  /\ UNCHANGED <<main, servers, sendFunc, alive, open, port, requests, accept, process, packet,
                 held, history>>

(* It takes a completion, with or without a failure of the I/O. *)
WorkerGet(w) ==
  /\ Up
  /\ worker[w] = "wait" /\ port # <<>>
  /\ worker' = [worker EXCEPT ![w] = "serve"]
  /\ held' = [held EXCEPT ![w] = Head(port)]
  /\ port' = Tail(port)
  /\ UNCHANGED <<main, servers, isRun, sendFunc, alive, open, requests, accept, process, packet,
                 history>>

(* A slip: any failure stops the server. *)
WorkerGivesUp(w) ==
  /\ Up
  /\ worker[w] = "serve"
  /\ Touch("worker", held[w].slot)
  /\ requests' = IF held[w].ok THEN Append(requests, held[w].slot) ELSE requests
  /\ isRun' = (isRun /\ held[w].ok)
  /\ worker' = [worker EXCEPT ![w] = "test"]
  /\ UNCHANGED <<main, servers, sendFunc, alive, open, port, accept, process, packet, held,
                 arrivals, unsent>>

(* The slot is disconnected, or its request queued. *)
WorkerServe(w) ==
  /\ Up
  /\ worker[w] = "serve"
  /\ Touch("worker", held[w].slot)
  /\ requests' = IF held[w].ok THEN Append(requests, held[w].slot) ELSE requests
  /\ worker' = [worker EXCEPT ![w] = "test"]
  /\ UNCHANGED <<main, servers, isRun, sendFunc, alive, open, port, accept, process, packet, held,
                 arrivals, unsent>>

(* ProcessThread: nothing is ever put on the packetQueue it empties. *)
ProcessTest ==
  /\ Up
  /\ process = "test" /\ ~isRun /\ process' = "ended"
  /\ UNCHANGED <<main, shared, accept, worker, packet, held, history>>

(* PacketThread runs as long as the process: PacketManager::Shutdown is    *)
(* only called by a destructor that nothing reaches.                       *)
PacketThread ==
  /\ Up
  /\ packet = "test"
  /\ requests # <<>>
  /\ requests' = Tail(requests)
  /\ unsent' = (unsent \/ ~sendFunc)
  /\ Touch("packet", Head(requests))
  /\ UNCHANGED <<main, servers, isRun, sendFunc, alive, open, port, threads, arrivals>>

Main ==
  \/ Construct \/ SetSendPacketFunc \/ Listen \/ SetupClientInfos \/ StartAccept
  \/ SetupWorkerThread \/ StartProcess
  \/ Stop \/ CloseHandle \/ JoinWorkers \/ JoinAccept \/ JoinProcess
  \/ DeleteClientInfo \/ ClearServers \/ ShutdownAgain
Accept == AcceptTest \/ AcceptPass
Worker(w) == WorkerTest(w) \/ WorkerAbandoned(w) \/ WorkerGet(w) \/ WorkerServe(w)

Next == Main \/ Quit \/ Accept \/ Arrive \/ (\E w \in Workers : Worker(w)) \/ ProcessTest \/ PacketThread

(* Every thread gets to run; nobody has to type a command. *)
Spec ==
  /\ Init /\ [][Next]_vars
  /\ WF_vars(Main) /\ WF_vars(Accept) /\ WF_vars(ProcessTest) /\ WF_vars(PacketThread)
  /\ \A w \in Workers : WF_vars(Worker(w))

-----------------------------------------------------------------------------
(* The ClientInfos are made before and deleted after all the threads that  *)
(* Shutdown joins are at work on them.  PacketThread is not among them: a  *)
(* request still queued is answered through a deleted ClientInfo.          *)
ThreadsGoneBeforeDelete == touched \subseteq {"packet"}

(* No request is answered before the constructor has assigned              *)
(* SendPacketFunc, although PacketThread is already running.               *)
FunctionInTime == ~unsent

(* Only the command stops the server: no failed I/O makes a worker turn    *)
(* isRun off for all threads.                                              *)
RunsUntilQuit == main = "command" => isRun

(* Once quit has been typed the process comes to its regular end: no       *)
(* worker sleeps on in GetQueuedCompletionStatus, and the second call of   *)
(* Shutdown finds nothing to shut down.                                    *)
QuitEnds == main = "stop" ~> main = "exited"
=============================================================================
