--------------------------- MODULE ConnectionSlot ---------------------------
(***************************************************************************)
(* The connection slots of the server (class ClientInfo), the AcceptThread *)
(* and the worker threads of IOCPServer that drive them, and the sessions  *)
(* and players OnConnect and OnClose bind to them.  The kernel is external *)
(* code: an overlapped operation stands in accepting, recving or sending   *)
(* from its posting until a worker dequeues its completion, which may be   *)
(* long after the socket was closed.  A packet is its number; the requests *)
(* are kept as the sessions that asked.                                    *)
(***************************************************************************)
EXTENDS Integers, Sequences, FiniteSets

CONSTANTS
  NumSlots,    \* config.clientQueueSize
  Workers,     \* the worker threads
  MaxSockets,  \* bound on the sockets PostAccept makes
  MaxRecv,     \* bound on the requests received
  MaxSend      \* bound on the packets sent to a slot

ASSUME SlotAssumption == NumSlots \in Nat \ {0}
ASSUME SlotBounds == MaxSockets \in Nat /\ MaxRecv \in Nat /\ MaxSend \in Nat

Slots   == 1 .. NumSlots
Sockets == 1 .. MaxSockets   \* 0 is INVALID_SOCKET

VARIABLES
  isConnect, sock, sessionIndex,  \* ClientInfo::mIsConnect, sock, sessionIndex
  closedTime,   \* mLatestClosedTimeSec: "recent", "old" (past the wait), "max"
  sendQueue,    \* mSendDataqueue
  conn,         \* the connection behind a socket, as the network has it
  accepting, sending,   \* overlapped operations, <<slot, socket>>
  recving,      \* how many receives are posted for a slot on a socket
  posting,      \* the slot AcceptThread has chosen, or 0
  sessions,     \* SessionManager::sessions: player (position) and client (slot)
  players,      \* PlayerManager::players: the session, or Null for nullptr
  pc, at,       \* where a worker is, and the slot whose receive it handles
  requests,     \* recvPacketQeueu: the sessions that asked
  serving,      \* the session PacketThread answers, or 0
  received,     \* how many requests were received
  fault,        \* what ended the process
  submitted, delivered,   \* history: packets given to and sent by each slot
  madeFor,      \* history: the sockets the queued packets were made for
  crossed,      \* history: slots where a packet went to another socket
  mute,         \* history: slots on which a send has failed
  disturbed     \* history: slots reused over something outstanding

slotVars == <<isConnect, sock, sessionIndex, closedTime>>
sendVars == <<sendQueue, sending, submitted, delivered, madeFor, crossed, mute>>
kernVars == <<accepting, recving>>
sessVars == <<sessions, players>>
workVars == <<pc, at>>
packVars == <<requests, serving, received>>
vars == <<slotVars, sendVars, conn, kernVars, posting, sessVars, workVars,
          packVars, fault, disturbed>>

Null    == -1
Running == fault = "none"
Made    == {s \in Sockets : conn[s] # "none"}

(* A connection is fresh, then dialed when a client is accepted on it, up  *)
(* once it is bound to the completion port, and lost or gone when the peer *)
(* or the server has ended it before or after that.  An operation on a     *)
(* connection that is gone may still have succeeded.                       *)
CanWork(s)  == conn[s] \in {"up", "gone"}
Bound(c)    == CASE c = "dialed" -> "up" [] c = "lost" -> "gone" [] OTHER -> c

(* The results of WSARecv and WSASend on a connection; before the binding  *)
(* no completion comes back, which is as if they failed.                   *)
Outcome(s) ==
  CASE s = 0 -> {FALSE}
    [] s # 0 -> CASE conn[s] = "up" -> {TRUE} [] conn[s] = "gone" -> BOOLEAN
                  [] OTHER -> {FALSE}
(* The results of the first WSARecv, which follows the binding. *)
FirstOutcome(s) ==
  CASE s = 0 -> {FALSE}
    [] s # 0 -> CASE Bound(conn[s]) = "up" -> {TRUE} [] Bound(conn[s]) = "gone" -> BOOLEAN
                  [] OTHER -> {FALSE}

-----------------------------------------------------------------------------
(* AcceptThread *)

ReusableAtOnce(i) == ~isConnect[i] /\ closedTime[i] # "max"
Reusable(i) == ~isConnect[i] /\ closedTime[i] = "old"

(* The tests of AcceptThread, which are over when PostAccept begins. *)
ChooseSlot ==
  /\ Running
  /\ posting = 0
  /\ \E i \in Slots : Reusable(i) /\ posting' = i
  /\ UNCHANGED <<slotVars, sendVars, conn, kernVars, sessVars, workVars,
                 packVars, fault, disturbed>>

PostAccept ==
  /\ Running
  /\ posting # 0
  /\ posting' = 0
  /\ disturbed' = disturbed \union
       {i \in {posting} : ~Reusable(i) \/ \E s \in Sockets : <<i, s>> \in accepting}
  /\ \/ \E s \in Sockets :
          /\ s = Cardinality(Made) + 1
          /\ conn' = [conn EXCEPT ![s] = "fresh"]
          /\ sock' = [sock EXCEPT ![posting] = s]
          /\ \/ accepting' = accepting \union {<<posting, s>>}
                /\ closedTime' = [closedTime EXCEPT ![posting] = "recent"]
             \/ UNCHANGED accepting   \* AcceptEx fails
                /\ closedTime' = [closedTime EXCEPT ![posting] = "max"]
     \/ sock' = [sock EXCEPT ![posting] = 0]   \* WSASocket fails
        /\ closedTime' = [closedTime EXCEPT ![posting] = "max"]
        /\ UNCHANGED <<conn, accepting>>
  /\ UNCHANGED <<isConnect, sessionIndex, sendVars, recving, sessVars, workVars,
                 packVars, fault>>

(* Nothing of the slot's closed connections is left to handle. *)
Settled(i) ==
  /\ \A w \in Workers : at[w] # i
  /\ \A s \in Made : conn[s] = "gone" => recving[<<i, s>>] = 0 /\ <<i, s>> \notin sending

(* RE_USE_SESSION_WAIT_TIMESEC goes by. *)
WaitOver ==
  /\ Running
  /\ \E i \in Slots :
       /\ closedTime[i] = "recent"
       /\ closedTime' = [closedTime EXCEPT ![i] = "old"]
       /\ disturbed' = IF Settled(i) THEN disturbed ELSE disturbed \union {i}
  /\ UNCHANGED <<isConnect, sock, sessionIndex, sendVars, conn, kernVars, posting,
                 sessVars, workVars, packVars, fault>>

-----------------------------------------------------------------------------
(* The network *)

Dial ==
  /\ Running
  /\ \E e \in accepting : conn[e[2]] = "fresh" /\ conn' = [conn EXCEPT ![e[2]] = "dialed"]
  /\ UNCHANGED <<slotVars, sendVars, kernVars, posting, sessVars, workVars,
                 packVars, fault, disturbed>>

Reset ==
  /\ Running
  /\ \E s \in Made :
       \/ conn[s] = "dialed" /\ conn' = [conn EXCEPT ![s] = "lost"]
       \/ conn[s] = "up" /\ conn' = [conn EXCEPT ![s] = "gone"]
  /\ UNCHANGED <<slotVars, sendVars, kernVars, posting, sessVars, workVars,
                 packVars, fault, disturbed>>

-----------------------------------------------------------------------------
(* ClientInfo::Disconnect: closes whatever socket the slot has by now. *)
Disconnect(i) ==
  /\ isConnect' = [isConnect EXCEPT ![i] = FALSE]
  /\ closedTime' = [closedTime EXCEPT ![i] = "recent"]
  /\ conn' = [s \in Sockets |-> IF s = sock[i] THEN "gone" ELSE conn[s]]
  /\ sock' = [sock EXCEPT ![i] = 0]

(* ClientInfo::BindRecv, when WSARecv takes the operation. *)
BindRecv(i) == recving' = [recving EXCEPT ![<<i, sock[i]>>] = @ + 1]

(* PlayerManager: a search that reads every entry up to the first hit.     *)
Present == {p \in DOMAIN players : players[p] # Null}
FindPlayer(hits) == IF hits = {} THEN 0 ELSE CHOOSE p \in hits : \A q \in hits : p <= q
ReadsNull(p) == \E q \in DOMAIN players : players[q] = Null /\ (p # 0 => q < p)

OnCloseWithoutSlot(i) ==
  LET k == sessionIndex[i]
  IN IF k = 0
     THEN fault' = "out_of_range" /\ UNCHANGED <<sessionIndex, sessVars>>
     ELSE /\ sessions' = [sessions EXCEPT ![k] = [player |-> 0, client |-> 0]]
          /\ players' = [players EXCEPT ![sessions[k].player] = Null]
          /\ UNCHANGED <<sessionIndex, fault>>

(* OnClose: session 0 is at(-1), which throws on the worker thread. *)
OnClose(i) ==
  LET k == sessionIndex[i]
      p == FindPlayer(Present \intersect {sessions[k].player})
      closed == [players EXCEPT ![sessions[k].player] = 0]
  IN IF k = 0
     THEN fault' = "out_of_range" /\ UNCHANGED <<sessionIndex, sessVars>>
     ELSE /\ sessionIndex' = [sessionIndex EXCEPT ![i] = 0]
          /\ sessions' = [sessions EXCEPT ![k] = [player |-> 0, client |-> 0]]
          /\ IF ReadsNull(p)
             THEN fault' = "null" /\ players' = closed
             ELSE players' = [closed EXCEPT ![p] = Null] /\ UNCHANGED fault

(* A worker dequeues an accepted connection: AcceptCompletion binds the    *)
(* slot's newest socket, whichever one the client was accepted on.         *)
AcceptCompletion(w) ==
  /\ Running
  /\ pc[w] = "idle"
  /\ \E e \in accepting :
       LET i == e[1]
       IN /\ conn[e[2]] \in {"dialed", "lost"}
          /\ accepting' = accepting \ {e}
          /\ \E ok \in FirstOutcome(sock[i]) :
               IF ok
               THEN /\ isConnect' = [isConnect EXCEPT ![i] = TRUE]
                    /\ conn' = [conn EXCEPT ![sock[i]] = Bound(@)]
                    /\ BindRecv(i)
                    /\ UNCHANGED <<sock, closedTime, sessionIndex, sessVars, fault>>
               ELSE /\ Disconnect(i)   \* CloseSocket(clientInfo, true)
                    /\ OnClose(i)
                    /\ UNCHANGED recving
  /\ UNCHANGED <<sendVars, posting, workVars, packVars, disturbed>>

(* A failed operation: the listener's carry no slot and are only logged,   *)
(* the others disconnect the slot and leave its queue as it is.            *)
AcceptFailed(w) ==
  /\ Running
  /\ pc[w] = "idle"
  /\ \E e \in accepting : conn[e[2]] \in {"lost", "gone"} /\ accepting' = accepting \ {e}
  /\ UNCHANGED <<slotVars, sendVars, conn, recving, posting, sessVars, workVars,
                 packVars, fault, disturbed>>

RecvFailed(w) ==
  /\ Running
  /\ pc[w] = "idle"
  /\ \E i \in Slots, s \in Made :
       /\ recving[<<i, s>>] > 0
       /\ conn[s] = "gone"
       /\ recving' = [recving EXCEPT ![<<i, s>>] = @ - 1]
       /\ Disconnect(i)
  /\ UNCHANGED <<sessionIndex, sendVars, accepting, posting, sessVars, workVars,
                 packVars, fault, disturbed>>

SendFailed(w) ==
  /\ Running
  /\ pc[w] = "idle"
  /\ \E e \in sending :
       /\ conn[e[2]] = "gone"
       /\ sending' = sending \ {e}
       /\ mute' = mute \union {e[1]}
       /\ Disconnect(e[1])
  /\ UNCHANGED <<sessionIndex, sendQueue, submitted, delivered, madeFor, crossed,
                 kernVars, posting, sessVars, workVars, packVars, fault, disturbed>>

(* A worker dequeues bytes: OnRecv, and the test for a first receive.  Two *)
(* threads at work on the unlocked vectors end what the model can say.     *)
OnRecv(w) ==
  /\ Running
  /\ pc[w] = "idle"
  /\ \E i \in Slots, s \in Made :
       /\ recving[<<i, s>>] > 0
       /\ CanWork(s)
       /\ recving' = [recving EXCEPT ![<<i, s>>] = @ - 1]
       /\ at' = [at EXCEPT ![w] = i]
       /\ pc' = [pc EXCEPT ![w] = IF sessionIndex[i] = 0 THEN "connect" ELSE "read"]
       /\ fault' = IF sessionIndex[i] = 0 /\ \E v \in Workers : pc[v] = "connect"
                   THEN "race" ELSE fault
  /\ UNCHANGED <<slotVars, sendVars, conn, accepting, posting, sessVars, packVars, disturbed>>

FirstOr(S, n) == IF S = {} THEN n ELSE CHOOSE k \in S : \A j \in S : k <= j
PutAt(seq, n, v) == [k \in 1 .. IF n > Len(seq) THEN n ELSE Len(seq) |->
                       IF k = n THEN v ELSE seq[k]]

FreePlayer  == FirstOr({p \in DOMAIN players : players[p] = Null}, Len(players) + 1)
FreeSession == FirstOr({k \in DOMAIN sessions : sessions[k].client = 0}, Len(sessions) + 1)

(* IOCPTetrisServer::OnConnect: GetEmptyPlayer and AddSession *)
OnConnect(w) ==
  LET i == at[w]
      p == FreePlayer
      k == FreeSession
  IN /\ Running
     /\ pc[w] = "connect"
     /\ players' = PutAt(players, p, k)
     /\ sessions' = PutAt(sessions, k, [player |-> p, client |-> i])
     /\ sessionIndex' = [sessionIndex EXCEPT ![i] = k]
     /\ pc' = [pc EXCEPT ![w] = "read"]
     /\ UNCHANGED <<isConnect, sock, closedTime, sendVars, conn, kernVars, posting, at,
                    packVars, fault, disturbed>>

(* What the worker does once the packets are queued: line 225 takes no     *)
(* notice of a WSARecv that fails.                                         *)
NoRebind(i) == UNCHANGED recving
Rebind(i) ==
  \E ok \in Outcome(sock[i]) : IF ok THEN BindRecv(i) ELSE UNCHANGED recving

ReadPackets(w) ==
  LET i == at[w]
  IN /\ Running
     /\ pc[w] = "read"
     /\ \/ /\ received < MaxRecv
           /\ received' = received + 1
           /\ requests' = Append(requests, sessionIndex[i])
        \/ UNCHANGED <<received, requests>>   \* not a whole packet yet
     /\ Rebind(i)
     /\ pc' = [pc EXCEPT ![w] = "idle"]
     /\ at' = [at EXCEPT ![w] = 0]
     /\ UNCHANGED <<slotVars, sendVars, conn, accepting, posting, sessVars, serving, fault,
                    disturbed>>

-----------------------------------------------------------------------------
(* The send queue of a slot, under mSendLock *)

(* SendIO: a WSASend that fails is only logged. *)
SendIO(i, ops) ==
  \E ok \in Outcome(sock[i]) :
    IF ok THEN sending' = ops \union {<<i, sock[i]>>} /\ UNCHANGED mute
          ELSE sending' = ops /\ mute' = mute \union {i}

SendMsg(i) ==
  /\ submitted[i] < MaxSend
  /\ submitted' = [submitted EXCEPT ![i] = @ + 1]
  /\ sendQueue' = [sendQueue EXCEPT ![i] = Append(@, submitted[i] + 1)]
  /\ madeFor' = [madeFor EXCEPT ![i] = Append(@, sock[i])]
  /\ IF sendQueue[i] = <<>> THEN SendIO(i, sending) ELSE UNCHANGED <<sending, mute>>
  /\ UNCHANGED <<delivered, crossed>>

PostNone(i, e) == sending' = sending \ {e} /\ UNCHANGED mute
PostNext(i, e) ==
  IF Tail(sendQueue[i]) # <<>> THEN SendIO(i, sending \ {e})
                               ELSE sending' = sending \ {e} /\ UNCHANGED mute

SendCompleted(w) ==
  /\ Running
  /\ pc[w] = "idle"
  /\ \E e \in sending :
       LET i == e[1]
       IN /\ CanWork(e[2])
          /\ sendQueue' = [sendQueue EXCEPT ![i] = Tail(@)]
          /\ delivered' = [delivered EXCEPT ![i] = Append(@, Head(sendQueue[i]))]
          /\ madeFor' = [madeFor EXCEPT ![i] = Tail(@)]
          /\ crossed' = IF Head(madeFor[i]) = e[2] THEN crossed ELSE crossed \union {i}
          /\ PostNext(i, e)
  /\ UNCHANGED <<slotVars, submitted, conn, kernVars, posting, sessVars, workVars,
                 packVars, fault, disturbed>>

-----------------------------------------------------------------------------
(* PacketThread *)

(* ProcessPacket finds the player and runs the handler; a player that is   *)
(* gone is a null pointer to the handlers that use it, and session 0 is    *)
(* at(-1) again when the others are done.                                  *)
ServeRequest ==
  LET k == Head(requests)
      p == FindPlayer({q \in Present : players[q] = k})
      bad == (IF \E w \in Workers : pc[w] = "connect" THEN {"race"} ELSE {})
             \union (IF ReadsNull(p) THEN {"null"} ELSE {})
  IN /\ Running
     /\ serving = 0
     /\ requests # <<>>
     /\ requests' = Tail(requests)
     /\ serving' = k
     /\ fault' \in CASE bad # {} -> bad
                     [] bad = {} /\ p # 0 -> {"none"}
                     [] OTHER -> {"null", IF k = 0 THEN "out_of_range" ELSE "none"}
     /\ UNCHANGED <<slotVars, sendVars, conn, kernVars, posting, sessVars, workVars,
                    received, disturbed>>

(* SendPacketFunc, with its assertion that the session has a slot. *)
SendResponse ==
  LET i == sessions[serving].client
  IN /\ Running
     /\ serving # 0
     /\ serving' = 0
     /\ IF i = 0 THEN fault' = "assert" /\ UNCHANGED sendVars
                 ELSE SendMsg(i) /\ UNCHANGED fault
     /\ UNCHANGED <<slotVars, conn, kernVars, posting, sessVars, workVars, requests,
                    received, disturbed>>

(* SendNotify, from a handler, to the session of any player; one that has  *)
(* been closed has no slot.                                                *)
SendNotify ==
  /\ Running
  /\ serving # 0
  /\ \E k \in DOMAIN sessions :
       IF sessions[k].client = 0 THEN fault' = "null" /\ UNCHANGED sendVars
                                 ELSE SendMsg(sessions[k].client) /\ UNCHANGED fault
  /\ UNCHANGED <<slotVars, conn, kernVars, posting, sessVars, workVars, packVars, disturbed>>

-----------------------------------------------------------------------------
Init ==
  /\ isConnect = [i \in Slots |-> FALSE]
  /\ sock = [i \in Slots |-> 0]
  /\ sessionIndex = [i \in Slots |-> 0]
  /\ closedTime = [i \in Slots |-> "old"]
  /\ sendQueue = [i \in Slots |-> <<>>]
  /\ conn = [s \in Sockets |-> "none"]
  /\ accepting = {} /\ sending = {}
  /\ recving = [e \in Slots \X Sockets |-> 0]
  /\ posting = 0
  /\ sessions = <<>> /\ players = <<>>
  /\ pc = [w \in Workers |-> "idle"] /\ at = [w \in Workers |-> 0]
  /\ requests = <<>> /\ serving = 0 /\ received = 0
  /\ fault = "none"
  /\ submitted = [i \in Slots |-> 0]
  /\ delivered = [i \in Slots |-> <<>>]
  /\ madeFor = [i \in Slots |-> <<>>]
  /\ crossed = {} /\ mute = {} /\ disturbed = {}

WorkerThread(w) ==
  \/ AcceptCompletion(w) \/ AcceptFailed(w) \/ RecvFailed(w) \/ SendFailed(w)
  \/ OnRecv(w) \/ OnConnect(w) \/ ReadPackets(w) \/ SendCompleted(w)

Next ==
  \/ ChooseSlot \/ PostAccept \/ WaitOver \/ Dial \/ Reset
  \/ \E w \in Workers : WorkerThread(w)
  \/ ServeRequest \/ SendResponse \/ SendNotify

(* A worker finishes what it has begun.  The completion port is a queue,   *)
(* so the completion of a send is dequeued after those before it, however  *)
(* busy the workers are: strong fairness.                                  *)
Fairness ==
  /\ \A w \in Workers : WF_vars(OnConnect(w) \/ ReadPackets(w))
  /\ SF_vars(\E w \in Workers : SendCompleted(w) \/ SendFailed(w))

Spec == Init /\ [][Next]_vars /\ Fairness

-----------------------------------------------------------------------------
(* Slots, sessions and players point at each other and nobody shares one:  *)
(* SetSesssion, CloseSession and RemovePlayer keep the three tables in     *)
(* step although slots are reused without OnClose and entries are recycled *)
(* by first fit.                                                           *)
SessionsMatch ==
  /\ \A i \in Slots : sessionIndex[i] # 0 =>
       /\ sessionIndex[i] \in DOMAIN sessions
       /\ sessions[sessionIndex[i]].client = i
  /\ \A k \in DOMAIN sessions : sessions[k].client # 0 =>
       /\ sessionIndex[sessions[k].client] = k
       /\ sessions[k].player \in DOMAIN players /\ players[sessions[k].player] = k

(* No accept was posted on the slot while another one was outstanding or   *)
(* after its tests had gone stale, and the completions of a closed         *)
(* connection were handled within the reuse wait.                          *)
Undisturbed(i) == i \notin disturbed

(* A live connection is being listened to exactly once: there is a receive *)
(* posted on its socket, or a worker that handles one and will post the    *)
(* next; two would share mRecvBuf and mRecvOverlappedEx.                   *)
HeardOnce ==
  \A i \in Slots : Undisturbed(i) /\ isConnect[i] =>
    LET readers == Cardinality({w \in Workers : at[w] = i})
                   + IF sock[i] = 0 THEN 0 ELSE recving[<<i, sock[i]>>]
    IN readers <= 1 /\ (Outcome(sock[i]) = {TRUE} => readers = 1)

(* A packet goes to the connection it was made for, never to the next      *)
(* client of the slot, although the queue survives the reuse.              *)
NoCrossTalk ==
  \A i \in Slots : Undisturbed(i) => i \notin crossed

(* A slot sends no more when one of its sends has failed, or the process   *)
(* has ended.                                                              *)
Dead(i) == i \in mute \/ ~Running

Channels == INSTANCE SendChannel WITH
  pending <- sendQueue, dead <- [i \in Slots |-> Dead(i)]

(* The send queues implement SendChannel: on every slot packets leave once *)
(* and in order, and without a failed send each of them does leave; after  *)
(* one (ClientInfo.cpp:222, IOCPServer.cpp:184) the slot never sends       *)
(* again, through every later connection.                                  *)
SlotsAreChannels == Channels!Spec
=============================================================================
