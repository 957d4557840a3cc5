----------------------------- MODULE ClientNet ------------------------------
(***************************************************************************)
(* The network side of the client (class Server): the game thread that     *)
(* calls Send, SendSync and once a frame HandlerThread, the SendThread and *)
(* the RecvThread, over the queues they share.  A packet is its sequence   *)
(* number; 0 is a notification.  The heaps are touched outside handlerLock *)
(* in HandlerThread, so each of those reads is a step of its own; a read   *)
(* that overlaps a push sees the heap before or after it.                  *)
(***************************************************************************)
EXTENDS Integers, Sequences, FiniteSetsExt

CONSTANTS
  MaxRequests,   \* bound on sequenceIndex
  MaxNotify      \* bound on the notifications the server sends

ASSUME BoundAssumption == MaxRequests \in Nat /\ MaxNotify \in Nat

Request == 1 .. MaxRequests

VARIABLES
  link,              \* the connection as the network sees it
  isConnect, isRun,  \* Server::isConnect, isRun
  sequenceIndex,
  sendPacketQueue,   \* requests waiting for SendThread
  sendPackets,       \* max-heap of requests, by sequence number
  recvPackets,       \* max-heap of responses, by sequence number
  notifyPackets,     \* how many notifications wait
  needSyncPacket, needSyncSequnce, syncPacket,
  awaited,           \* the request SendSync waits for on the game thread, or 0
  at,                \* where the game thread is in HandlerThread
  top,               \* the number of the request it has read from sendPackets
  sending,           \* where SendThread is with the request it has taken
  taken,             \* that request
  toServer, fromServer,   \* the two directions of the TCP stream
  notified,          \* how many notifications the server has sent
  handled,           \* history: the responses given to their handlers
  arrived            \* history: the responses RecvThread has queued

syncVars == <<needSyncPacket, needSyncSequnce, syncPacket, awaited>>
heaps    == <<sendPackets, recvPackets>>
gameVars == <<at, top, handled>>
sendVars == <<sending, taken>>
wireVars == <<toServer, fromServer, notified>>
runVars  == <<link, isConnect, isRun>>
vars == <<runVars, sequenceIndex, sendPacketQueue, heaps, notifyPackets, syncVars,
          gameVars, sendVars, wireVars, arrived>>

-----------------------------------------------------------------------------
(* The game thread is between two calls of HandlerThread. *)
Free == at = "idle" /\ awaited = 0

(* Server::Send *)
Send ==
  /\ Free
  /\ isConnect
  /\ sequenceIndex < MaxRequests
  /\ sequenceIndex' = sequenceIndex + 1
  /\ sendPacketQueue' = Append(sendPacketQueue, sequenceIndex + 1)
  /\ UNCHANGED <<runVars, heaps, notifyPackets, syncVars, gameVars, sendVars, wireVars, arrived>>

(* Server::SendSync up to its waiting loop. *)
SendSync ==
  /\ Free
  /\ isConnect
  /\ sequenceIndex < MaxRequests
  /\ sequenceIndex' = sequenceIndex + 1
  /\ needSyncSequnce' = sequenceIndex + 1
  /\ needSyncPacket' = TRUE
  /\ sendPacketQueue' = Append(sendPacketQueue, sequenceIndex + 1)
  /\ awaited' = sequenceIndex + 1
  /\ UNCHANGED <<runVars, heaps, notifyPackets, syncPacket, gameVars, sendVars,
                 wireVars, arrived>>

(* The end of SendSync: it copies syncPacket for its caller. *)
SendSyncReturns ==
  /\ at = "idle"
  /\ awaited # 0
  /\ ~needSyncPacket
  /\ awaited' = 0
  /\ UNCHANGED <<runVars, sequenceIndex, sendPacketQueue, heaps, notifyPackets,
                 needSyncPacket, needSyncSequnce, syncPacket, gameVars, sendVars, wireVars, arrived>>

(* HandlerThread is called: once a frame, and over and over in SendSync. *)
Called == at = "idle" /\ (awaited = 0 \/ needSyncPacket)

(* auto req = sendPackets.top() *)
ReadRequest ==
  /\ Called
  /\ recvPackets # {}
  /\ sendPackets # {}
  /\ top' = Max(sendPackets)
  /\ at' = "response"
  /\ UNCHANGED <<runVars, sequenceIndex, sendPacketQueue, heaps, notifyPackets, syncVars,
                 handled, sendVars, wireVars, arrived>>

(* The slip gives up the whole call when the tops differ. *)
AfterMismatchReturn == "idle"

(* Where HandlerThread goes on when the tops differ. *)
AfterMismatch == "notify"

(* auto res = recvPackets.top() and the comparison of the two *)
ReadResponse ==
  /\ at = "response"
  /\ at' = IF Max(recvPackets) = top THEN "pop" ELSE AfterMismatch
  /\ UNCHANGED <<runVars, sequenceIndex, sendPacketQueue, heaps, notifyPackets, syncVars,
                 top, handled, sendVars, wireVars, arrived>>

(* Two slips: any response releases SendSync; it waits for a number off by one. *)
AnyResponse(n)  == needSyncPacket
NextResponse(n) == needSyncPacket /\ needSyncSequnce + 1 = n

(* The response n is the one SendSync waits for. *)
IsAwaited(n) == needSyncPacket /\ needSyncSequnce = n

(***************************************************************************)
(* Both heaps are popped under the lock, whatever their tops are by now,   *)
(* and the pair that was read before goes to its handler.                  *)
(***************************************************************************)
HandleResponse ==
  /\ at = "pop"
  /\ sendPackets' = sendPackets \ {Max(sendPackets)}
  /\ recvPackets' = recvPackets \ {Max(recvPackets)}
  /\ handled' = handled \cup {top}
  /\ syncPacket' = IF IsAwaited(top) THEN top ELSE syncPacket
  /\ needSyncPacket' = (needSyncPacket /\ ~IsAwaited(top))
  /\ at' = "notify"
  /\ UNCHANGED <<runVars, sequenceIndex, sendPacketQueue, notifyPackets, needSyncSequnce,
                 awaited, top, sendVars, wireVars, arrived>>

(* The slip pops notifyPackets without asking whether it is empty. *)
NotifyUnderflow == notifyPackets - 1

(* What the second half of HandlerThread leaves of notifyPackets. *)
NotifyLeft == IF notifyPackets > 0 THEN notifyPackets - 1 ELSE 0

(* The second half of HandlerThread takes one notification. *)
HandleNotify ==
  /\ at = "notify" \/ (Called /\ recvPackets = {} /\ notifyPackets > 0)
  /\ at' = "idle"
  /\ notifyPackets' = NotifyLeft
  /\ UNCHANGED <<runVars, sequenceIndex, sendPacketQueue, heaps, syncVars, top, handled,
                 sendVars, wireVars, arrived>>

-----------------------------------------------------------------------------
(* The slip registers a request only once it has been sent. *)
SendFirst == <<"send", "push">>

(* SendThread enters a request in sendPackets, then sends it. *)
SendOrder == <<"push", "send">>

After(stage) == IF stage = SendOrder[1] THEN SendOrder[2] ELSE "idle"

(* SendThread takes the oldest request, *)
TakeRequest ==
  /\ isRun
  /\ isConnect
  /\ sending = "idle"
  /\ sendPacketQueue # <<>>
  /\ taken' = Head(sendPacketQueue)
  /\ sendPacketQueue' = Tail(sendPacketQueue)
  /\ sending' = SendOrder[1]
  /\ UNCHANGED <<runVars, sequenceIndex, heaps, notifyPackets, syncVars, gameVars, wireVars, arrived>>

(* enters it in sendPackets under handlerLock, *)
PushRequest ==
  /\ sending = "push"
  /\ sending' = After("push")
  /\ sendPackets' = sendPackets \cup {taken}
  /\ UNCHANGED <<runVars, sequenceIndex, sendPacketQueue, recvPackets, notifyPackets, syncVars,
                 gameVars, taken, wireVars, arrived>>

(***************************************************************************)
(* and sends it; a failure closes the connection (Server::Close), but the  *)
(* bytes may also go to a connection that is already lost.                 *)
(***************************************************************************)
Transmit ==
  /\ sending = "send"
  /\ sending' = After("send")
  /\ \/ /\ link /\ isConnect
        /\ toServer' = Append(toServer, taken)
        /\ UNCHANGED isConnect
     \/ /\ ~link /\ isConnect
        /\ UNCHANGED <<isConnect, toServer>>
     \/ /\ ~(link /\ isConnect)
        /\ isConnect' = FALSE
        /\ UNCHANGED toServer
  /\ UNCHANGED <<link, isRun, sequenceIndex, sendPacketQueue, heaps, notifyPackets, syncVars,
                 gameVars, taken, fromServer, notified, arrived>>

(* RecvThread sorts one packet of the stream into the two queues. *)
Receive ==
  /\ isRun
  /\ isConnect
  /\ fromServer # <<>>
  /\ fromServer' = Tail(fromServer)
  /\ LET n == Head(fromServer)
     IN IF n = 0
        THEN notifyPackets' = notifyPackets + 1 /\ UNCHANGED <<recvPackets, arrived>>
        ELSE /\ recvPackets' = recvPackets \cup {n}
             /\ arrived' = arrived \cup {n}
             /\ UNCHANGED notifyPackets
  /\ UNCHANGED <<runVars, sequenceIndex, sendPacketQueue, sendPackets, syncVars, gameVars,
                 sendVars, toServer, notified>>

(***************************************************************************)
(* A receive that was pending fails and ends both threads (isRun); one     *)
(* that fails at once only closes the connection.                          *)
(***************************************************************************)
ReceiveFails ==
  /\ isRun
  /\ \/ ~(link /\ isConnect) /\ isRun' = FALSE /\ UNCHANGED isConnect
     \/ ~link /\ isConnect /\ isConnect' = FALSE /\ UNCHANGED isRun
  /\ UNCHANGED <<link, sequenceIndex, sendPacketQueue, heaps, notifyPackets, syncVars, gameVars,
                 sendVars, wireVars, arrived>>

-----------------------------------------------------------------------------
(* The server answers the requests of one client in order, *)
Answer ==
  /\ link
  /\ toServer # <<>>
  /\ toServer' = Tail(toServer)
  /\ fromServer' = Append(fromServer, Head(toServer))
  /\ UNCHANGED <<runVars, sequenceIndex, sendPacketQueue, heaps, notifyPackets, syncVars,
                 gameVars, sendVars, notified, arrived>>

(* notifies it at any time, *)
ServerNotify ==
  /\ link
  /\ notified < MaxNotify
  /\ notified' = notified + 1
  /\ fromServer' = Append(fromServer, 0)
  /\ UNCHANGED <<runVars, sequenceIndex, sendPacketQueue, heaps, notifyPackets, syncVars,
                 gameVars, sendVars, toServer, arrived>>

(* and the connection may break. *)
LinkLost ==
  /\ link
  /\ link' = FALSE
  /\ UNCHANGED <<isConnect, isRun, sequenceIndex, sendPacketQueue, heaps, notifyPackets,
                 syncVars, gameVars, sendVars, wireVars, arrived>>

(* Server::Server has started the threads and ConnectServer has returned. *)
Init ==
  /\ link = TRUE /\ isConnect = TRUE /\ isRun = TRUE
  /\ sequenceIndex = 0
  /\ sendPacketQueue = <<>>
  /\ sendPackets = {} /\ recvPackets = {}
  /\ notifyPackets = 0
  /\ needSyncPacket = FALSE /\ needSyncSequnce = 0 /\ syncPacket = 0 /\ awaited = 0
  /\ at = "idle" /\ top = 0
  /\ sending = "idle" /\ taken = 0
  /\ toServer = <<>> /\ fromServer = <<>> /\ notified = 0
  /\ handled = {} /\ arrived = {}

HandlerThread == ReadRequest \/ ReadResponse \/ HandleResponse \/ HandleNotify

SendThread == TakeRequest \/ PushRequest \/ Transmit

Next ==
  \/ Send \/ SendSync \/ SendSyncReturns \/ HandlerThread
  \/ SendThread
  \/ Receive \/ ReceiveFails
  \/ Answer \/ ServerNotify \/ LinkLost

Spec == Init /\ [][Next]_vars

(***************************************************************************)
(* The game thread calls HandlerThread in every frame and in every turn of *)
(* SendSync; the two other threads loop; the server answers what it gets.  *)
(***************************************************************************)
FairSpec ==
  /\ Spec
  /\ WF_vars(HandlerThread \/ SendSyncReturns)
  /\ WF_vars(SendThread)
  /\ WF_vars(Receive)
  /\ WF_vars(Answer)

-----------------------------------------------------------------------------
TypeOK ==
  /\ {link, isConnect, isRun, needSyncPacket} \subseteq BOOLEAN
  /\ sequenceIndex \in 0 .. MaxRequests
  /\ sendPacketQueue \in Seq(Request) /\ toServer \in Seq(Request)
  /\ fromServer \in Seq(0 .. MaxRequests)
  /\ {sendPackets, recvPackets, handled, arrived} \subseteq SUBSET Request
  /\ {notifyPackets, notified} \subseteq 0 .. MaxNotify
  /\ {needSyncSequnce, syncPacket, awaited, top, taken} \subseteq 0 .. MaxRequests
  /\ at \in {"idle", "response", "pop", "notify"}
  /\ sending \in {"idle", "push", "send"}

(***************************************************************************)
(* HandlerThread never calls top() on an empty sendPackets, though it only *)
(* asks whether recvPackets is empty: every response in the heap or on its *)
(* way has a request in the other heap, even after the pops have taken     *)
(* other entries than the ones that were compared.                         *)
(***************************************************************************)
RequestForResponse == recvPackets # {} => sendPackets # {}

(***************************************************************************)
(* SendSync hands its caller the response to its own request, whatever     *)
(* other responses HandlerThread has worked off while it waited.           *)
(***************************************************************************)
SyncIsOwnResponse ==
  [][awaited # 0 /\ awaited' = 0 => syncPacket = awaited]_vars

(***************************************************************************)
(* Notifications are worked off even while the tops of the heaps differ    *)
(* for ever, and while SendSync blocks the game thread.                    *)
(***************************************************************************)
NotificationsFlow == notifyPackets > 0 ~> notifyPackets = 0

(* SendSync has just queued its request, and no other is under way. *)
Alone == sendPacketQueue = <<awaited>> /\ sending = "idle" /\ sendPackets = {}

(***************************************************************************)
(* A SendSync with no earlier request under way returns, unless the        *)
(* connection breaks.                                                      *)
(***************************************************************************)
LoneSyncReturns == Alone ~> (awaited = 0 \/ ~link)

(***************************************************************************)
(* The comment in HandlerThread: when the response of a requested sequence *)
(* number has come, its handler is called (as long as the link holds).     *)
(***************************************************************************)
ResponseIsHandled ==
  \A n \in Request : n \in arrived ~> (n \in handled \/ ~link)

=============================================================================
