-------------------------- MODULE ClientNetProofs ---------------------------
(***************************************************************************)
(* Theorems about ClientNet for any number of requests and notifications.  *)
(***************************************************************************)
EXTENDS ClientNet, FiniteSetTheorems, WellFoundedInduction, TLAPS

-----------------------------------------------------------------------------
(* While SendSync waits, it waits for its own number, and what has been    *)
(* put into syncPacket is the response to it.                              *)
Waiting ==
  /\ needSyncPacket \in BOOLEAN
  /\ awaited # 0 => needSyncSequnce = awaited /\ (needSyncPacket \/ syncPacket = awaited)

LEMMA WaitingStep ==
  Waiting /\ [Next]_vars => Waiting' /\ (awaited # 0 /\ awaited' = 0 => syncPacket = awaited)
<1> SUFFICES ASSUME Waiting, [Next]_vars
             PROVE  Waiting' /\ (awaited # 0 /\ awaited' = 0 => syncPacket = awaited)
  OBVIOUS
<1>1. CASE UNCHANGED syncVars
  BY <1>1 DEF Waiting, syncVars
<1>2. CASE SendSync
  BY <1>2 DEF Waiting, SendSync, Free
<1>3. CASE SendSyncReturns
  BY <1>3 DEF Waiting, SendSyncReturns
<1>4. CASE HandleResponse
  BY <1>4 DEF Waiting, HandleResponse, IsAwaited
<1>5. UNCHANGED syncVars \/ SendSync \/ SendSyncReturns \/ HandleResponse
  BY DEF Next, vars, Send, HandlerThread, ReadRequest, ReadResponse, HandleNotify, SendThread,
         TakeRequest, PushRequest, Transmit, Receive, ReceiveFails, Answer, ServerNotify, LinkLost
<1> QED
  BY <1>1, <1>2, <1>3, <1>4, <1>5

(* However many requests are under way and whatever HandlerThread works    *)
(* off while it waits, SendSync returns the response to its own request    *)
(* (SyncIsOwnResponse; Server::SendSync and HandlerThread).                *)
THEOREM OwnResponse == Spec => SyncIsOwnResponse
<1>1. Init => Waiting
  BY DEF Init, Waiting
<1>2. Waiting /\ [Next]_vars
        => Waiting' /\ [awaited # 0 /\ awaited' = 0 => syncPacket = awaited]_vars
  BY WaitingStep
<1> QED
  BY <1>1, <1>2, PTL DEF Spec, SyncIsOwnResponse

-----------------------------------------------------------------------------
(* How many requests SendThread has entered in sendPackets, and how many   *)
(* it is done with.                                                        *)
Pushed == sequenceIndex - Len(sendPacketQueue) - (IF sending = "push" THEN 1 ELSE 0)
Gone   == sequenceIndex - Len(sendPacketQueue) - (IF sending = "idle" THEN 0 ELSE 1)

(* SendThread takes the requests in the order of their numbers. *)
InOrder ==
  /\ sequenceIndex \in Nat
  /\ sendPacketQueue \in Seq(Nat)
  /\ sending \in {"idle", "push", "send"}
  /\ Gone \in Nat
  /\ \A i \in DOMAIN sendPacketQueue :
       sendPacketQueue[i] = sequenceIndex - Len(sendPacketQueue) + i
  /\ sending # "idle" => taken = sequenceIndex - Len(sendPacketQueue)

(* A request that was sent is once in one of the two streams, or lost, or  *)
(* its response has arrived.                                               *)
InFlight ==
  /\ toServer \in Seq(Nat) /\ fromServer \in Seq(Nat)
  /\ arrived \subseteq 1 .. Gone
  /\ \A i \in DOMAIN toServer : toServer[i] \in 1 .. Gone /\ toServer[i] \notin arrived
  /\ \A i, j \in DOMAIN toServer : toServer[i] = toServer[j] => i = j
  /\ \A i \in DOMAIN fromServer : fromServer[i] # 0 =>
       /\ fromServer[i] \in 1 .. Gone /\ fromServer[i] \notin arrived
       /\ \A j \in DOMAIN toServer : toServer[j] # fromServer[i]
       /\ \A j \in DOMAIN fromServer : fromServer[j] = fromServer[i] => j = i

(* Each call of HandlerThread takes one entry from either heap or none,    *)
(* whichever ones they are, so as many are gone from one as from the       *)
(* other.                                                                  *)
Balanced ==
  /\ recvPackets \subseteq arrived
  /\ sendPackets \subseteq 1 .. Pushed
  /\ Cardinality(arrived) - Cardinality(recvPackets) = Pushed - Cardinality(sendPackets)
  /\ at \in {"response", "pop"} => recvPackets # {}

IInv == InOrder /\ InFlight /\ Balanced

(* The counts, and what a step does to them. *)
LEMMA Counts == InOrder => /\ Pushed \in Nat /\ Gone \in Nat /\ Gone <= Pushed
                           /\ sending = "push" => taken = Pushed + 1
                           /\ sending = "send" => taken = Gone + 1
  BY DEF InOrder, Pushed, Gone

LEMMA CountsStep ==
  ASSUME InOrder, [Next]_vars
  PROVE  /\ InOrder'
         /\ Pushed' = IF PushRequest THEN Pushed + 1 ELSE Pushed
         /\ Gone' = IF Transmit THEN Gone + 1 ELSE Gone
         /\ PushRequest => taken = Pushed + 1
         /\ Transmit => taken = Gone + 1
<1> DEFINE q == sendPacketQueue
<1>1. sequenceIndex \in Nat /\ q \in Seq(Nat) /\ Len(q) \in Nat /\ DOMAIN q = 1 .. Len(q)
  BY DEF InOrder
<1>2. CASE PushRequest
  <2>1. sending = "push" /\ sending' = "send" /\ UNCHANGED <<sequenceIndex, sendPacketQueue, taken>>
    BY <1>2 DEF PushRequest, After, SendOrder, sendVars
  <2>2. ~Transmit
    BY <2>1 DEF Transmit
  <2> QED
    BY <1>1, <1>2, <2>1, <2>2 DEF InOrder, Pushed, Gone
<1>3. CASE Transmit
  <2>1. sending = "send" /\ sending' = "idle" /\ UNCHANGED <<sequenceIndex, sendPacketQueue, taken>>
    BY <1>3 DEF Transmit, After, SendOrder, sendVars
  <2>2. ~PushRequest
    BY <2>1 DEF PushRequest
  <2> QED
    BY <1>1, <1>3, <2>1, <2>2 DEF InOrder, Pushed, Gone
<1>4. CASE TakeRequest
  <2>1. /\ sending = "idle" /\ sending' = "push" /\ q # <<>> /\ taken' = Head(q) /\ q' = Tail(q)
        /\ UNCHANGED sequenceIndex
    BY <1>4 DEF TakeRequest, SendOrder
  <2>2. ~PushRequest /\ ~Transmit
    BY <2>1 DEF PushRequest, Transmit
  <2>3. /\ q' \in Seq(Nat) /\ Len(q') = Len(q) - 1 /\ Len(q) > 0 /\ Head(q) = q[1]
        /\ \A i \in 1 .. Len(q) - 1 : q'[i] = q[i + 1]
    BY <1>1, <2>1
  <2>4. q[1] = sequenceIndex - Len(q) + 1
    <3>1. 1 \in DOMAIN q
      BY <1>1, <2>3
    <3> QED
      BY <3>1 DEF InOrder
  <2>5. Pushed' = Pushed /\ Gone' = Gone
    BY <1>1, <2>1, <2>3 DEF Pushed, Gone
  <2>6. \A i \in DOMAIN q' : q'[i] = sequenceIndex' - Len(q') + i
    <3> SUFFICES ASSUME NEW i \in DOMAIN q' PROVE q'[i] = sequenceIndex' - Len(q') + i
      OBVIOUS
    <3>1. i \in 1 .. Len(q) - 1 /\ i + 1 \in DOMAIN q
      BY <1>1, <2>3
    <3>2. q[i + 1] = sequenceIndex - Len(q) + (i + 1)
      BY <3>1 DEF InOrder
    <3> QED
      BY <1>1, <2>1, <2>3, <3>1, <3>2
  <2>7. taken' = sequenceIndex' - Len(q')
    BY <1>1, <2>1, <2>3, <2>4
  <2> QED
    BY <1>1, <2>1, <2>2, <2>3, <2>5, <2>6, <2>7 DEF InOrder
<1>5. CASE Send \/ SendSync
  <2>1. /\ sequenceIndex' = sequenceIndex + 1 /\ q' = Append(q, sequenceIndex + 1)
        /\ UNCHANGED <<sending, taken>>
    BY <1>5 DEF Send, SendSync, sendVars
  <2>2. ~PushRequest /\ ~Transmit
    <3>1. sequenceIndex' # sequenceIndex
      BY <1>1, <2>1
    <3> QED
      BY <3>1 DEF PushRequest, Transmit
  <2>3. /\ q' \in Seq(Nat) /\ Len(q') = Len(q) + 1 /\ DOMAIN q' = 1 .. Len(q) + 1
        /\ q'[Len(q) + 1] = sequenceIndex + 1
        /\ \A i \in 1 .. Len(q) : q'[i] = q[i]
    BY <1>1, <2>1
  <2>4. Pushed' = Pushed /\ Gone' = Gone
    BY <1>1, <2>1, <2>3 DEF Pushed, Gone
  <2>5. \A i \in DOMAIN q' : q'[i] = sequenceIndex' - Len(q') + i
    <3> SUFFICES ASSUME NEW i \in DOMAIN q' PROVE q'[i] = sequenceIndex' - Len(q') + i
      OBVIOUS
    <3>1. CASE i \in 1 .. Len(q)
      <4>1. q[i] = sequenceIndex - Len(q) + i
        BY <1>1, <3>1 DEF InOrder
      <4> QED
        BY <1>1, <2>1, <2>3, <3>1, <4>1
    <3>2. CASE i = Len(q) + 1
      BY <1>1, <2>1, <2>3, <3>2
    <3> QED
      BY <1>1, <2>3, <3>1, <3>2
  <2>6. sending # "idle" => taken' = sequenceIndex' - Len(q')
    BY <1>1, <2>1, <2>3 DEF InOrder
  <2> QED
    BY <1>1, <2>1, <2>2, <2>3, <2>4, <2>5, <2>6 DEF InOrder
<1>6. CASE UNCHANGED <<sequenceIndex, sendPacketQueue, sending, taken>>
  <2>1. ~PushRequest /\ ~Transmit
    BY <1>6 DEF PushRequest, Transmit, After, SendOrder
  <2> QED
    BY <1>6, <2>1 DEF InOrder, Pushed, Gone
<1>7. \/ PushRequest \/ Transmit \/ TakeRequest \/ Send \/ SendSync
      \/ UNCHANGED <<sequenceIndex, sendPacketQueue, sending, taken>>
  BY DEF Next, vars, sendVars, SendSyncReturns, HandlerThread, ReadRequest, ReadResponse,
         HandleResponse, HandleNotify, SendThread, Receive, ReceiveFails, Answer, ServerNotify,
         LinkLost
<1> QED
  BY <1>2, <1>3, <1>4, <1>5, <1>6, <1>7

-----------------------------------------------------------------------------
(* Only the packets of a step that touches a stream can disturb InFlight. *)
LEMMA FlightStep ==
  ASSUME InOrder, InFlight, [Next]_vars PROVE InFlight'
<1> DEFINE S == toServer
           F == fromServer
<1>1. Gone \in Nat /\ Gone' \in Nat /\ Gone' >= Gone
  BY CountsStep, Counts DEF InOrder
<1>2. /\ S \in Seq(Nat) /\ DOMAIN S = 1 .. Len(S) /\ Len(S) \in Nat
      /\ F \in Seq(Nat) /\ DOMAIN F = 1 .. Len(F) /\ Len(F) \in Nat
  BY DEF InFlight
<1>3. 1 .. Gone \subseteq 1 .. Gone'
  BY <1>1
<1>4. CASE UNCHANGED <<toServer, fromServer, arrived>>
  BY <1>3, <1>4 DEF InFlight
<1>5. CASE Transmit /\ toServer' = Append(toServer, taken)
  <2>1. UNCHANGED <<fromServer, arrived>>
    BY <1>5 DEF Transmit
  <2>2. taken = Gone + 1 /\ Gone' = Gone + 1
    BY <1>5, CountsStep
  <2>3. taken \in 1 .. Gone' /\ taken \notin 1 .. Gone /\ taken \in Nat
    BY <1>1, <2>2
  <2>4. /\ S' \in Seq(Nat) /\ DOMAIN S' = 1 .. Len(S) + 1 /\ S'[Len(S) + 1] = taken
        /\ \A i \in DOMAIN S : S'[i] = S[i]
    BY <1>2, <1>5, <2>3
  <2>5. \A i \in DOMAIN S' : i = Len(S) + 1 \/ i \in DOMAIN S
    BY <1>2, <2>4
  <2>6. \A i \in DOMAIN S' : S'[i] = taken \/ (i \in DOMAIN S /\ S'[i] = S[i])
    BY <2>4, <2>5
  <2>7. \A i \in DOMAIN S : S[i] # taken
    BY <2>3 DEF InFlight
  <2>8. \A i \in DOMAIN S' : S'[i] \in 1 .. Gone' /\ S'[i] \notin arrived
    BY <1>3, <2>3, <2>6 DEF InFlight
  <2>9. \A i, j \in DOMAIN S' : S'[i] = S'[j] => i = j
    <3> SUFFICES ASSUME NEW i \in DOMAIN S', NEW j \in DOMAIN S', S'[i] = S'[j] PROVE i = j
      OBVIOUS
    <3>1. CASE i \in DOMAIN S /\ j \in DOMAIN S
      BY <2>4, <3>1 DEF InFlight
    <3>2. CASE i = Len(S) + 1
      BY <2>4, <2>5, <2>7, <3>2
    <3>3. CASE j = Len(S) + 1
      BY <2>4, <2>5, <2>7, <3>3
    <3> QED
      BY <2>5, <3>1, <3>2, <3>3
  <2>10. \A i \in DOMAIN F : F[i] # 0 =>
           F[i] \in 1 .. Gone' /\ \A j \in DOMAIN S' : S'[j] # F[i]
    BY <1>3, <2>3, <2>6 DEF InFlight
  <2>11. arrived \subseteq 1 .. Gone'
    BY <1>3 DEF InFlight
  <2> QED
    BY <2>1, <2>4, <2>8, <2>9, <2>10, <2>11 DEF InFlight
<1>6. ASSUME Gone' = Gone, S # <<>>, S' = Tail(S), F' = Append(F, Head(S)), UNCHANGED arrived
      PROVE  InFlight'
  <2>1. /\ S' \in Seq(Nat) /\ DOMAIN S' = 1 .. Len(S) - 1 /\ 1 \in DOMAIN S /\ Head(S) = S[1]
        /\ \A i \in 1 .. Len(S) - 1 : S'[i] = S[i + 1]
    BY <1>2, <1>6
  <2>2. \A i \in DOMAIN S' : i + 1 \in DOMAIN S /\ i + 1 # 1 /\ S'[i] = S[i + 1]
    BY <1>2, <2>1
  <2>3. S[1] \in 1 .. Gone /\ S[1] \notin arrived /\ S[1] \in Nat /\ S[1] # 0
    <3>1. 1 \in DOMAIN S
      BY <2>1
    <3>2. S[1] \in 1 .. Gone /\ S[1] \notin arrived
      BY <3>1 DEF InFlight
    <3> QED
      BY <1>1, <3>2
  <2>4. /\ F' \in Seq(Nat) /\ DOMAIN F' = 1 .. Len(F) + 1 /\ F'[Len(F) + 1] = S[1]
        /\ \A i \in 1 .. Len(F) : F'[i] = F[i]
    BY <1>2, <1>6, <2>1, <2>3
  <2>5. \A i \in DOMAIN F' : i = Len(F) + 1 \/ (i \in DOMAIN F /\ F'[i] = F[i])
    BY <1>2, <2>4
  <2>6. \A i \in DOMAIN S' : S'[i] \in 1 .. Gone /\ S'[i] \notin arrived /\ S'[i] # S[1]
    BY <2>1, <2>2 DEF InFlight
  <2>7. \A i, j \in DOMAIN S' : S'[i] = S'[j] => i = j
    <3> SUFFICES ASSUME NEW i \in DOMAIN S', NEW j \in DOMAIN S', S'[i] = S'[j] PROVE i = j
      OBVIOUS
    <3>1. i + 1 = j + 1
      BY <2>2 DEF InFlight
    <3> QED
      BY <1>2, <2>1, <3>1
  <2>8. \A i \in DOMAIN F : F[i] # S[1]
    <3>1. 1 \in DOMAIN S /\ S[1] # 0
      BY <2>1, <2>3
    <3>2. \A i \in DOMAIN F : F[i] # 0 => \A j \in DOMAIN S : S[j] # F[i]
      BY DEF InFlight
    <3> QED
      BY <3>1, <3>2, Zenon
  <2>9. ASSUME NEW i \in DOMAIN F', F'[i] # 0
        PROVE  /\ F'[i] \in 1 .. Gone /\ F'[i] \notin arrived
               /\ \A j \in DOMAIN S' : S'[j] # F'[i]
               /\ \A j \in DOMAIN F' : F'[j] = F'[i] => j = i
    <3>1. CASE i = Len(F) + 1
      BY <2>3, <2>4, <2>5, <2>6, <2>8, <3>1
    <3>2. CASE i \in DOMAIN F /\ F'[i] = F[i]
      <4>1. F[i] \in 1 .. Gone /\ F[i] \notin arrived /\ \A j \in DOMAIN S : S[j] # F[i]
        BY <2>9, <3>2 DEF InFlight
      <4>2. \A j \in DOMAIN F' : F'[j] = F[i] => j = i
        BY <2>4, <2>5, <2>8, <2>9, <3>2 DEF InFlight
      <4> QED
        BY <2>2, <3>2, <4>1, <4>2
    <3> QED
      BY <2>5, <3>1, <3>2
  <2> QED
    BY <1>6, <2>1, <2>4, <2>6, <2>7, <2>9 DEF InFlight
<1>7. ASSUME Gone' = Gone, F' = Append(F, 0), UNCHANGED <<toServer, arrived>>
      PROVE  InFlight'
  <2>1. /\ F' \in Seq(Nat) /\ DOMAIN F' = 1 .. Len(F) + 1 /\ F'[Len(F) + 1] = 0
        /\ \A i \in 1 .. Len(F) : F'[i] = F[i]
    BY <1>2, <1>7
  <2>2. \A i \in DOMAIN F' : F'[i] # 0 => i \in DOMAIN F /\ F'[i] = F[i]
    BY <1>2, <2>1
  <2> QED
    BY <1>7, <2>1, <2>2 DEF InFlight
<1>8. ASSUME Gone' = Gone, F # <<>>, F' = Tail(F), UNCHANGED toServer,
             arrived' = IF Head(F) = 0 THEN arrived ELSE arrived \union {Head(F)}
      PROVE  InFlight'
  <2>1. /\ F' \in Seq(Nat) /\ DOMAIN F' = 1 .. Len(F) - 1 /\ 1 \in DOMAIN F /\ Head(F) = F[1]
        /\ \A i \in 1 .. Len(F) - 1 : F'[i] = F[i + 1]
    BY <1>2, <1>8
  <2>2. \A i \in DOMAIN F' : i + 1 \in DOMAIN F /\ i + 1 # 1 /\ F'[i] = F[i + 1]
    BY <1>2, <2>1
  <2>3. \A n \in arrived' : n \in arrived \/ (n = F[1] /\ F[1] # 0)
    BY <1>8, <2>1
  <2>4. arrived' \subseteq 1 .. Gone
    BY <2>1, <2>3 DEF InFlight
  <2>5. \A i \in DOMAIN S : S[i] \notin arrived'
    BY <2>1, <2>3 DEF InFlight
  <2>6. ASSUME NEW i \in DOMAIN F', F'[i] # 0
        PROVE  /\ F'[i] \in 1 .. Gone /\ F'[i] \notin arrived'
               /\ \A j \in DOMAIN S : S[j] # F'[i]
               /\ \A j \in DOMAIN F' : F'[j] = F'[i] => j = i
    <3>1. /\ F'[i] \in 1 .. Gone /\ F'[i] \notin arrived
          /\ \A j \in DOMAIN S : S[j] # F'[i]
          /\ \A j \in DOMAIN F : F[j] = F'[i] => j = i + 1
      BY <2>2, <2>6 DEF InFlight
    <3>2. F'[i] # F[1]
      BY <2>1, <2>2, <3>1
    <3>3. ASSUME NEW j \in DOMAIN F', F'[j] = F'[i] PROVE j = i
      <4>1. j + 1 = i + 1
        BY <2>2, <3>1, <3>3
      <4> QED
        BY <1>2, <2>1, <4>1
    <3> QED
      BY <2>3, <3>1, <3>2, <3>3
  <2> QED
    BY <1>8, <2>1, <2>4, <2>5, <2>6 DEF InFlight
<1>9. CASE Answer
  <2>1. ~Transmit
    BY <1>2, <1>9 DEF Transmit, Answer, After, SendOrder, sendVars
  <2> QED
    BY <1>6, <1>9, <2>1, CountsStep DEF Answer
<1>10. CASE ServerNotify
  <2>1. ~Transmit
    BY <1>10 DEF Transmit, ServerNotify, After, SendOrder, sendVars
  <2> QED
    BY <1>7, <1>10, <2>1, CountsStep DEF ServerNotify
<1>11. CASE Receive
  <2>1. ~Transmit
    BY <1>11 DEF Transmit, Receive, After, SendOrder, sendVars
  <2>2. /\ F # <<>> /\ F' = Tail(F) /\ UNCHANGED toServer
        /\ arrived' = IF Head(F) = 0 THEN arrived ELSE arrived \union {Head(F)}
    BY <1>11 DEF Receive
  <2> QED
    BY <1>8, <2>1, <2>2, CountsStep
<1>12. \/ UNCHANGED <<toServer, fromServer, arrived>>
       \/ Transmit /\ toServer' = Append(toServer, taken)
       \/ Answer \/ ServerNotify \/ Receive
  BY DEF Next, vars, wireVars, Send, SendSync, SendSyncReturns, HandlerThread, ReadRequest,
         ReadResponse, HandleResponse, HandleNotify, SendThread, TakeRequest, PushRequest,
         Transmit, ReceiveFails, LinkLost
<1> QED
  BY <1>4, <1>5, <1>9, <1>10, <1>11, <1>12

-----------------------------------------------------------------------------
(* The top of a heap that is not empty is one of its entries. *)
LEMMA MaxFacts ==
  ASSUME NEW T, NEW n \in Nat, T \subseteq 1 .. n, T # {} PROVE Max(T) \in T
<1> DEFINE R == OpToRel(<, Nat)
           U == {n - x : x \in T}
<1>1. IsWellFoundedOn(R, Nat)
  BY NatLessThanWellFounded
<1>2. U \subseteq Nat /\ U # {}
  <2>1. \A x \in T : n - x \in Nat
    OBVIOUS
  <2> QED
    BY <2>1, Zenon
<1> HIDE DEF R, U
<1>3. PICK u \in U : \A y \in U : ~ (<<y, u>> \in R)
  BY <1>1, <1>2, WFMin
<1>4. PICK x \in T : u = n - x
  BY <1>3 DEF U
<1>5. ASSUME NEW y \in T PROVE x >= y
  <2>1. n - y \in U /\ n - y \in Nat /\ u \in Nat
    BY <1>2, <1>3 DEF U
  <2>2. ~ (<<n - y, u>> \in R)
    BY <1>3, <2>1
  <2>3. n - y < u => <<n - y, u>> \in R
    BY <2>1 DEF R, OpToRel
  <2>4. ~ (n - y < u) /\ x \in Nat /\ y \in Nat
    BY <2>2, <2>3
  <2> QED
    BY <1>4, <2>4
<1>6. \E z \in T : \A y \in T : z >= y
  BY <1>5
<1> QED
  BY <1>6, Zenon DEF Max

(* The heaps are finite, and responses are never more than requests. *)
LEMMA HeapFacts ==
  ASSUME InOrder, InFlight, Balanced
  PROVE  /\ IsFiniteSet(arrived) /\ IsFiniteSet(recvPackets) /\ IsFiniteSet(sendPackets)
         /\ Cardinality(arrived) \in Nat /\ Cardinality(recvPackets) \in Nat
         /\ Cardinality(sendPackets) \in Nat
         /\ Cardinality(recvPackets) <= Cardinality(sendPackets)
         /\ recvPackets # {} => sendPackets # {}
<1>1. Gone \in Nat /\ Pushed \in Nat /\ Gone <= Pushed
  BY Counts
<1>2. arrived \subseteq 1 .. Gone /\ recvPackets \subseteq arrived /\ sendPackets \subseteq 1 .. Pushed
  BY DEF InFlight, Balanced
<1>3. IsFiniteSet(1 .. Gone) /\ Cardinality(1 .. Gone) = Gone /\ IsFiniteSet(1 .. Pushed)
  BY <1>1, FS_Interval
<1>4. IsFiniteSet(arrived) /\ Cardinality(arrived) <= Gone /\ IsFiniteSet(sendPackets)
  BY <1>2, <1>3, FS_Subset
<1>5. IsFiniteSet(recvPackets)
  BY <1>2, <1>4, FS_Subset
<1>6. /\ Cardinality(arrived) \in Nat /\ Cardinality(recvPackets) \in Nat
      /\ Cardinality(sendPackets) \in Nat
  BY <1>4, <1>5, FS_CardinalityType
<1>7. Cardinality(arrived) - Cardinality(recvPackets) = Pushed - Cardinality(sendPackets)
  BY DEF Balanced
<1>8. Cardinality(recvPackets) <= Cardinality(sendPackets)
  BY <1>1, <1>4, <1>6, <1>7
<1>9. /\ Cardinality(recvPackets) = 0 <=> recvPackets = {}
      /\ Cardinality(sendPackets) = 0 <=> sendPackets = {}
  BY <1>4, <1>5, FS_EmptySet
<1> QED
  BY <1>4, <1>5, <1>6, <1>8, <1>9

LEMMA BalancedStep ==
  ASSUME InOrder, InFlight, Balanced, [Next]_vars PROVE Balanced'
<1>1. /\ Gone \in Nat /\ Pushed \in Nat /\ Gone <= Pushed
      /\ Pushed' = IF PushRequest THEN Pushed + 1 ELSE Pushed
      /\ PushRequest => taken = Pushed + 1
  BY Counts, CountsStep
<1>2. /\ IsFiniteSet(arrived) /\ IsFiniteSet(recvPackets) /\ IsFiniteSet(sendPackets)
      /\ Cardinality(arrived) \in Nat /\ Cardinality(recvPackets) \in Nat
      /\ Cardinality(sendPackets) \in Nat
      /\ recvPackets # {} => sendPackets # {}
  BY HeapFacts
<1>3. /\ recvPackets \subseteq arrived /\ sendPackets \subseteq 1 .. Pushed
      /\ Cardinality(arrived) - Cardinality(recvPackets) = Pushed - Cardinality(sendPackets)
  BY DEF Balanced
<1>4. CASE PushRequest
  <2>1. sendPackets' = sendPackets \union {taken} /\ UNCHANGED <<recvPackets, arrived, at>>
    BY <1>4 DEF PushRequest, gameVars
  <2>2. taken = Pushed + 1 /\ Pushed' = Pushed + 1
    BY <1>1, <1>4
  <2>3. taken \notin sendPackets /\ sendPackets' \subseteq 1 .. Pushed'
    BY <1>1, <1>3, <2>1, <2>2
  <2>4. Cardinality(sendPackets') = Cardinality(sendPackets) + 1
    BY <1>2, <2>1, <2>3, FS_AddElement
  <2>5. Cardinality(arrived) - Cardinality(recvPackets) = Pushed' - Cardinality(sendPackets')
    BY <1>1, <1>2, <1>3, <2>2, <2>4
  <2> QED
    BY <2>1, <2>3, <2>5 DEF Balanced
<1>5. CASE ~PushRequest
  <2>1. Pushed' = Pushed
    BY <1>1, <1>5
  <2>2. CASE HandleResponse
    <3>1. /\ sendPackets' = sendPackets \ {Max(sendPackets)}
          /\ recvPackets' = recvPackets \ {Max(recvPackets)}
          /\ at = "pop" /\ at' = "notify" /\ UNCHANGED arrived
      BY <2>2 DEF HandleResponse
    <3>2. recvPackets # {} /\ sendPackets # {}
      BY <1>2, <3>1 DEF Balanced
    <3>3. Max(sendPackets) \in sendPackets
      BY <1>1, <1>3, <3>2, MaxFacts
    <3>4. recvPackets \subseteq 1 .. Gone
      BY DEF Balanced, InFlight
    <3>5. Max(recvPackets) \in recvPackets
      BY <1>1, <3>2, <3>4, MaxFacts
    <3>6. /\ Cardinality(sendPackets') = Cardinality(sendPackets) - 1
          /\ Cardinality(recvPackets') = Cardinality(recvPackets) - 1
      BY <1>2, <3>1, <3>3, <3>5, FS_RemoveElement
    <3>7. Cardinality(arrived') - Cardinality(recvPackets') = Pushed' - Cardinality(sendPackets')
      BY <1>1, <1>2, <1>3, <2>1, <3>1, <3>6
    <3>8. recvPackets' \subseteq arrived' /\ sendPackets' \subseteq 1 .. Pushed'
      BY <1>3, <2>1, <3>1
    <3> QED
      BY <3>1, <3>7, <3>8 DEF Balanced
  <2>3. CASE Receive
    <3>1. UNCHANGED <<sendPackets, at>>
      BY <2>3 DEF Receive, gameVars
    <3>2. CASE Head(fromServer) = 0
      <4>1. UNCHANGED <<recvPackets, arrived>>
        BY <2>3, <3>2 DEF Receive
      <4> QED
        BY <2>1, <3>1, <4>1 DEF Balanced
    <3>3. CASE Head(fromServer) # 0
      <4> DEFINE h == Head(fromServer)
      <4>1. recvPackets' = recvPackets \union {h} /\ arrived' = arrived \union {h}
        BY <2>3, <3>3 DEF Receive
      <4>2. h = fromServer[1] /\ 1 \in DOMAIN fromServer
        BY <2>3 DEF Receive, InFlight
      <4>3. h \notin arrived
        BY <3>3, <4>2 DEF InFlight
      <4> HIDE DEF h
      <4>4. h \notin recvPackets
        BY <1>3, <4>3
      <4>5. /\ Cardinality(recvPackets') = Cardinality(recvPackets) + 1
            /\ Cardinality(arrived') = Cardinality(arrived) + 1
        BY <1>2, <4>1, <4>3, <4>4, FS_AddElement
      <4>6. Cardinality(arrived') - Cardinality(recvPackets') = Pushed' - Cardinality(sendPackets')
        BY <1>1, <1>2, <1>3, <2>1, <3>1, <4>5
      <4>7. recvPackets' \subseteq arrived' /\ sendPackets' \subseteq 1 .. Pushed' /\ recvPackets' # {}
        BY <1>3, <2>1, <3>1, <4>1
      <4> QED
        BY <4>6, <4>7 DEF Balanced
    <3> QED
      BY <3>2, <3>3
  <2>4. CASE UNCHANGED <<heaps, arrived>> /\ (at' = at \/ at' = "idle" \/ at' = "notify" \/ recvPackets # {})
    <3>1. at' \in {"response", "pop"} => at \in {"response", "pop"} \/ recvPackets # {}
      BY <2>4
    <3> QED
      BY <2>1, <2>4, <3>1 DEF Balanced, heaps
  <2>5. \/ HandleResponse \/ Receive
        \/ UNCHANGED <<heaps, arrived>> /\ (at' = at \/ at' = "idle" \/ at' = "notify" \/ recvPackets # {})
    <3>1. CASE ReadRequest
      BY <3>1 DEF ReadRequest
    <3>2. CASE ReadResponse
      <4>1. recvPackets # {}
        BY <3>2 DEF ReadResponse, Balanced
      <4> QED
        BY <3>2, <4>1 DEF ReadResponse
    <3>3. CASE HandleNotify
      BY <3>3 DEF HandleNotify
    <3>4. CASE SendThread
      BY <1>5, <3>4 DEF SendThread, TakeRequest, Transmit, gameVars
    <3>5. CASE Send \/ SendSync \/ SendSyncReturns
      BY <3>5 DEF Send, SendSync, SendSyncReturns, gameVars
    <3>6. CASE ReceiveFails \/ Answer \/ ServerNotify \/ LinkLost
      BY <3>6 DEF ReceiveFails, Answer, ServerNotify, LinkLost, gameVars
    <3>7. CASE UNCHANGED vars
      BY <3>7 DEF vars, gameVars
    <3> QED
      BY <3>1, <3>2, <3>3, <3>4, <3>5, <3>6, <3>7 DEF Next, HandlerThread
  <2> QED
    BY <2>2, <2>3, <2>4, <2>5
<1> QED
  BY <1>4, <1>5

LEMMA InitIInv == Init => IInv
<1> SUFFICES ASSUME Init PROVE IInv
  OBVIOUS
<1>1. InOrder /\ Gone = 0 /\ Pushed = 0
  <2>1. sequenceIndex = 0 /\ Len(sendPacketQueue) = 0 /\ sending = "idle"
    BY DEF Init
  <2>2. Gone = 0 /\ Pushed = 0
    BY <2>1 DEF Gone, Pushed
  <2> QED
    BY <2>1, <2>2 DEF InOrder, Init
<1>2. InFlight
  BY <1>1 DEF Init, InFlight
<1>3. Cardinality({}) = 0
  BY FS_EmptySet
<1>4. Balanced
  BY <1>1, <1>3 DEF Init, Balanced
<1> QED
  BY <1>1, <1>2, <1>4 DEF IInv

(* With any number of requests and notifications under way, HandlerThread  *)
(* finds a request in sendPackets whenever there is a response, so top()   *)
(* and pop() are never called on an empty heap, although the pops may take *)
(* other entries than the ones that were compared (RequestForResponse).    *)
THEOREM NoEmptyHeapRead == Spec => []RequestForResponse
<1>1. IInv /\ [Next]_vars => IInv'
  BY CountsStep, FlightStep, BalancedStep DEF IInv
<1>2. IInv => RequestForResponse
  BY HeapFacts DEF IInv, RequestForResponse
<1> QED
  BY <1>1, <1>2, InitIInv, PTL DEF Spec
-----------------------------------------------------------------------------
(* The notifications that wait and those in the stream were all sent. *)
Zeros == {i \in DOMAIN fromServer : fromServer[i] = 0}

Notices ==
  /\ notified \in 0 .. MaxNotify
  /\ notifyPackets \in Nat
  /\ notifyPackets + Cardinality(Zeros) <= notified

(* The numbers HandlerThread and SendThread hold are those of requests. *)
Ranges ==
  /\ link \in BOOLEAN /\ isConnect \in BOOLEAN /\ isRun \in BOOLEAN
  /\ needSyncPacket \in BOOLEAN
  /\ sequenceIndex <= MaxRequests
  /\ needSyncSequnce \in 0 .. MaxRequests /\ syncPacket \in 0 .. MaxRequests
  /\ awaited \in 0 .. MaxRequests /\ top \in 0 .. MaxRequests /\ taken \in 0 .. MaxRequests
  /\ handled \subseteq Request
  /\ at \in {"idle", "response", "pop", "notify"}
  /\ at \in {"response", "pop"} => top \in Request

TInv == IInv /\ Notices /\ Ranges

(* A map without collisions into a finite set. *)
LEMMA NoMore ==
  ASSUME NEW S, NEW T, IsFiniteSet(T), NEW f \in [S -> T],
         \A x, y \in S : f[x] = f[y] => x = y
  PROVE  IsFiniteSet(S) /\ Cardinality(S) <= Cardinality(T)
<1>1. f \in Injection(S, T)
  BY DEF Injection, IsInjective
<1> QED
  BY <1>1, FS_Injection

LEMMA ZerosFinite ==
  ASSUME InFlight PROVE IsFiniteSet(Zeros) /\ Cardinality(Zeros) \in Nat
<1>1. DOMAIN fromServer = 1 .. Len(fromServer) /\ Len(fromServer) \in Nat
  BY DEF InFlight
<1>2. IsFiniteSet(1 .. Len(fromServer))
  BY <1>1, FS_Interval
<1>3. Zeros \subseteq 1 .. Len(fromServer)
  BY <1>1 DEF Zeros
<1>4. IsFiniteSet(Zeros)
  BY <1>2, <1>3, FS_Subset
<1> QED
  BY <1>4, FS_CardinalityType

LEMMA NoticesStep ==
  ASSUME InOrder, InFlight, Notices, [Next]_vars PROVE Notices'
<1> DEFINE F == fromServer
<1>1. F \in Seq(Nat) /\ DOMAIN F = 1 .. Len(F) /\ Len(F) \in Nat
  BY DEF InFlight
<1>2. IsFiniteSet(Zeros) /\ Cardinality(Zeros) \in Nat
  BY ZerosFinite
<1>3. /\ notified \in Nat /\ notified <= MaxNotify /\ notifyPackets \in Nat /\ MaxNotify \in Nat
      /\ notifyPackets + Cardinality(Zeros) <= notified
  BY BoundAssumption DEF Notices
<1>4. ASSUME UNCHANGED <<fromServer, notified>>, notifyPackets' \in Nat,
             notifyPackets' <= notifyPackets
      PROVE  Notices'
  <2>1. Zeros' = Zeros
    BY <1>4 DEF Zeros
  <2> QED
    BY <1>2, <1>3, <1>4, <2>1 DEF Notices
<1>5. CASE HandleNotify
  <2>1. UNCHANGED <<fromServer, notified>> /\ notifyPackets' = NotifyLeft
    BY <1>5 DEF HandleNotify, wireVars
  <2> QED
    BY <1>3, <1>4, <2>1 DEF NotifyLeft
<1>6. CASE ServerNotify
  <2>1. /\ notified' = notified + 1 /\ notified < MaxNotify /\ F' = Append(F, 0)
        /\ notifyPackets' = notifyPackets
    BY <1>6 DEF ServerNotify
  <2>2. /\ DOMAIN F' = 1 .. Len(F) + 1 /\ F'[Len(F) + 1] = 0
        /\ \A i \in 1 .. Len(F) : F'[i] = F[i]
    BY <1>1, <2>1
  <2>3. Zeros' = Zeros \union {Len(F) + 1} /\ Len(F) + 1 \notin Zeros
    BY <1>1, <2>2 DEF Zeros
  <2>4. Cardinality(Zeros') = Cardinality(Zeros) + 1
    BY <1>2, <2>3, FS_AddElement
  <2> QED
    BY <1>2, <1>3, <2>1, <2>4 DEF Notices
<1>7. CASE Answer
  <2>1. /\ F' = Append(F, Head(toServer)) /\ toServer # <<>>
        /\ UNCHANGED <<notified, notifyPackets>>
    BY <1>7 DEF Answer
  <2>2. toServer \in Seq(Nat) /\ 1 \in DOMAIN toServer /\ Head(toServer) = toServer[1]
    BY <2>1 DEF InFlight
  <2>3. Head(toServer) \in 1 .. Gone
    BY <2>2 DEF InFlight
  <2>4. Head(toServer) # 0
    BY <2>3, Counts
  <2>5. /\ DOMAIN F' = 1 .. Len(F) + 1 /\ F'[Len(F) + 1] # 0
        /\ \A i \in 1 .. Len(F) : F'[i] = F[i]
    BY <1>1, <2>1, <2>4
  <2>6. Zeros' = Zeros
    BY <1>1, <2>5 DEF Zeros
  <2> QED
    BY <2>1, <2>6 DEF Notices
<1>8. CASE Receive
  <2>1. /\ F # <<>> /\ F' = Tail(F) /\ notified' = notified
        /\ notifyPackets' = IF Head(F) = 0 THEN notifyPackets + 1 ELSE notifyPackets
    BY <1>8 DEF Receive
  <2>2. /\ DOMAIN F' = 1 .. Len(F) - 1 /\ 1 \in DOMAIN F /\ Head(F) = F[1]
        /\ \A i \in 1 .. Len(F) - 1 : F'[i] = F[i + 1]
    BY <1>1, <2>1
  <2>3. \A i \in DOMAIN F' : i + 1 \in DOMAIN F /\ i + 1 # 1 /\ i \in Nat
    BY <1>1, <2>2
  <2> DEFINE f == [i \in Zeros' |-> i + 1]
  <2>4. f \in [Zeros' -> Zeros \ {1}]
    <3>1. \A i \in Zeros' : i \in DOMAIN F' /\ F'[i] = 0
      BY DEF Zeros
    <3>2. \A i \in Zeros' : i + 1 \in DOMAIN F /\ F[i + 1] = 0 /\ i + 1 # 1
      BY <2>2, <2>3, <3>1
    <3>3. \A i \in Zeros' : i + 1 \in Zeros \ {1}
      BY <3>2 DEF Zeros
    <3> QED
      BY <3>3
  <2>5. \A x, y \in Zeros' : f[x] = f[y] => x = y
    <3>1. \A x \in Zeros' : x \in Nat
      BY <2>3 DEF Zeros
    <3> QED
      BY <3>1
  <2>6. IsFiniteSet(Zeros \ {1})
    BY <1>2, FS_RemoveElement
  <2> HIDE DEF f
  <2>7. IsFiniteSet(Zeros') /\ Cardinality(Zeros') <= Cardinality(Zeros \ {1})
    BY <2>4, <2>5, <2>6, NoMore
  <2>8. Cardinality(Zeros \ {1}) = IF Head(F) = 0 THEN Cardinality(Zeros) - 1 ELSE Cardinality(Zeros)
    <3>1. 1 \in Zeros <=> Head(F) = 0
      BY <2>2 DEF Zeros
    <3> QED
      BY <1>2, <3>1, FS_RemoveElement
  <2>9. Cardinality(Zeros') \in Nat
    BY <2>7, FS_CardinalityType
  <2> QED
    BY <1>2, <1>3, <2>1, <2>7, <2>8, <2>9 DEF Notices
<1>9. \/ HandleNotify \/ ServerNotify \/ Answer \/ Receive
      \/ UNCHANGED <<fromServer, notified, notifyPackets>>
  BY DEF Next, vars, wireVars, Send, SendSync, SendSyncReturns, HandlerThread, ReadRequest,
         ReadResponse, HandleResponse, SendThread, TakeRequest, PushRequest, Transmit,
         ReceiveFails, LinkLost
<1> QED
  BY <1>3, <1>4, <1>5, <1>6, <1>7, <1>8, <1>9

(* The requests SendThread has taken bear numbers up to sequenceIndex. *)
LEMMA NumbersInRange ==
  ASSUME InOrder, sequenceIndex <= MaxRequests
  PROVE  /\ 1 .. Pushed \subseteq Request /\ 1 .. Gone \subseteq Request
         /\ \A i \in DOMAIN sendPacketQueue : sendPacketQueue[i] \in Request
<1>1. /\ sequenceIndex \in Nat /\ sendPacketQueue \in Seq(Nat) /\ Len(sendPacketQueue) \in Nat
      /\ Gone \in Nat
  BY DEF InOrder
<1>2. Pushed <= sequenceIndex /\ Gone <= sequenceIndex /\ Pushed \in Nat
  BY <1>1, Counts DEF Pushed, Gone, InOrder
<1>3. ASSUME NEW i \in DOMAIN sendPacketQueue PROVE sendPacketQueue[i] \in Request
  <2>1. i \in 1 .. Len(sendPacketQueue)
    BY <1>1
  <2>2. sendPacketQueue[i] = sequenceIndex - Len(sendPacketQueue) + i
    BY DEF InOrder
  <2>3. sequenceIndex - Len(sendPacketQueue) \in Nat
    BY <1>1 DEF Gone
  <2> QED
    BY <1>1, <2>1, <2>2, <2>3, BoundAssumption DEF Request
<1> QED
  BY <1>1, <1>2, <1>3, BoundAssumption DEF Request

LEMMA RangesStep ==
  ASSUME InOrder, InFlight, Balanced, Ranges, [Next]_vars PROVE Ranges'
<1>1. /\ 1 .. Pushed \subseteq Request
      /\ \A i \in DOMAIN sendPacketQueue : sendPacketQueue[i] \in Request
      /\ sequenceIndex \in Nat /\ sequenceIndex <= MaxRequests /\ MaxRequests \in Nat
      /\ Request \subseteq 0 .. MaxRequests
  BY NumbersInRange, BoundAssumption DEF Ranges, InOrder, Request
<1>2. CASE Send \/ SendSync
  <2>1. /\ sequenceIndex' = sequenceIndex + 1 /\ sequenceIndex' <= MaxRequests
        /\ sequenceIndex + 1 \in 0 .. MaxRequests
    BY <1>1, <1>2 DEF Send, SendSync
  <2>2. /\ needSyncSequnce' \in {needSyncSequnce, sequenceIndex + 1}
        /\ awaited' \in {awaited, sequenceIndex + 1} /\ needSyncPacket' \in {needSyncPacket, TRUE}
        /\ UNCHANGED <<link, isConnect, isRun, syncPacket, at, top, taken, handled>>
    BY <1>2 DEF Send, SendSync, runVars, syncVars, gameVars, sendVars
  <2> QED
    BY <2>1, <2>2 DEF Ranges
<1>3. CASE SendSyncReturns
  BY <1>1, <1>3 DEF SendSyncReturns, Ranges, runVars, syncVars, gameVars, sendVars
<1>4. CASE ReadRequest
  <2>1. sendPackets \subseteq 1 .. Pushed /\ sendPackets # {} /\ Pushed \in Nat
    BY <1>4, Counts DEF ReadRequest, Balanced
  <2>2. Max(sendPackets) \in sendPackets
    BY <2>1, MaxFacts
  <2>3. top' \in Request /\ at' = "response"
    BY <1>1, <1>4, <2>1, <2>2 DEF ReadRequest
  <2>4. UNCHANGED <<runVars, sequenceIndex, syncVars, handled, sendVars>>
    BY <1>4 DEF ReadRequest
  <2> QED
    BY <1>1, <2>3, <2>4 DEF Ranges, runVars, syncVars, sendVars
<1>5. CASE ReadResponse
  BY <1>5 DEF ReadResponse, AfterMismatch, Ranges, runVars, syncVars, sendVars
<1>6. CASE HandleResponse
  <2>1. /\ at = "pop" /\ top \in Request
    BY <1>6 DEF HandleResponse, Ranges
  <2>2. /\ handled' = handled \union {top} /\ syncPacket' \in {top, syncPacket}
        /\ needSyncPacket' \in BOOLEAN /\ at' = "notify"
        /\ UNCHANGED <<runVars, sequenceIndex, needSyncSequnce, awaited, top, sendVars>>
    BY <1>6 DEF HandleResponse
  <2> QED
    BY <2>1, <2>2 DEF Ranges, runVars, sendVars
<1>7. CASE HandleNotify
  BY <1>7 DEF HandleNotify, Ranges, runVars, syncVars, sendVars
<1>8. CASE TakeRequest
  <2>1. sendPacketQueue \in Seq(Nat) /\ sendPacketQueue # <<>> /\ taken' = Head(sendPacketQueue)
    BY <1>8 DEF TakeRequest, InOrder
  <2>2. 1 \in DOMAIN sendPacketQueue /\ Head(sendPacketQueue) = sendPacketQueue[1]
    BY <2>1
  <2>3. taken' \in 0 .. MaxRequests
    BY <1>1, <2>1, <2>2
  <2> QED
    BY <1>8, <2>3 DEF TakeRequest, Ranges, runVars, syncVars, gameVars
<1>9. CASE Transmit \/ ReceiveFails \/ LinkLost
  <2>1. UNCHANGED <<sequenceIndex, syncVars, gameVars, taken>>
    BY <1>9 DEF Transmit, ReceiveFails, LinkLost, sendVars
  <2>2. link' \in {link, FALSE} /\ isConnect' \in {isConnect, FALSE} /\ isRun' \in {isRun, FALSE}
    BY <1>9 DEF Transmit, ReceiveFails, LinkLost
  <2> QED
    BY <2>1, <2>2 DEF Ranges, syncVars, gameVars
<1>10. CASE UNCHANGED <<runVars, sequenceIndex, syncVars, gameVars, taken>>
  BY <1>10 DEF Ranges, runVars, syncVars, gameVars
<1>11. CASE PushRequest \/ Receive \/ Answer \/ ServerNotify \/ UNCHANGED vars
  BY <1>10, <1>11 DEF PushRequest, Receive, Answer, ServerNotify, vars, sendVars
<1> QED
  BY <1>2, <1>3, <1>4, <1>5, <1>6, <1>7, <1>8, <1>9, <1>11 DEF Next, HandlerThread, SendThread

LEMMA InitTInv == Init => TInv
<1> SUFFICES ASSUME Init PROVE TInv
  OBVIOUS
<1>1. IInv
  BY InitIInv
<1>2. Notices
  <2>1. Zeros = {}
    BY DEF Init, Zeros
  <2>2. Cardinality(Zeros) = 0
    BY <2>1, FS_EmptySet
  <2> QED
    BY <2>2, BoundAssumption DEF Init, Notices
<1>3. Ranges
  <2>1. 0 \in 0 .. MaxRequests /\ 0 <= MaxRequests
    BY BoundAssumption
  <2>2. /\ link \in BOOLEAN /\ isConnect \in BOOLEAN /\ isRun \in BOOLEAN
        /\ needSyncPacket \in BOOLEAN
    BY Zenon DEF Init
  <2>3. at = "idle" /\ handled \subseteq Request
    BY DEF Init
  <2>4. /\ sequenceIndex <= MaxRequests
        /\ needSyncSequnce \in 0 .. MaxRequests /\ syncPacket \in 0 .. MaxRequests
        /\ awaited \in 0 .. MaxRequests /\ top \in 0 .. MaxRequests
        /\ taken \in 0 .. MaxRequests
    BY <2>1, Zenon DEF Init
  <2> QED
    BY <2>2, <2>3, <2>4 DEF Ranges
<1> QED
  BY <1>1, <1>2, <1>3 DEF TInv

(* Every number in the queues, the heaps and the two streams is that of a  *)
(* request that was made, and no more notifications wait than were sent    *)
(* (TypeOK), for any number of requests and notifications.                 *)
THEOREM TypeCorrect == Spec => []TypeOK
<1>1. TInv /\ [Next]_vars => TInv'
  BY CountsStep, FlightStep, BalancedStep, NoticesStep, RangesStep DEF TInv, IInv
<1>2. ASSUME TInv PROVE TypeOK
  <2>1. /\ 1 .. Pushed \subseteq Request /\ 1 .. Gone \subseteq Request
        /\ \A i \in DOMAIN sendPacketQueue : sendPacketQueue[i] \in Request
    BY <1>2, NumbersInRange DEF TInv, IInv, Ranges
  <2>2. sendPacketQueue \in Seq(Nat) /\ toServer \in Seq(Nat) /\ fromServer \in Seq(Nat)
    BY <1>2 DEF TInv, IInv, InOrder, InFlight
  <2>3. sendPacketQueue \in Seq(Request)
    BY <2>1, <2>2
  <2>4. \A i \in DOMAIN toServer : toServer[i] \in Request
    BY <1>2, <2>1 DEF TInv, IInv, InFlight
  <2>5. toServer \in Seq(Request)
    BY <2>2, <2>4
  <2>6. \A i \in DOMAIN fromServer : fromServer[i] \in 0 .. MaxRequests
    <3>1. \A i \in DOMAIN fromServer : fromServer[i] = 0 \/ fromServer[i] \in Request
      BY <1>2, <2>1 DEF TInv, IInv, InFlight
    <3> QED
      BY <3>1, BoundAssumption DEF Request
  <2>7. fromServer \in Seq(0 .. MaxRequests)
    <3> DEFINE R == 0 .. MaxRequests
    <3>1. \A i \in DOMAIN fromServer : fromServer[i] \in R
      BY <2>6
    <3> HIDE DEF R
    <3>2. fromServer \in Seq(R)
      BY <2>2, <3>1
    <3> QED
      BY <3>2 DEF R
  <2>8. {sendPackets, recvPackets, handled, arrived} \subseteq SUBSET Request
    <3>1. sendPackets \subseteq Request /\ arrived \subseteq Request /\ recvPackets \subseteq Request
      BY <1>2, <2>1 DEF TInv, IInv, Balanced, InFlight
    <3> QED
      BY <1>2, <3>1 DEF TInv, Ranges
  <2>9. {notifyPackets, notified} \subseteq 0 .. MaxNotify
    <3>1. Cardinality(Zeros) \in Nat
      BY <1>2, ZerosFinite DEF TInv, IInv
    <3> QED
      BY <1>2, <3>1, BoundAssumption DEF TInv, Notices
  <2>10. /\ sequenceIndex \in 0 .. MaxRequests
         /\ sending \in {"idle", "push", "send"}
    BY <1>2, BoundAssumption DEF TInv, IInv, InOrder, Ranges
  <2> QED
    BY <1>2, <2>3, <2>5, <2>7, <2>8, <2>9, <2>10 DEF TypeOK, TInv, Ranges
<1> QED
  BY <1>1, <1>2, InitTInv, PTL DEF Spec
=============================================================================
