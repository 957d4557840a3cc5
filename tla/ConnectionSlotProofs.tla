------------------------ MODULE ConnectionSlotProofs ------------------------
(***************************************************************************)
(* Theorems about ConnectionSlot for any number of slots, workers,         *)
(* connections and packets: slots, sessions and players stay bound to each *)
(* other, the send queues implement the safety part of SendChannel, and a  *)
(* slot that is not disturbed is listened to once and mixes no clients up. *)
(***************************************************************************)
EXTENDS ConnectionSlot, WellFoundedInduction, FiniteSetTheorems, TLAPS

SessionRec == [player : Nat, client : 0 .. NumSlots]
Entry      == Nat \union {Null}

Tables ==
  /\ sessionIndex \in [Slots -> Nat]
  /\ sessions \in Seq(SessionRec)
  /\ players \in Seq(Entry)
  /\ pc \in [Workers -> {"idle", "connect", "read"}]
  /\ at \in [Workers -> 0 .. NumSlots]
  /\ posting \in 0 .. NumSlots
  /\ \A e \in accepting : e[1] \in Slots

(* A worker that is about to call OnConnect is alone, and its slot has no  *)
(* session yet: a second one would have been a race.                       *)
Connecting ==
  Running => \A w \in Workers : pc[w] = "connect" =>
    /\ at[w] \in Slots /\ sessionIndex[at[w]] = 0
    /\ \A v \in Workers : pc[v] = "connect" => v = w

TablesInv == Tables /\ Connecting /\ SessionsMatch

(* The sends that are posted: one for a slot, for the packet at the front  *)
(* of its queue, and none after a failure, whose packet stays there.       *)
QueueInv ==
  /\ sendQueue \in [Slots -> Seq(Nat)]
  /\ submitted \in [Slots -> Nat]
  /\ delivered \in [Slots -> Seq(Nat)]
  /\ \A e \in sending :
       /\ e[1] \in Slots /\ sendQueue[e[1]] # <<>> /\ e[1] \notin mute
       /\ \A f \in sending : f[1] = e[1] => f = e
  /\ \A i \in mute : i \in Slots => sendQueue[i] # <<>>

(* Sessions that asked have been given out. *)
Asked ==
  /\ serving \in 0 .. Len(sessions)
  /\ requests \in Seq(0 .. Len(sessions))
  /\ \A w \in Workers : pc[w] = "read" => at[w] \in Slots

IInv == TablesInv /\ QueueInv /\ Asked

-----------------------------------------------------------------------------
(* A set of numbers that is not empty has a least one. *)
LEMMA LeastExists ==
  ASSUME NEW T, T \subseteq Nat, T # {} PROVE \E x \in T : \A y \in T : x <= y
<1> DEFINE R == OpToRel(<, Nat)
<1>1. IsWellFoundedOn(R, Nat)
  BY NatLessThanWellFounded
<1> HIDE DEF R
<1>2. PICK x \in T : \A y \in T : ~ (<<y, x>> \in R)
  BY <1>1, WFMin
<1>3. ASSUME NEW y \in T PROVE x <= y
  <2>1. x \in Nat /\ y \in Nat /\ <<y, x>> \notin R
    BY <1>2
  <2>2. y < x => <<y, x>> \in R
    BY <2>1 DEF R, OpToRel
  <2> QED
    BY <2>1, <2>2
<1> QED
  BY <1>3

(* First fit gives a free entry, or the place after the last one. *)
LEMMA FirstOrFacts ==
  ASSUME NEW T, T \subseteq Nat, NEW n
  PROVE  FirstOr(T, n) \in T \/ (T = {} /\ FirstOr(T, n) = n)
<1>1. CASE T = {}
  BY <1>1 DEF FirstOr
<1>2. CASE T # {}
  <2>1. \E x \in T : \A y \in T : x <= y
    BY <1>2, LeastExists
  <2>2. (CHOOSE k \in T : \A j \in T : k <= j) \in T
    BY <2>1, Zenon
  <2> QED
    BY <1>2, <2>2 DEF FirstOr
<1> QED
  BY <1>1, <1>2

(* A vector entry is written, or the vector grows by it. *)
LEMMA PutAtFacts ==
  ASSUME NEW S, NEW seq \in Seq(S), NEW n \in 1 .. Len(seq) + 1, NEW v \in S
  PROVE  /\ PutAt(seq, n, v) \in Seq(S)
         /\ n \in DOMAIN PutAt(seq, n, v) /\ PutAt(seq, n, v)[n] = v
         /\ \A k \in DOMAIN PutAt(seq, n, v) : k # n =>
              k \in DOMAIN seq /\ PutAt(seq, n, v)[k] = seq[k]
         /\ \A k \in DOMAIN seq :
              k \in DOMAIN PutAt(seq, n, v) /\ (k # n => PutAt(seq, n, v)[k] = seq[k])
         /\ Len(seq) <= Len(PutAt(seq, n, v))
<1> DEFINE m == IF n > Len(seq) THEN n ELSE Len(seq)
           new == [k \in 1 .. m |-> IF k = n THEN v ELSE seq[k]]
<1>1. m \in Nat /\ n \in 1 .. m /\ Len(seq) <= m /\ (\A k \in 1 .. m : k # n => k \in 1 .. Len(seq))
  OBVIOUS
<1>2. PutAt(seq, n, v) = new
  BY DEF PutAt
<1> HIDE DEF m
<1>3. \A k \in 1 .. m : new[k] \in S
  BY <1>1
<1>4. new \in Seq(S) /\ Len(new) = m /\ DOMAIN new = 1 .. m
  BY <1>1, <1>3
<1>5. new[n] = v /\ \A k \in 1 .. m : k # n => new[k] = seq[k]
  BY <1>1
<1>6. DOMAIN seq = 1 .. Len(seq)
  OBVIOUS
<1> HIDE DEF new
<1>7. \A k \in 1 .. Len(seq) : k \in 1 .. m
  BY <1>1
<1> QED
  BY <1>1, <1>2, <1>4, <1>5, <1>6, <1>7

(* What the steps that neither bind nor release a session leave alone. *)
LEMMA TablesKept ==
  ASSUME TablesInv, UNCHANGED <<sessionIndex, sessions, players, pc, at>>,
         Running, posting' \in 0 .. NumSlots, \A e \in accepting' : e[1] \in Slots
  PROVE  TablesInv'
<1>1. Tables'
  BY DEF TablesInv, Tables
<1>2. Connecting'
  BY DEF TablesInv, Connecting
<1>3. SessionsMatch'
  BY DEF TablesInv, SessionsMatch
<1> QED
  BY <1>1, <1>2, <1>3 DEF TablesInv

(* OnConnect binds a slot without a session to an entry nobody uses. *)
LEMMA ConnectKeeps ==
  ASSUME TablesInv, NEW w \in Workers, OnConnect(w) PROVE TablesInv'
<1> DEFINE i == at[w]
           p == FreePlayer
           k == FreeSession
           new == [player |-> p, client |-> i]
<1>1. /\ sessionIndex \in [Slots -> Nat] /\ sessions \in Seq(SessionRec) /\ players \in Seq(Entry)
      /\ SessionsMatch /\ Running /\ pc[w] = "connect"
      /\ i \in Slots /\ sessionIndex[i] = 0
      /\ \A v \in Workers : pc[v] = "connect" => v = w
  BY DEF TablesInv, Tables, Connecting, OnConnect
<1>2. p \in 1 .. Len(players) + 1 /\ (p \in DOMAIN players => players[p] = Null)
  <2> DEFINE T == {q \in DOMAIN players : players[q] = Null}
  <2>1. T \subseteq Nat /\ T \subseteq 1 .. Len(players) /\ DOMAIN players = 1 .. Len(players)
    BY <1>1
  <2>2. p \in T \/ (T = {} /\ p = Len(players) + 1)
    BY <2>1, FirstOrFacts DEF FreePlayer
  <2> QED
    BY <1>1, <2>1, <2>2
<1>3. k \in 1 .. Len(sessions) + 1 /\ (k \in DOMAIN sessions => sessions[k].client = 0)
  <2> DEFINE T == {q \in DOMAIN sessions : sessions[q].client = 0}
  <2>1. T \subseteq Nat /\ T \subseteq 1 .. Len(sessions) /\ DOMAIN sessions = 1 .. Len(sessions)
    BY <1>1
  <2>2. k \in T \/ (T = {} /\ k = Len(sessions) + 1)
    BY <2>1, FirstOrFacts DEF FreeSession
  <2> QED
    BY <1>1, <2>1, <2>2
<1>4. /\ players' = PutAt(players, p, k) /\ sessions' = PutAt(sessions, k, new)
      /\ sessionIndex' = [sessionIndex EXCEPT ![i] = k]
      /\ pc' = [pc EXCEPT ![w] = "read"]
      /\ UNCHANGED <<at, accepting, posting>>
  BY DEF OnConnect, kernVars
<1> HIDE DEF p, k, i
<1>5. k \in Nat \ {0} /\ p \in Nat /\ k \in Entry /\ new \in SessionRec
  BY <1>1, <1>2, <1>3, SlotAssumption DEF SessionRec, Slots, Entry
<1>6. new.player = p /\ new.client = i
  OBVIOUS
<1> HIDE DEF new
<1>7. /\ players' \in Seq(Entry) /\ p \in DOMAIN players' /\ players'[p] = k
      /\ \A q \in DOMAIN players : q \in DOMAIN players' /\ (q # p => players'[q] = players[q])
  <2>1. players \in Seq(Entry) /\ p \in 1 .. Len(players) + 1 /\ k \in Entry
    BY <1>1, <1>2, <1>5
  <2>2. /\ PutAt(players, p, k) \in Seq(Entry)
        /\ p \in DOMAIN PutAt(players, p, k) /\ PutAt(players, p, k)[p] = k
        /\ \A q \in DOMAIN players :
             q \in DOMAIN PutAt(players, p, k)
             /\ (q # p => PutAt(players, p, k)[q] = players[q])
    <3> DEFINE grown == PutAt(players, p, k)
    <3>1. /\ grown \in Seq(Entry) /\ p \in DOMAIN grown /\ grown[p] = k
          /\ \A q \in DOMAIN players : q \in DOMAIN grown /\ (q # p => grown[q] = players[q])
      BY <2>1, PutAtFacts
    <3> QED
      BY <3>1
  <2> QED
    BY <1>4, <2>2, Zenon
<1>8. /\ sessions' \in Seq(SessionRec) /\ k \in DOMAIN sessions' /\ sessions'[k] = new
      /\ \A q \in DOMAIN sessions' : q # k => q \in DOMAIN sessions /\ sessions'[q] = sessions[q]
      /\ \A q \in DOMAIN sessions :
           q \in DOMAIN sessions' /\ (q # k => sessions'[q] = sessions[q])
  BY <1>1, <1>3, <1>4, <1>5, PutAtFacts
<1>9. Tables'
  BY <1>1, <1>4, <1>5, <1>7, <1>8 DEF TablesInv, Tables
<1>10. Connecting'
  <2>1. ASSUME NEW v \in Workers, pc'[v] = "connect" PROVE FALSE
    BY <1>1, <1>4, <2>1 DEF TablesInv, Tables
  <2> QED
    BY <2>1 DEF Connecting
<1>11. SessionsMatch'
  <2>1. ASSUME NEW j \in Slots, sessionIndex'[j] # 0
        PROVE  sessionIndex'[j] \in DOMAIN sessions' /\ sessions'[sessionIndex'[j]].client = j
    <3>1. CASE j = i
      BY <1>1, <1>4, <1>6, <1>8, <3>1
    <3>2. CASE j # i
      <4>1. sessionIndex'[j] = sessionIndex[j]
        BY <1>1, <1>4, <3>2
      <4>2. sessionIndex[j] \in DOMAIN sessions /\ sessions[sessionIndex[j]].client = j
        BY <1>1, <2>1, <4>1 DEF SessionsMatch
      <4>3. sessionIndex[j] # k
        BY <1>3, <4>2 DEF Slots
      <4> QED
        BY <1>8, <4>1, <4>2, <4>3
    <3> QED
      BY <3>1, <3>2
  <2>2. ASSUME NEW q \in DOMAIN sessions', sessions'[q].client # 0
        PROVE  /\ sessionIndex'[sessions'[q].client] = q
               /\ sessions'[q].player \in DOMAIN players'
               /\ players'[sessions'[q].player] = q
    <3>1. CASE q = k
      BY <1>1, <1>4, <1>6, <1>7, <1>8, <3>1
    <3>2. CASE q # k
      <4>1. q \in DOMAIN sessions /\ sessions'[q] = sessions[q] /\ q \in Nat \ {0}
        BY <1>1, <1>8, <3>2
      <4>2. /\ sessionIndex[sessions[q].client] = q
            /\ sessions[q].player \in DOMAIN players /\ players[sessions[q].player] = q
        BY <1>1, <2>2, <4>1 DEF SessionsMatch
      <4>3. sessions[q].client # i /\ sessions[q].client \in Slots
        <5>1. sessions[q] \in SessionRec
          BY <1>1, <4>1
        <5> QED
          BY <1>1, <2>2, <4>1, <4>2, <5>1, SlotAssumption DEF SessionRec, Slots
      <4>4. sessions[q].player # p
        BY <1>2, <4>1, <4>2 DEF Null
      <4> QED
        BY <1>1, <1>4, <1>7, <4>1, <4>2, <4>3, <4>4
    <3> QED
      BY <3>1, <3>2
  <2> QED
    BY <2>1, <2>2 DEF SessionsMatch
<1> QED
  BY <1>9, <1>10, <1>11 DEF TablesInv

(* OnClose takes the slot out of its session and the session out of its    *)
(* player, and touches no other.                                           *)
LEMMA CloseKeeps ==
  ASSUME TablesInv, NEW i \in Slots, OnClose(i), Running,
         UNCHANGED <<pc, at>>, posting' \in 0 .. NumSlots, \A e \in accepting' : e[1] \in Slots
  PROVE  TablesInv'
<1> DEFINE k == sessionIndex[i]
           pl == sessions[k].player
           none == [player |-> 0, client |-> 0]
<1>1. /\ sessionIndex \in [Slots -> Nat] /\ sessions \in Seq(SessionRec) /\ players \in Seq(Entry)
      /\ SessionsMatch /\ Tables /\ Connecting
  BY DEF TablesInv, Tables
<1>2. CASE k = 0
  <2>1. UNCHANGED <<sessionIndex, sessions, players, pc, at>>
    BY <1>2 DEF OnClose, sessVars
  <2> QED
    BY <2>1, TablesKept
<1>3. CASE k # 0
  <2>1. /\ k \in DOMAIN sessions /\ sessions[k].client = i /\ k \in Nat
        /\ pl \in DOMAIN players /\ players[pl] = k
    BY <1>1, <1>3, SlotAssumption DEF SessionsMatch, Slots
  <2>2. pl \in Present
    BY <1>1, <2>1 DEF Present, Null
  <2>3. FindPlayer(Present \intersect {pl}) = pl
    <3>1. pl \in Nat /\ Present \intersect {pl} = {pl}
      BY <1>1, <2>1, <2>2
    <3>2. (CHOOSE p \in {pl} : \A q \in {pl} : p <= q) = pl
      BY <3>1
    <3> QED
      BY <3>1, <3>2 DEF FindPlayer
  <2>4. /\ sessionIndex' = [sessionIndex EXCEPT ![i] = 0]
        /\ sessions' = [sessions EXCEPT ![k] = none]
        /\ \/ players' = [players EXCEPT ![pl] = 0]
           \/ players' = [[players EXCEPT ![pl] = 0] EXCEPT ![pl] = Null]
    BY <1>3, <2>3 DEF OnClose
  <2>5. none \in SessionRec /\ none.client = 0
    BY SlotAssumption DEF SessionRec
  <2> HIDE DEF k, pl, none
  <2>6. /\ sessions' \in Seq(SessionRec) /\ DOMAIN sessions' = DOMAIN sessions
        /\ sessions'[k] = none /\ \A q \in DOMAIN sessions : q # k => sessions'[q] = sessions[q]
    BY <1>1, <2>1, <2>4, <2>5
  <2>7. Null \in Entry /\ 0 \in Entry
    BY DEF Entry
  <2>8. /\ players' \in Seq(Entry) /\ DOMAIN players' = DOMAIN players
        /\ \A q \in DOMAIN players : q # pl => players'[q] = players[q]
    <3>1. /\ [players EXCEPT ![pl] = 0] \in Seq(Entry)
          /\ DOMAIN [players EXCEPT ![pl] = 0] = DOMAIN players
      BY <1>1, <2>1, <2>7
    <3>2. CASE players' = [players EXCEPT ![pl] = 0]
      BY <1>1, <3>1, <3>2
    <3>3. CASE players' = [[players EXCEPT ![pl] = 0] EXCEPT ![pl] = Null]
      BY <1>1, <2>7, <3>1, <3>3
    <3> QED
      BY <2>4, <3>2, <3>3
  <2>9. sessionIndex' \in [Slots -> Nat] /\ sessionIndex'[i] = 0
        /\ \A j \in Slots : j # i => sessionIndex'[j] = sessionIndex[j]
    BY <1>1, <2>4
  <2>10. Tables'
    BY <1>1, <2>6, <2>8, <2>9 DEF Tables
  <2>11. Connecting'
    BY <1>1, <2>9 DEF Connecting
  <2>12. SessionsMatch'
    <3>1. ASSUME NEW j \in Slots, sessionIndex'[j] # 0
          PROVE  sessionIndex'[j] \in DOMAIN sessions' /\ sessions'[sessionIndex'[j]].client = j
      <4>1. j # i /\ sessionIndex'[j] = sessionIndex[j]
        BY <2>9, <3>1
      <4>2. sessionIndex[j] \in DOMAIN sessions /\ sessions[sessionIndex[j]].client = j
        BY <1>1, <3>1, <4>1 DEF SessionsMatch
      <4>3. sessionIndex[j] # k
        BY <2>1, <4>1, <4>2
      <4> QED
        BY <2>6, <4>1, <4>2, <4>3
    <3>2. ASSUME NEW q \in DOMAIN sessions', sessions'[q].client # 0
          PROVE  /\ sessionIndex'[sessions'[q].client] = q
                 /\ sessions'[q].player \in DOMAIN players'
                 /\ players'[sessions'[q].player] = q
      <4>1. q \in DOMAIN sessions /\ q # k /\ sessions'[q] = sessions[q]
        BY <2>5, <2>6, <3>2
      <4>2. /\ sessionIndex[sessions[q].client] = q
            /\ sessions[q].player \in DOMAIN players /\ players[sessions[q].player] = q
        BY <1>1, <3>2, <4>1 DEF SessionsMatch
      <4>3. sessions[q].client # i /\ sessions[q].client \in Slots
        <5>1. sessions[q] \in SessionRec
          BY <1>1, <4>1
        <5>2. sessions[q].client # i
          BY <4>1, <4>2 DEF k
        <5> QED
          BY <3>2, <4>1, <5>1, <5>2, SlotAssumption DEF SessionRec, Slots
      <4>4. sessions[q].player # pl
        BY <2>1, <4>1, <4>2
      <4> QED
        BY <2>8, <2>9, <4>1, <4>2, <4>3, <4>4
    <3> QED
      BY <3>1, <3>2 DEF SessionsMatch
  <2> QED
    BY <2>10, <2>11, <2>12 DEF TablesInv
<1> QED
  BY <1>2, <1>3

(* The tables are empty at first. *)
LEMMA TablesInit == Init => TablesInv
<1> SUFFICES ASSUME Init PROVE TablesInv
  OBVIOUS
<1>1. Tables
  BY SlotAssumption DEF Init, Tables, SessionRec, Slots
<1>2. Connecting
  BY DEF Init, Connecting
<1>3. SessionsMatch
  BY DEF Init, SessionsMatch
<1> QED
  BY <1>1, <1>2, <1>3 DEF TablesInv

(* Every step keeps slots, sessions and players bound to each other. *)
LEMMA TablesStep == TablesInv /\ [Next]_vars => TablesInv'
<1> SUFFICES ASSUME TablesInv, [Next]_vars PROVE TablesInv'
  OBVIOUS
<1>a. Tables /\ Connecting /\ SessionsMatch
  BY DEF TablesInv
<1>b. posting \in 0 .. NumSlots /\ \A e \in accepting : e[1] \in Slots
  BY <1>a DEF Tables
<1> USE DEF slotVars, sendVars, kernVars, sessVars, workVars, packVars
<1>1. CASE ChooseSlot
  BY <1>1, <1>b, TablesKept, SlotAssumption DEF ChooseSlot, Slots
<1>2. CASE PostAccept
  <2>1. posting \in Slots /\ posting' = 0
    BY <1>2, <1>b, SlotAssumption DEF PostAccept, Slots
  <2>2. \A e \in accepting' : e[1] \in Slots
    <3>1. \/ accepting' = accepting
          \/ \E s \in Sockets : accepting' = accepting \union {<<posting, s>>}
      BY <1>2 DEF PostAccept
    <3> QED
      BY <1>b, <2>1, <3>1
  <2>3. UNCHANGED <<sessionIndex, sessions, players, pc, at>> /\ Running
    BY <1>2 DEF PostAccept
  <2> QED
    BY <2>1, <2>2, <2>3, TablesKept, SlotAssumption
<1>3. CASE WaitOver
  BY <1>3, <1>b, TablesKept DEF WaitOver
<1>4. CASE Dial
  BY <1>4, <1>b, TablesKept DEF Dial
<1>5. CASE Reset
  BY <1>5, <1>b, TablesKept DEF Reset
<1>6. ASSUME NEW w \in Workers, AcceptCompletion(w) PROVE TablesInv'
  <2>1. PICK e \in accepting : /\ accepting' = accepting \ {e}
                              /\ \/ UNCHANGED <<sessionIndex, sessVars>> \/ OnClose(e[1])
    BY <1>6 DEF AcceptCompletion
  <2>2. Running /\ UNCHANGED <<pc, at, posting>>
    BY <1>6 DEF AcceptCompletion
  <2>3. e[1] \in Slots /\ \A f \in accepting' : f[1] \in Slots
    BY <1>b, <2>1
  <2>4. CASE UNCHANGED <<sessionIndex, sessVars>>
    BY <1>b, <2>2, <2>3, <2>4, TablesKept
  <2>5. CASE OnClose(e[1])
    BY <1>b, <2>2, <2>3, <2>5, CloseKeeps
  <2> QED
    BY <2>1, <2>4, <2>5
<1>7. ASSUME NEW w \in Workers, AcceptFailed(w) PROVE TablesInv'
  BY <1>7, <1>b, TablesKept DEF AcceptFailed
<1>8. ASSUME NEW w \in Workers, RecvFailed(w) PROVE TablesInv'
  BY <1>8, <1>b, TablesKept DEF RecvFailed
<1>9. ASSUME NEW w \in Workers, SendFailed(w) PROVE TablesInv'
  BY <1>9, <1>b, TablesKept DEF SendFailed
<1>10. ASSUME NEW w \in Workers, OnRecv(w) PROVE TablesInv'
  <2>1. PICK i \in Slots :
          /\ at' = [at EXCEPT ![w] = i]
          /\ pc' = [pc EXCEPT ![w] = IF sessionIndex[i] = 0 THEN "connect" ELSE "read"]
          /\ fault' = IF sessionIndex[i] = 0 /\ \E v \in Workers : pc[v] = "connect"
                      THEN "race" ELSE fault
    BY <1>10 DEF OnRecv
  <2>2. Running /\ UNCHANGED <<sessionIndex, sessions, players, accepting, posting>>
    BY <1>10 DEF OnRecv
  <2>3. Tables'
    BY <1>a, <2>1, <2>2, SlotAssumption DEF Tables, Slots
  <2>4. SessionsMatch'
    BY <1>a, <2>2 DEF SessionsMatch
  <2>5. Connecting'
    <3> SUFFICES ASSUME Running', NEW v \in Workers, pc'[v] = "connect"
                 PROVE  /\ at'[v] \in Slots /\ sessionIndex'[at'[v]] = 0
                        /\ \A u \in Workers : pc'[u] = "connect" => u = v
      BY DEF Connecting
    <3>1. at \in [Workers -> 0 .. NumSlots] /\ pc \in [Workers -> {"idle", "connect", "read"}]
      BY <1>a DEF Tables
    <3>2. CASE sessionIndex[i] = 0
      <4>1. \A u \in Workers : pc[u] # "connect"
        BY <2>1, <3>2 DEF Running
      <4>2. v = w /\ \A u \in Workers : pc'[u] = "connect" => u = w
        BY <2>1, <3>1, <4>1
      <4> QED
        BY <2>1, <2>2, <3>1, <3>2, <4>2
    <3>3. CASE sessionIndex[i] # 0
      <4>1. \A u \in Workers : pc'[u] = "connect" => u # w /\ pc[u] = "connect" /\ at'[u] = at[u]
        BY <2>1, <3>1, <3>3
      <4> QED
        BY <1>a, <2>2, <4>1 DEF Connecting
    <3> QED
      BY <3>2, <3>3
  <2> QED
    BY <2>3, <2>4, <2>5 DEF TablesInv
<1>11. ASSUME NEW w \in Workers, OnConnect(w) PROVE TablesInv'
  BY <1>11, ConnectKeeps
<1>12. ASSUME NEW w \in Workers, ReadPackets(w) PROVE TablesInv'
  <2>1. /\ pc' = [pc EXCEPT ![w] = "idle"] /\ at' = [at EXCEPT ![w] = 0]
        /\ UNCHANGED <<sessionIndex, sessions, players, accepting, posting, fault>>
    BY <1>12 DEF ReadPackets
  <2>2. Tables'
    BY <1>a, <2>1, SlotAssumption DEF Tables
  <2>3. SessionsMatch'
    BY <1>a, <2>1 DEF SessionsMatch
  <2>4. Connecting'
    <3>1. \A u \in Workers : pc'[u] = "connect" => u # w /\ pc[u] = "connect" /\ at'[u] = at[u]
      BY <1>a, <2>1 DEF Tables
    <3> QED
      BY <1>a, <2>1, <3>1 DEF Connecting, Running
  <2> QED
    BY <2>2, <2>3, <2>4 DEF TablesInv
<1>13. ASSUME NEW w \in Workers, SendCompleted(w) PROVE TablesInv'
  BY <1>13, <1>b, TablesKept DEF SendCompleted
<1>14. CASE ServeRequest
  BY <1>14, <1>b, TablesKept DEF ServeRequest
<1>15. CASE SendResponse
  BY <1>15, <1>b, TablesKept DEF SendResponse
<1>16. CASE SendNotify
  BY <1>16, <1>b, TablesKept DEF SendNotify
<1>17. CASE UNCHANGED vars
  BY <1>17, <1>a DEF vars, TablesInv, Tables, Connecting, SessionsMatch, Running
<1> QED
  BY <1>1, <1>2, <1>3, <1>4, <1>5, <1>6, <1>7, <1>8, <1>9, <1>10, <1>11, <1>12, <1>13, <1>14,
     <1>15, <1>16, <1>17 DEF Next, WorkerThread

(* With any number of slots, connections and workers, slots, sessions and  *)
(* players point at each other and no two slots share a session.           *)
THEOREM BoundToEachOther == Spec => []SessionsMatch
<1>1. TablesInv => SessionsMatch
  BY DEF TablesInv
<1> QED
  BY <1>1, TablesInit, TablesStep, PTL DEF Spec

-----------------------------------------------------------------------------
(* A step that gives or takes no packet, and may end the process or fail a *)
(* send, is a step of the channels.                                        *)
LEMMA DieStep ==
  ASSUME Running, UNCHANGED <<submitted, sendQueue, delivered>>, mute \subseteq mute'
  PROVE  Channels!Next
<1>1. [i \in Slots |-> Dead(i)]' \in [Slots -> BOOLEAN]
  BY DEF Dead, Running
<1>2. \A i \in Slots : Dead(i) => Dead(i)'
  BY DEF Dead, Running
<1>3. Channels!Die
  BY <1>1, <1>2 DEF Channels!Die
<1> QED
  BY <1>3 DEF Channels!Next

(* A step that leaves the send queues alone keeps their invariant. *)
LEMMA QueuesKept == ASSUME QueueInv, UNCHANGED sendVars PROVE QueueInv'
  BY DEF QueueInv, sendVars

(* SendMsg is a Submit. *)
LEMMA SubmitStep ==
  ASSUME QueueInv, Running, UNCHANGED fault, NEW i \in Slots, SendMsg(i)
  PROVE  QueueInv' /\ Channels!Next
<1>1. /\ sendQueue \in [Slots -> Seq(Nat)] /\ submitted \in [Slots -> Nat]
      /\ delivered \in [Slots -> Seq(Nat)]
  BY DEF QueueInv
<1>2. /\ submitted' = [submitted EXCEPT ![i] = submitted[i] + 1]
      /\ sendQueue' = [sendQueue EXCEPT ![i] = Append(sendQueue[i], submitted[i] + 1)]
      /\ delivered' = delivered
  BY DEF SendMsg
<1>3. /\ submitted[i] + 1 \in Nat /\ sendQueue[i] \in Seq(Nat)
      /\ Append(sendQueue[i], submitted[i] + 1) \in Seq(Nat)
      /\ Append(sendQueue[i], submitted[i] + 1) # <<>>
  <2>1. submitted[i] + 1 \in Nat /\ sendQueue[i] \in Seq(Nat)
    BY <1>1
  <2> QED
    BY <2>1
<1>4. submitted' \in [Slots -> Nat] /\ sendQueue' \in [Slots -> Seq(Nat)]
  BY <1>1, <1>2, <1>3
<1>5. \A j \in Slots : sendQueue[j] # <<>> \/ j = i => sendQueue'[j] # <<>>
  BY <1>1, <1>2, <1>3
<1>6. \/ sendQueue[i] = <<>> /\ sending' = sending \union {<<i, sock[i]>>} /\ mute' = mute
      \/ sendQueue[i] = <<>> /\ sending' = sending /\ mute' = mute \union {i}
      \/ sendQueue[i] # <<>> /\ sending' = sending /\ mute' = mute
  BY DEF SendMsg, SendIO
<1>7. \A j \in mute' : j \in Slots => sendQueue'[j] # <<>>
  BY <1>5, <1>6 DEF QueueInv
<1>8. ASSUME NEW e \in sending'
      PROVE  /\ e[1] \in Slots /\ sendQueue'[e[1]] # <<>> /\ e[1] \notin mute'
             /\ \A f \in sending' : f[1] = e[1] => f = e
  <2>1. \A f \in sending : f[1] \in Slots /\ sendQueue[f[1]] # <<>> /\ f[1] \notin mute
    BY DEF QueueInv
  <2>2. sendQueue[i] = <<>> => i \notin mute /\ \A f \in sending : f[1] # i
    BY <2>1 DEF QueueInv
  <2>3. e[1] \in Slots /\ (e[1] = i \/ sendQueue[e[1]] # <<>>)
    BY <1>6, <2>1
  <2>4. e[1] \notin mute'
    BY <1>6, <2>1, <2>2
  <2>5. \A f \in sending' : f[1] = e[1] => f = e
    <3>1. CASE sending' = sending
      BY <3>1 DEF QueueInv
    <3>2. CASE sendQueue[i] = <<>> /\ sending' = sending \union {<<i, sock[i]>>}
      <4>1. \A f \in sending' : f = <<i, sock[i]>> \/ (f \in sending /\ f[1] # i)
        BY <2>2, <3>2
      <4>2. \A f, g \in sending : f[1] = g[1] => f = g
        BY DEF QueueInv
      <4> QED
        BY <4>1, <4>2
    <3> QED
      BY <1>6, <3>1, <3>2
  <2> QED
    BY <1>5, <2>3, <2>4, <2>5
<1>9. QueueInv'
  BY <1>1, <1>2, <1>4, <1>7, <1>8 DEF QueueInv
<1>10. Channels!Submit(i)
  <2>1. \/ mute' = mute
        \/ sendQueue[i] = <<>> /\ mute' = mute \union {i}
    BY <1>6
  <2>2. CASE mute' = mute
    BY <1>2, <2>2 DEF Channels!Submit, Dead, Running
  <2>3. CASE sendQueue[i] = <<>> /\ mute' = mute \union {i}
    <3>1. [j \in Slots |-> Dead(j)]' = [[j \in Slots |-> Dead(j)] EXCEPT ![i] = TRUE]
      BY <2>3 DEF Dead, Running
    <3> QED
      BY <1>2, <2>3, <3>1 DEF Channels!Submit
  <2> QED
    BY <2>1, <2>2, <2>3
<1> QED
  BY <1>9, <1>10 DEF Channels!Next

(* A completed send is a Deliver: the packet at the front was on its way,  *)
(* and the next one is posted for the same slot or mutes it.               *)
LEMMA DeliverStep ==
  ASSUME QueueInv, NEW w \in Workers, SendCompleted(w)
  PROVE  QueueInv' /\ Channels!Next
<1>1. PICK e \in sending :
        /\ sendQueue' = [sendQueue EXCEPT ![e[1]] = Tail(sendQueue[e[1]])]
        /\ delivered' = [delivered EXCEPT ![e[1]] = Append(delivered[e[1]], Head(sendQueue[e[1]]))]
        /\ PostNext(e[1], e)
  BY DEF SendCompleted
<1> DEFINE i == e[1]
<1>2. Running /\ UNCHANGED <<submitted, fault>>
  BY DEF SendCompleted
<1>3. /\ sendQueue \in [Slots -> Seq(Nat)] /\ submitted \in [Slots -> Nat]
      /\ delivered \in [Slots -> Seq(Nat)]
      /\ i \in Slots /\ sendQueue[i] # <<>> /\ i \notin mute
      /\ \A f \in sending : f[1] = i => f = e
      /\ \A f \in sending : f[1] \in Slots /\ sendQueue[f[1]] # <<>> /\ f[1] \notin mute
      /\ \A f, g \in sending : f[1] = g[1] => f = g
      /\ \A j \in mute : j \in Slots => sendQueue[j] # <<>>
  BY DEF QueueInv
<1>4. \/ sending' = sending \ {e} /\ mute' = mute
      \/ Tail(sendQueue[i]) # <<>> /\ sending' = sending \ {e} /\ mute' = mute \union {i}
      \/ /\ Tail(sendQueue[i]) # <<>> /\ mute' = mute
         /\ sending' = (sending \ {e}) \union {<<i, sock[i]>>}
  BY <1>1 DEF PostNext, SendIO
<1>5. /\ sendQueue' = [sendQueue EXCEPT ![i] = Tail(sendQueue[i])]
      /\ delivered' = [delivered EXCEPT ![i] = Append(delivered[i], Head(sendQueue[i]))]
  BY <1>1
<1> HIDE DEF i
<1>6. Tail(sendQueue[i]) \in Seq(Nat) /\ Append(delivered[i], Head(sendQueue[i])) \in Seq(Nat)
  <2>1. sendQueue[i] \in Seq(Nat) /\ sendQueue[i] # <<>> /\ delivered[i] \in Seq(Nat)
    BY <1>3
  <2> QED
    BY <2>1
<1>7. /\ sendQueue' \in [Slots -> Seq(Nat)] /\ delivered' \in [Slots -> Seq(Nat)]
  BY <1>3, <1>5, <1>6
<1>8. \A j \in Slots : j # i \/ Tail(sendQueue[i]) # <<>> =>
        (sendQueue[j] # <<>> => sendQueue'[j] # <<>>)
  BY <1>3, <1>5
<1>9. \A j \in mute' : j \in Slots => sendQueue'[j] # <<>>
  <2>1. \A j \in mute' : j \in mute \/ (j = i /\ Tail(sendQueue[i]) # <<>>)
    BY <1>4
  <2> QED
    BY <1>3, <1>8, <2>1
<1>10. \A f \in sending' : \/ f \in sending /\ f[1] # i
                           \/ f = <<i, sock[i]>> /\ Tail(sendQueue[i]) # <<>> /\ mute' = mute
  BY <1>3, <1>4
<1>11. ASSUME NEW f \in sending'
       PROVE  /\ f[1] \in Slots /\ sendQueue'[f[1]] # <<>> /\ f[1] \notin mute'
              /\ \A g \in sending' : g[1] = f[1] => g = f
  <2>1. f[1] \in Slots /\ sendQueue'[f[1]] # <<>>
    <3>1. \/ f[1] # i /\ f[1] \in Slots /\ sendQueue[f[1]] # <<>>
          \/ f[1] = i /\ Tail(sendQueue[i]) # <<>>
      <4>1. CASE f \in sending /\ f[1] # i
        BY <1>3, <4>1
      <4>2. CASE f = <<i, sock[i]>> /\ Tail(sendQueue[i]) # <<>>
        BY <4>2
      <4> QED
        BY <1>10, <4>1, <4>2
    <3> QED
      BY <1>3, <1>8, <3>1
  <2>2. f[1] \notin mute'
    BY <1>3, <1>4, <1>10
  <2>3. \A g \in sending' : g[1] = f[1] => g = f
    <3>1. \A g \in sending' : g = <<i, sock[i]>> \/ (g \in sending /\ g[1] # i)
      BY <1>10
    <3>2. \A g, h \in sending : g[1] = h[1] => g = h
      BY <1>3
    <3> QED
      BY <3>1, <3>2
  <2> QED
    BY <2>1, <2>2, <2>3
<1>12. QueueInv'
  BY <1>2, <1>3, <1>7, <1>9, <1>11 DEF QueueInv
<1>13. Channels!Deliver(i)
  <2>1. ~ [j \in Slots |-> Dead(j)][i]
    BY <1>2, <1>3 DEF Dead
  <2>2. CASE mute' = mute
    <3>1. UNCHANGED [j \in Slots |-> Dead(j)]
      BY <1>2, <2>2 DEF Dead, Running
    <3> QED
      BY <1>2, <1>3, <1>5, <2>1, <3>1 DEF Channels!Deliver
  <2>3. CASE Tail(sendQueue[i]) # <<>> /\ mute' = mute \union {i}
    <3>1. [j \in Slots |-> Dead(j)]' = [[j \in Slots |-> Dead(j)] EXCEPT ![i] = TRUE]
      BY <1>2, <2>3 DEF Dead, Running
    <3> QED
      BY <1>2, <1>3, <1>5, <2>1, <2>3, <3>1 DEF Channels!Deliver
  <2> QED
    BY <1>4, <2>2, <2>3
<1> QED
  BY <1>3, <1>12, <1>13 DEF Channels!Next

(* A failed send mutes its slot. *)
LEMMA SendFailedStep ==
  ASSUME QueueInv, NEW w \in Workers, SendFailed(w)
  PROVE  QueueInv' /\ Channels!Next
<1>1. PICK e \in sending : sending' = sending \ {e} /\ mute' = mute \union {e[1]}
  BY DEF SendFailed
<1>2. Running /\ UNCHANGED <<sendQueue, submitted, delivered>>
  BY DEF SendFailed
<1>3. Channels!Next
  BY <1>1, <1>2, DieStep
<1>4. /\ \A f \in sending' : f \in sending /\ f # e
      /\ \A j \in mute' : j \in mute \/ j = e[1]
  BY <1>1
<1>5. \A f \in sending' : f[1] # e[1]
  BY <1>4 DEF QueueInv
<1>6. \A f \in sending' : /\ f[1] \in Slots /\ sendQueue'[f[1]] # <<>> /\ f[1] \notin mute'
                          /\ \A g \in sending' : g[1] = f[1] => g = f
  BY <1>2, <1>4, <1>5 DEF QueueInv
<1>7. \A j \in mute' : j \in Slots => sendQueue'[j] # <<>>
  BY <1>2, <1>4 DEF QueueInv
<1>8. QueueInv'
  BY <1>2, <1>6, <1>7 DEF QueueInv
<1> QED
  BY <1>3, <1>8

-----------------------------------------------------------------------------
(* Sessions are never taken away, so a session that asked stays one. *)
LEMMA SessionsStay ==
  ASSUME TablesInv, [Next]_vars PROVE Len(sessions) \in Nat /\ Len(sessions') >= Len(sessions)
<1>1. sessions \in Seq(SessionRec) /\ Len(sessions) \in Nat /\ DOMAIN sessions = 1 .. Len(sessions)
  BY DEF TablesInv, Tables
<1>2. ASSUME NEW w \in Workers, OnConnect(w) PROVE Len(sessions') >= Len(sessions)
  <2>1. sessions' = PutAt(sessions, FreeSession, [player |-> FreePlayer, client |-> at[w]])
    BY <1>2 DEF OnConnect
  <2>2. FreeSession \in 1 .. Len(sessions) + 1
    <3> DEFINE T == {k \in DOMAIN sessions : sessions[k].client = 0}
    <3>1. T \subseteq Nat /\ T \subseteq 1 .. Len(sessions)
      BY <1>1
    <3>2. FreeSession = FirstOr(T, Len(sessions) + 1)
      BY DEF FreeSession
    <3> HIDE DEF T
    <3>3. FirstOr(T, Len(sessions) + 1) \in T \/ FirstOr(T, Len(sessions) + 1) = Len(sessions) + 1
      BY <3>1, FirstOrFacts
    <3>4. FreeSession \in 1 .. Len(sessions) \/ FreeSession = Len(sessions) + 1
      BY <3>1, <3>2, <3>3, Zenon
    <3> QED
      BY <1>1, <3>4
  <2> QED
    BY <1>1, <2>1, <2>2 DEF PutAt
<1>3. ASSUME NEW w \in Workers, AcceptCompletion(w) PROVE Len(sessions') >= Len(sessions)
  <2>1. \/ sessions' = sessions
        \/ \E k : sessions' = [sessions EXCEPT ![k] = [player |-> 0, client |-> 0]]
    BY <1>3 DEF AcceptCompletion, OnClose, sessVars
  <2> QED
    BY <1>1, <2>1
<1>4. ASSUME sessions' = sessions PROVE Len(sessions') >= Len(sessions)
  BY <1>1, <1>4
<1>5. \/ \E w \in Workers : OnConnect(w) \/ AcceptCompletion(w)
      \/ sessions' = sessions
  BY DEF Next, WorkerThread, vars, sessVars, ChooseSlot, PostAccept, WaitOver, Dial, Reset,
         AcceptFailed, RecvFailed, SendFailed, OnRecv, ReadPackets, SendCompleted,
         ServeRequest, SendResponse, SendNotify
<1> QED
  BY <1>1, <1>2, <1>3, <1>4, <1>5

LEMMA SeqInLarger ==
  ASSUME NEW S, NEW T, S \subseteq T, NEW seq \in Seq(S) PROVE seq \in Seq(T)
  OBVIOUS

(* What a request carries is 0 or a session that was given out. *)
LEMMA AskedStep == ASSUME TablesInv, Asked, [Next]_vars PROVE Asked'
<1> DEFINE n == Len(sessions)
           m == Len(sessions')
           Ids == 0 .. m
<1>1. n \in Nat /\ m \in Nat /\ m >= n
  <2>1. n \in Nat /\ m >= n
    BY SessionsStay
  <2>2. sessions' \in Seq(SessionRec)
    BY TablesStep DEF TablesInv, Tables
  <2> QED
    BY <2>1, <2>2
<1>2. serving \in 0 .. n /\ requests \in Seq(0 .. n)
  BY DEF Asked
<1>3. \A w \in Workers : pc[w] = "read" => at[w] \in Slots
  BY DEF Asked
<1>t. /\ at \in [Workers -> 0 .. NumSlots] /\ pc \in [Workers -> {"idle", "connect", "read"}]
  BY DEF TablesInv, Tables
<1> HIDE DEF n, m
<1>4. 0 .. n \subseteq Ids /\ 0 \in Ids
  BY <1>1
<1>5. requests \in Seq(Ids)
  BY <1>2, <1>4, SeqInLarger
<1>6. requests' \in Seq(Ids) /\ serving' \in Ids
  <2> HIDE DEF Ids
  <2>1. CASE UNCHANGED <<requests, serving>>
    BY <1>2, <1>4, <1>5, <2>1
  <2>2. ASSUME NEW w \in Workers, ReadPackets(w) PROVE requests' \in Seq(Ids) /\ serving' \in Ids
    <3>1. serving' = serving /\ (requests' = requests \/ requests' = Append(requests, sessionIndex[at[w]]))
      BY <2>2 DEF ReadPackets
    <3>2. sessionIndex[at[w]] \in Ids
      <4>1. at[w] \in Slots
        BY <1>3, <2>2 DEF ReadPackets
      <4>2. sessionIndex[at[w]] = 0 \/ sessionIndex[at[w]] \in DOMAIN sessions
        BY <4>1 DEF TablesInv, SessionsMatch
      <4>3. DOMAIN sessions = 1 .. n
        BY DEF TablesInv, Tables, n
      <4>4. 1 .. n \subseteq 0 .. n
        BY <1>1
      <4> QED
        BY <1>4, <4>2, <4>3, <4>4
    <3> QED
      BY <1>2, <1>4, <1>5, <3>1, <3>2
  <2>3. CASE ServeRequest
    <3>1. requests # <<>> /\ requests' = Tail(requests) /\ serving' = Head(requests)
      BY <2>3 DEF ServeRequest
    <3> QED
      BY <1>5, <3>1
  <2>4. CASE SendResponse
    <3>1. requests' = requests /\ serving' = 0
      BY <2>4 DEF SendResponse
    <3> QED
      BY <1>4, <1>5, <3>1
  <2>5. \/ UNCHANGED <<requests, serving>> \/ ServeRequest \/ SendResponse
        \/ \E w \in Workers : ReadPackets(w)
    BY DEF Next, WorkerThread, vars, packVars, ChooseSlot, PostAccept, WaitOver, Dial, Reset,
           AcceptCompletion, AcceptFailed, RecvFailed, SendFailed, OnRecv, OnConnect,
           SendCompleted, SendNotify
  <2> QED
    BY <2>1, <2>2, <2>3, <2>4, <2>5
<1>7. \A v \in Workers : pc'[v] = "read" => at'[v] \in Slots
  <2>1. CASE UNCHANGED <<pc, at>>
    BY <1>3, <2>1
  <2>2. ASSUME NEW w \in Workers, OnRecv(w) \/ OnConnect(w) \/ ReadPackets(w)
        PROVE  \A v \in Workers : pc'[v] = "read" => at'[v] \in Slots
    <3>1. CASE OnRecv(w)
      <4>1. PICK i \in Slots : at' = [at EXCEPT ![w] = i]
        BY <3>1 DEF OnRecv
      <4>2. \A v \in Workers : v # w => pc'[v] = pc[v]
        BY <1>t, <3>1 DEF OnRecv
      <4> QED
        BY <1>3, <1>t, <4>1, <4>2
    <3>2. CASE OnConnect(w)
      <4>1. at[w] \in Slots
        BY <3>2 DEF OnConnect, TablesInv, Connecting
      <4>2. at' = at /\ pc' = [pc EXCEPT ![w] = "read"]
        BY <3>2 DEF OnConnect
      <4> QED
        BY <1>3, <1>t, <4>1, <4>2
    <3>3. CASE ReadPackets(w)
      <4>1. at' = [at EXCEPT ![w] = 0] /\ pc' = [pc EXCEPT ![w] = "idle"]
        BY <3>3 DEF ReadPackets
      <4> QED
        BY <1>3, <1>t, <4>1
    <3> QED
      BY <2>2, <3>1, <3>2, <3>3
  <2>3. UNCHANGED <<pc, at>> \/ \E w \in Workers : OnRecv(w) \/ OnConnect(w) \/ ReadPackets(w)
    BY DEF Next, WorkerThread, vars, workVars, ChooseSlot, PostAccept, WaitOver, Dial, Reset,
           AcceptCompletion, AcceptFailed, RecvFailed, SendFailed, SendCompleted,
           ServeRequest, SendResponse, SendNotify
  <2> QED
    BY <2>1, <2>2, <2>3
<1> QED
  BY <1>6, <1>7 DEF Asked, Ids, m

-----------------------------------------------------------------------------
LEMMA InitMaps == Init => IInv /\ Channels!Init
<1> SUFFICES ASSUME Init PROVE IInv /\ Channels!Init
  OBVIOUS
<1>1. QueueInv
  BY DEF Init, QueueInv
<1>2. Asked
  BY DEF Init, Asked
<1>3. Channels!Init
  BY DEF Init, Channels!Init, Dead, Running
<1> QED
  BY <1>1, <1>2, <1>3, TablesInit DEF IInv

(* Every step of the slots is a step of the channels or leaves them alone. *)
LEMMA StepMaps ==
  ASSUME IInv, [Next]_vars PROVE IInv' /\ [Channels!Next]_(Channels!vars)
<1>1. TablesInv /\ QueueInv /\ Asked
  BY DEF IInv
<1>2. TablesInv' /\ Asked'
  BY <1>1, TablesStep, AskedStep
<1> SUFFICES QueueInv' /\ [Channels!Next]_(Channels!vars)
  BY <1>2 DEF IInv
<1>3. CASE Running /\ UNCHANGED sendVars
  BY <1>1, <1>3, QueuesKept, DieStep DEF sendVars
<1>4. CASE UNCHANGED vars
  <2>1. UNCHANGED sendVars /\ UNCHANGED fault
    BY <1>4 DEF vars
  <2>2. UNCHANGED Channels!vars
    BY <2>1 DEF sendVars, Channels!vars, Dead, Running
  <2> QED
    BY <1>1, <2>1, <2>2, QueuesKept
<1>5. ASSUME NEW w \in Workers, SendCompleted(w) PROVE QueueInv' /\ Channels!Next
  BY <1>1, <1>5, DeliverStep
<1>6. ASSUME NEW w \in Workers, SendFailed(w) PROVE QueueInv' /\ Channels!Next
  BY <1>1, <1>6, SendFailedStep
<1>7. ASSUME Running, UNCHANGED fault, NEW k \in DOMAIN sessions,
             sessions[k].client # 0, SendMsg(sessions[k].client)
      PROVE  QueueInv' /\ Channels!Next
  <2>1. sessions[k] \in SessionRec
    BY <1>1 DEF TablesInv, Tables
  <2>2. sessions[k].client \in Slots
    BY <1>7, <2>1, SlotAssumption DEF SessionRec, Slots
  <2> QED
    BY <1>1, <1>7, <2>2, SubmitStep
<1>8. CASE SendResponse
  <2>1. serving \in DOMAIN sessions
    <3>1. serving \in 0 .. Len(sessions) /\ serving # 0
      BY <1>1, <1>8 DEF Asked, SendResponse
    <3>2. DOMAIN sessions = 1 .. Len(sessions) /\ Len(sessions) \in Nat
      BY <1>1 DEF TablesInv, Tables
    <3> QED
      BY <3>1, <3>2
  <2>2. CASE sessions[serving].client = 0
    BY <1>3, <1>8, <2>2 DEF SendResponse
  <2>3. CASE sessions[serving].client # 0
    BY <1>7, <1>8, <2>1, <2>3 DEF SendResponse
  <2> QED
    BY <2>2, <2>3
<1>9. CASE SendNotify
  <2>1. PICK k \in DOMAIN sessions :
          IF sessions[k].client = 0 THEN fault' = "null" /\ UNCHANGED sendVars
                                    ELSE SendMsg(sessions[k].client) /\ UNCHANGED fault
    BY <1>9 DEF SendNotify
  <2>2. Running
    BY <1>9 DEF SendNotify
  <2> QED
    BY <1>3, <1>7, <2>1, <2>2
<1>10. \/ Running /\ UNCHANGED sendVars
       \/ UNCHANGED vars
       \/ \E w \in Workers : SendCompleted(w) \/ SendFailed(w)
       \/ SendResponse \/ SendNotify
  BY DEF Next, WorkerThread, ChooseSlot, PostAccept, WaitOver, Dial, Reset,
         AcceptCompletion, AcceptFailed, RecvFailed, OnRecv, OnConnect, ReadPackets,
         ServeRequest
<1> QED
  BY <1>3, <1>4, <1>5, <1>6, <1>8, <1>9, <1>10

(* With any number of slots, connections, workers and packets, the send    *)
(* queues of the slots implement the safety part of SendChannel: on every  *)
(* slot packets leave once and in the order SendMsg was given them, and    *)
(* after a failed send none leaves again.                                  *)
THEOREM SlotsSendInOrder == Spec => Channels!Safety
<1>1. Init => IInv /\ Channels!Init
  BY InitMaps
<1>2. IInv /\ [Next]_vars => IInv' /\ [Channels!Next]_(Channels!vars)
  BY StepMaps
<1> QED
  BY <1>1, <1>2, PTL DEF Spec, Channels!Safety
-----------------------------------------------------------------------------
(* What the network and the slots hold. *)
SocketId == 0 .. MaxSockets
ConnState == {"none", "fresh", "dialed", "lost", "up", "gone"}

Network ==
  /\ isConnect \in [Slots -> BOOLEAN]
  /\ sock \in [Slots -> SocketId]
  /\ closedTime \in [Slots -> {"recent", "old", "max"}]
  /\ conn \in [Sockets -> ConnState]
  /\ recving \in [Slots \X Sockets -> Nat]
  /\ accepting \subseteq Slots \X Sockets
  /\ sending \subseteq Slots \X Sockets

(* Sockets are numbered as they are made, and no two slots have the same. *)
OwnSockets ==
  /\ \E m \in Nat : Made = 1 .. m
  /\ \A i \in Slots : sock[i] # 0 =>
       conn[sock[i]] # "none" /\ \A j \in Slots : sock[j] = sock[i] => j = i

(* Nothing is posted for the slot but an accept, and no worker is busy     *)
(* with it.                                                                *)
Quiet(i) ==
  /\ \A w \in Workers : at[w] # i
  /\ \A s \in Sockets : recving[<<i, s>>] = 0 /\ <<i, s>> \notin sending

(* Before AcceptThread may take the slot, and while a client is awaited on *)
(* it, it is quiet.                                                        *)
QuietBetween(i) ==
  /\ ~isConnect[i] /\ closedTime[i] = "old" => Quiet(i)
  /\ \A s \in Sockets : <<i, s>> \in accepting => ~isConnect[i] /\ Quiet(i) /\ sock[i] = s
  /\ isConnect[i] <=> sock[i] # 0 /\ conn[sock[i]] \in {"up", "gone"}

(* At most one receive or worker, and one for a connection that is up. *)
OneReader(i) ==
  /\ \A s \in Sockets : recving[<<i, s>>] > 0 =>
       /\ recving[<<i, s>>] = 1 /\ \A w \in Workers : at[w] # i
       /\ \A t \in Sockets : recving[<<i, t>>] > 0 => t = s
  /\ \A w, v \in Workers : at[w] = i /\ at[v] = i => w = v
  /\ isConnect[i] /\ conn[sock[i]] = "up" =>
       (\E w \in Workers : at[w] = i) \/ recving[<<i, sock[i]>>] = 1

(* What is posted is posted on the slot's own connection or a closed one. *)
OwnOperations(i) ==
  \A s \in Sockets : recving[<<i, s>>] > 0 \/ <<i, s>> \in sending =>
    conn[s] \in {"up", "gone"} /\ (isConnect[i] \/ conn[s] = "up" => sock[i] = s)

(* The packet being sent was made for the socket it is sent on, and so are *)
(* the ones behind it while the slot has that socket.                      *)
OwnPackets(i) ==
  /\ \A s \in Sockets : <<i, s>> \in sending =>
       /\ madeFor[i] # <<>> /\ madeFor[i][1] = s
       /\ sock[i] = s => \A k \in DOMAIN madeFor[i] : madeFor[i][k] = s
  /\ i \notin crossed

SlotOK(i) == QuietBetween(i) /\ OneReader(i) /\ OwnOperations(i) /\ OwnPackets(i)

(* madeFor goes along with sendQueue. *)
Labels ==
  /\ madeFor \in [Slots -> Seq(SocketId)]
  /\ \A i \in Slots : Len(madeFor[i]) = Len(sendQueue[i])

SInv ==
  /\ Network /\ OwnSockets /\ Labels
  /\ \A i \in Slots : Undisturbed(i) => SlotOK(i)

(* A step that does not touch the slot keeps it as it is. *)
LEMMA SlotKept ==
  ASSUME NEW i \in Slots, SlotOK(i), Network,
         isConnect'[i] = isConnect[i], closedTime'[i] = closedTime[i], sock'[i] = sock[i],
         \A w \in Workers : at'[w] = i <=> at[w] = i,
         \A s \in Sockets : recving'[<<i, s>>] = recving[<<i, s>>],
         \A s \in Sockets : <<i, s>> \in sending' <=> <<i, s>> \in sending,
         \A s \in Sockets : <<i, s>> \in accepting' => <<i, s>> \in accepting,
         madeFor'[i] = madeFor[i], i \notin crossed',
         \A s \in Sockets : conn[s] \in {"up", "gone"} =>
            conn'[s] \in {"up", "gone"} /\ (conn'[s] = "up" => conn[s] = "up"),
         sock[i] # 0 /\ conn'[sock[i]] \in {"up", "gone"} => conn[sock[i]] \in {"up", "gone"}
  PROVE  SlotOK(i)'
<1>1. Quiet(i) => Quiet(i)'
  BY DEF Quiet
<1>2. sock[i] # 0 => sock[i] \in Sockets
  BY SlotBounds DEF Network, SocketId, Sockets
<1>3. QuietBetween(i)'
  BY <1>1, <1>2 DEF SlotOK, QuietBetween
<1>4. OneReader(i)'
  <2>1. isConnect[i] => sock[i] # 0 /\ conn[sock[i]] \in {"up", "gone"}
    BY DEF SlotOK, QuietBetween
  <2>2. ASSUME isConnect'[i], conn'[sock'[i]] = "up"
        PROVE  (\E w \in Workers : at'[w] = i) \/ recving'[<<i, sock'[i]>>] = 1
    <3>1. isConnect[i] /\ conn[sock[i]] = "up" /\ sock[i] \in Sockets
      BY <1>2, <2>1, <2>2
    <3> QED
      BY <3>1 DEF SlotOK, OneReader
  <2>3. \A s \in Sockets : recving'[<<i, s>>] > 0 =>
          /\ recving'[<<i, s>>] = 1 /\ \A w \in Workers : at'[w] # i
          /\ \A t \in Sockets : recving'[<<i, t>>] > 0 => t = s
    BY DEF SlotOK, OneReader
  <2>4. \A w, v \in Workers : at'[w] = i /\ at'[v] = i => w = v
    BY DEF SlotOK, OneReader
  <2> QED
    BY <2>2, <2>3, <2>4 DEF OneReader
<1>5. OwnOperations(i)'
  BY DEF SlotOK, OwnOperations
<1>6. OwnPackets(i)'
  BY DEF SlotOK, OwnPackets
<1> QED
  BY <1>3, <1>4, <1>5, <1>6 DEF SlotOK

(* Disconnect closes the slot's socket; what is still posted on it stays.  *)
LEMMA SlotClosed ==
  ASSUME NEW i \in Slots, SlotOK(i), Network, Disconnect(i), at' = at,
         \A s \in Sockets : recving'[<<i, s>>] \in {recving[<<i, s>>], 0},
         \A s \in Sockets : <<i, s>> \in sending' => <<i, s>> \in sending,
         \A s \in Sockets : <<i, s>> \notin accepting',
         madeFor'[i] = madeFor[i], i \notin crossed'
  PROVE  SlotOK(i)'
<1>1. /\ isConnect'[i] = FALSE /\ closedTime'[i] # "old" /\ sock'[i] = 0
      /\ conn' = [s \in Sockets |-> IF s = sock[i] THEN "gone" ELSE conn[s]]
  BY DEF Disconnect, Network
<1>2. QuietBetween(i)'
  BY <1>1 DEF QuietBetween
<1>3. OneReader(i)'
  BY <1>1 DEF SlotOK, OneReader
<1>4. OwnOperations(i)'
  <2> SUFFICES ASSUME NEW s \in Sockets, recving'[<<i, s>>] > 0 \/ <<i, s>> \in sending'
               PROVE  conn'[s] = "gone"
    BY <1>1 DEF OwnOperations
  <2>1. recving[<<i, s>>] > 0 \/ <<i, s>> \in sending
    OBVIOUS
  <2>2. conn[s] = "gone" \/ sock[i] = s
    BY <2>1 DEF SlotOK, OwnOperations
  <2> QED
    BY <1>1, <2>2
<1>5. OwnPackets(i)'
  BY <1>1, SlotBounds DEF SlotOK, OwnPackets, Sockets
<1> QED
  BY <1>2, <1>3, <1>4, <1>5 DEF SlotOK

(* A slot of 0 has no outcome but failure, and a success needs a connection. *)
LEMMA Succeeds ==
  ASSUME Network, NEW i \in Slots, TRUE \in Outcome(sock[i])
  PROVE  sock[i] \in Sockets /\ sock[i] # 0 /\ conn[sock[i]] \in {"up", "gone"}
<1>1. sock[i] # 0 /\ conn[sock[i]] \in {"up", "gone"}
  BY DEF Outcome
<1>2. sock[i] \in Sockets
  BY <1>1, SlotBounds DEF Network, SocketId, Sockets
<1> QED
  BY <1>1, <1>2

(* What any step leaves of the types, slot by slot. *)
LEMMA SocketOf ==
  ASSUME Network, NEW i \in Slots
  PROVE  sock[i] \in SocketId /\ (sock[i] # 0 => sock[i] \in Sockets)
  BY SlotBounds DEF Network, SocketId, Sockets

(* Disconnect keeps the types and the sockets apart. *)
LEMMA DisconnectKeeps ==
  ASSUME Network, OwnSockets, NEW i \in Slots, Disconnect(i),
         recving' \in [Slots \X Sockets -> Nat],
         accepting' \subseteq Slots \X Sockets, sending' \subseteq Slots \X Sockets
  PROVE  /\ Network' /\ OwnSockets'
         /\ \A j \in Slots : j # i =>
              /\ isConnect'[j] = isConnect[j] /\ closedTime'[j] = closedTime[j]
              /\ sock'[j] = sock[j]
              /\ sock[j] # 0 => conn'[sock[j]] = conn[sock[j]]
         /\ \A s \in Sockets : conn[s] \in {"up", "gone"} =>
              conn'[s] \in {"up", "gone"} /\ (conn'[s] = "up" => conn[s] = "up")
<1>1. /\ isConnect' = [isConnect EXCEPT ![i] = FALSE]
      /\ closedTime' = [closedTime EXCEPT ![i] = "recent"]
      /\ conn' = [s \in Sockets |-> IF s = sock[i] THEN "gone" ELSE conn[s]]
      /\ sock' = [sock EXCEPT ![i] = 0]
  BY DEF Disconnect
<1>2. 0 \in SocketId
  BY SlotBounds DEF SocketId
<1>3. Network'
  BY <1>1, <1>2 DEF Network, ConnState
<1>4. Made' = Made
  <2>1. \A s \in Sockets : s = sock[i] => conn[s] # "none"
    BY SlotBounds DEF OwnSockets, Sockets
  <2> QED
    BY <1>1, <2>1 DEF Made
<1>5. \A j \in Slots : j # i =>
        /\ isConnect'[j] = isConnect[j] /\ closedTime'[j] = closedTime[j] /\ sock'[j] = sock[j]
  BY <1>1 DEF Network
<1>6. ASSUME NEW j \in Slots, j # i, sock[j] # 0 PROVE conn'[sock[j]] = conn[sock[j]]
  <2>1. sock[j] # sock[i] /\ sock[j] \in Sockets
    BY <1>6, SocketOf DEF OwnSockets
  <2> QED
    BY <1>1, <2>1
<1>7. sock'[i] = 0
  BY <1>1 DEF Network
<1>8. OwnSockets'
  BY <1>4, <1>5, <1>6, <1>7 DEF OwnSockets
<1> QED
  BY <1>1, <1>3, <1>5, <1>6, <1>8

(* The steps that touch no slot, and at most end an accept or move a       *)
(* connection on.                                                          *)
LEMMA NothingTouched ==
  ASSUME SInv, Network',
         UNCHANGED <<isConnect, closedTime, sock, at, recving, sendVars, disturbed>>,
         accepting' \subseteq accepting, Made' = Made,
         \A s \in Sockets : /\ conn'[s] = "up" => conn[s] = "up"
                            /\ conn'[s] = "gone" => conn[s] \in {"up", "gone"}
                            /\ conn[s] \in {"up", "gone"} => conn'[s] \in {"up", "gone"}
  PROVE  SInv'
<1>1. OwnSockets'
  <2>1. ASSUME NEW i \in Slots, sock[i] # 0 PROVE conn'[sock[i]] # "none"
    <3>1. sock[i] \in Made
      BY <2>1, SocketOf DEF SInv, OwnSockets, Made
    <3> QED
      BY <3>1 DEF Made
  <2> QED
    BY <2>1 DEF SInv, OwnSockets
<1>2. Labels'
  BY DEF SInv, Labels, sendVars
<1>3. ASSUME NEW i \in Slots, Undisturbed(i)' PROVE SlotOK(i)'
  <2>1. SlotOK(i) /\ Network /\ i \notin crossed
    BY <1>3 DEF SInv, Undisturbed, SlotOK, OwnPackets
  <2>2. sock[i] # 0 => sock[i] \in Sockets
    BY <2>1, SocketOf
  <2> QED
    BY <2>1, <2>2, SlotKept DEF sendVars
<1> QED
  BY <1>1, <1>2, <1>3 DEF SInv

(* RE_USE_SESSION_WAIT_TIMESEC has gone by and the slot is settled. *)
LEMMA WaitOverKeeps == ASSUME SInv, WaitOver PROVE SInv'
<1>1. PICK i \in Slots :
        /\ closedTime' = [closedTime EXCEPT ![i] = "old"]
        /\ disturbed' = IF Settled(i) THEN disturbed ELSE disturbed \union {i}
  BY DEF WaitOver
<1>2. UNCHANGED <<isConnect, sock, at, recving, accepting, sendVars, conn>>
  BY DEF WaitOver, kernVars, workVars
<1>3. Network' /\ OwnSockets' /\ Labels'
  BY <1>1, <1>2 DEF SInv, Network, OwnSockets, Labels, Made, sendVars
<1>4. ASSUME NEW j \in Slots, Undisturbed(j)' PROVE SlotOK(j)'
  <2>1. SlotOK(j) /\ Network /\ j \notin crossed
    BY <1>1, <1>4 DEF SInv, Undisturbed, SlotOK, OwnPackets
  <2>2. CASE j # i
    <3>1. closedTime'[j] = closedTime[j]
      BY <1>1, <2>1, <2>2 DEF Network
    <3> QED
      BY <1>2, <2>1, <3>1, SlotKept DEF sendVars
  <2>3. CASE j = i
    <3>1. Settled(i)
      BY <1>1, <1>4, <2>3 DEF Undisturbed
    <3>2. ~isConnect[i] => Quiet(i)
      <4> SUFFICES ASSUME ~isConnect[i], NEW s \in Sockets,
                          recving[<<i, s>>] > 0 \/ <<i, s>> \in sending
                   PROVE  FALSE
        <5>1. \A s \in Sockets : recving[<<i, s>>] \in Nat
          BY <2>1 DEF Network
        <5> QED
          BY <3>1, <5>1 DEF Quiet, Settled
      <4>1. conn[s] \in {"up", "gone"} /\ (conn[s] = "up" => sock[i] = s)
        BY <2>1, <2>3 DEF SlotOK, OwnOperations
      <4>2. conn[s] = "gone"
        <5>1. sock[i] = s => sock[i] # 0
          BY SlotBounds DEF Sockets
        <5> QED
          BY <2>1, <2>3, <4>1, <5>1 DEF SlotOK, QuietBetween
      <4>3. s \in Made
        BY <4>2 DEF Made
      <4> QED
        BY <3>1, <4>2, <4>3 DEF Settled
    <3>3. Quiet(i) => Quiet(i)'
      BY <1>2 DEF Quiet, sendVars
    <3>4. QuietBetween(i)'
      BY <1>2, <2>1, <2>3, <3>2, <3>3 DEF SlotOK, QuietBetween
    <3>5. OneReader(i)' /\ OwnOperations(i)' /\ OwnPackets(i)'
      BY <1>2, <2>1, <2>3 DEF SlotOK, OneReader, OwnOperations, OwnPackets, sendVars
    <3> QED
      BY <2>3, <3>4, <3>5 DEF SlotOK
  <2> QED
    BY <2>2, <2>3
<1> QED
  BY <1>3, <1>4 DEF SInv

(* PostAccept makes a socket that no slot has had. *)
LEMMA PostAcceptKeeps == ASSUME SInv, TablesInv, PostAccept PROVE SInv'
<1>0. PICK i : i = posting
  OBVIOUS
<1>1. /\ i \in Slots
      /\ disturbed' = disturbed \union
           {k \in {i} : ~Reusable(k) \/ \E s \in Sockets : <<k, s>> \in accepting}
      /\ UNCHANGED <<isConnect, at, recving, sendVars>>
  <2>1. posting \in 0 .. NumSlots
    BY DEF TablesInv, Tables
  <2> QED
    BY <1>0, <2>1, SlotAssumption DEF PostAccept, workVars, Slots
<1>2. \/ \E s \in Sockets :
           /\ s = Cardinality(Made) + 1
           /\ conn' = [conn EXCEPT ![s] = "fresh"] /\ sock' = [sock EXCEPT ![i] = s]
           /\ accepting' \in {accepting, accepting \union {<<i, s>>}}
           /\ closedTime' \in {[closedTime EXCEPT ![i] = "recent"], [closedTime EXCEPT ![i] = "max"]}
      \/ /\ sock' = [sock EXCEPT ![i] = 0] /\ closedTime' = [closedTime EXCEPT ![i] = "max"]
         /\ UNCHANGED <<conn, accepting>>
  BY <1>0 DEF PostAccept
<1>3. PICK m \in Nat : Made = 1 .. m
  BY DEF SInv, OwnSockets
<1>4. Cardinality(Made) = m
  BY <1>3, FS_Interval
<1>5. Network
  BY DEF SInv
<1>6. PICK s \in SocketId :
        /\ sock' = [sock EXCEPT ![i] = s]
        /\ closedTime' \in {[closedTime EXCEPT ![i] = "recent"], [closedTime EXCEPT ![i] = "max"]}
        /\ \/ s = 0 /\ UNCHANGED <<conn, accepting>>
           \/ /\ s # 0 /\ s \in Sockets /\ s = m + 1 /\ conn[s] = "none"
              /\ conn' = [conn EXCEPT ![s] = "fresh"]
              /\ accepting' \in {accepting, accepting \union {<<i, s>>}}
  <2>1. CASE \E s \in Sockets :
           /\ s = Cardinality(Made) + 1
           /\ conn' = [conn EXCEPT ![s] = "fresh"] /\ sock' = [sock EXCEPT ![i] = s]
           /\ accepting' \in {accepting, accepting \union {<<i, s>>}}
           /\ closedTime' \in {[closedTime EXCEPT ![i] = "recent"], [closedTime EXCEPT ![i] = "max"]}
    <3>1. PICK s \in Sockets :
           /\ s = Cardinality(Made) + 1
           /\ conn' = [conn EXCEPT ![s] = "fresh"] /\ sock' = [sock EXCEPT ![i] = s]
           /\ accepting' \in {accepting, accepting \union {<<i, s>>}}
           /\ closedTime' \in {[closedTime EXCEPT ![i] = "recent"], [closedTime EXCEPT ![i] = "max"]}
      BY <2>1
    <3>2. s = m + 1 /\ s # 0 /\ s \in SocketId
      BY <1>4, <3>1, SlotBounds DEF Sockets, SocketId
    <3>3. s \notin Made
      BY <1>3, <3>2
    <3>4. conn[s] = "none"
      BY <3>1, <3>3 DEF Made
    <3> QED
      BY <3>1, <3>2, <3>4
  <2>2. CASE /\ sock' = [sock EXCEPT ![i] = 0] /\ closedTime' = [closedTime EXCEPT ![i] = "max"]
             /\ UNCHANGED <<conn, accepting>>
    <3>1. 0 \in SocketId
      BY SlotBounds DEF SocketId
    <3> QED
      BY <2>2, <3>1
  <2> QED
    BY <1>2, <2>1, <2>2
<1>7. Network'
  <2>1. conn' \in [Sockets -> ConnState]
    BY <1>5, <1>6 DEF Network, ConnState
  <2>2. accepting' \subseteq Slots \X Sockets
    BY <1>1, <1>5, <1>6 DEF Network
  <2>3. sock' \in [Slots -> SocketId] /\ closedTime' \in [Slots -> {"recent", "old", "max"}]
    BY <1>5, <1>6 DEF Network
  <2>4. sending' = sending
    BY <1>1 DEF sendVars
  <2> QED
    BY <1>1, <1>5, <2>1, <2>2, <2>3, <2>4 DEF Network
<1>8. /\ sock'[i] = s /\ closedTime'[i] # "old"
      /\ \A j \in Slots : j # i => sock'[j] = sock[j] /\ closedTime'[j] = closedTime[j]
  BY <1>1, <1>5, <1>6 DEF Network
<1>9. \A t \in Sockets : conn'[t] = conn[t] \/ (t = s /\ conn[t] = "none" /\ conn'[t] = "fresh")
  BY <1>5, <1>6 DEF Network
<1>10. \A j \in Slots : sock[j] # 0 => sock[j] \in Sockets /\ sock[j] # s /\ conn[sock[j]] # "none"
  <2>1. ASSUME NEW j \in Slots, sock[j] # 0
        PROVE  sock[j] \in Sockets /\ conn[sock[j]] # "none"
    BY <1>5, <2>1, SocketOf DEF SInv, OwnSockets
  <2> QED
    BY <1>6, <2>1
<1>11. OwnSockets'
  <2>1. \E n \in Nat : Made' = 1 .. n
    <3>1. CASE conn' = conn
      BY <1>3, <3>1 DEF Made
    <3>2. CASE s \in Sockets /\ s = m + 1 /\ conn' = [conn EXCEPT ![s] = "fresh"]
      <4>1. Made' = Made \union {m + 1}
        BY <1>5, <3>2 DEF Made, Network
      <4>2. (1 .. m) \union {m + 1} = 1 .. m + 1
        OBVIOUS
      <4> QED
        BY <1>3, <4>1, <4>2
    <3> QED
      BY <1>6, <3>1, <3>2
  <2>2. ASSUME NEW j \in Slots, sock'[j] # 0
        PROVE  conn'[sock'[j]] # "none" /\ \A k \in Slots : sock'[k] = sock'[j] => k = j
    <3>1. CASE j = i
      <4>1. sock'[j] = s /\ s # 0 /\ conn'[s] = "fresh"
        BY <1>5, <1>6, <1>8, <2>2, <3>1 DEF Network
      <4> QED
        BY <1>8, <1>10, <3>1, <4>1
    <3>2. CASE j # i
      <4>1. sock'[j] = sock[j] /\ sock[j] # 0 /\ sock[j] # s /\ sock[j] \in Sockets
        BY <1>8, <1>10, <2>2, <3>2
      <4>2. conn'[sock[j]] # "none"
        BY <1>9, <1>10, <4>1
      <4> QED
        BY <1>1, <1>8, <4>1, <4>2 DEF SInv, OwnSockets
    <3> QED
      BY <3>1, <3>2
  <2> QED
    BY <2>1, <2>2 DEF OwnSockets
<1>12. Labels'
  BY <1>1 DEF SInv, Labels, sendVars
<1>13. ASSUME NEW j \in Slots, Undisturbed(j)' PROVE SlotOK(j)'
  <2>1. SlotOK(j) /\ j \notin crossed
    BY <1>1, <1>13 DEF SInv, Undisturbed, SlotOK, OwnPackets
  <2>2. CASE j # i
    <3>1. \A t \in Sockets : <<j, t>> \in accepting' => <<j, t>> \in accepting
      BY <1>6, <2>2
    <3>2. \A t \in Sockets : conn[t] \in {"up", "gone"} =>
            conn'[t] \in {"up", "gone"} /\ (conn'[t] = "up" => conn[t] = "up")
      BY <1>9
    <3>3. sock[j] # 0 /\ conn'[sock[j]] \in {"up", "gone"} => conn[sock[j]] \in {"up", "gone"}
      BY <1>9, <1>10
    <3> QED
      BY <1>1, <1>5, <1>8, <2>1, <2>2, <3>1, <3>2, <3>3, SlotKept DEF sendVars
  <2>3. CASE j = i
    <3>1. Reusable(i) /\ \A t \in Sockets : <<i, t>> \notin accepting
      BY <1>1, <1>13, <2>3 DEF Undisturbed
    <3>2. Quiet(i) /\ ~isConnect[i]
      BY <2>1, <2>3, <3>1 DEF SlotOK, QuietBetween, Reusable
    <3>3. Quiet(i)' /\ ~isConnect'[i]
      BY <1>1, <3>2 DEF Quiet, sendVars
    <3>4. \A t \in Sockets : <<i, t>> \in accepting' => t = s
      BY <1>6, <3>1
    <3>5. s # 0 => conn'[s] = "fresh"
      BY <1>5, <1>6 DEF Network
    <3>6. QuietBetween(i)'
      BY <1>8, <3>3, <3>4, <3>5 DEF QuietBetween
    <3>7. OneReader(i)' /\ OwnOperations(i)'
      BY <3>3 DEF Quiet, OneReader, OwnOperations
    <3>8. OwnPackets(i)'
      BY <1>1, <2>1, <2>3, <3>3 DEF Quiet, OwnPackets, sendVars
    <3> QED
      BY <2>3, <3>6, <3>7, <3>8 DEF SlotOK
  <2> QED
    BY <2>2, <2>3
<1> QED
  BY <1>7, <1>11, <1>12, <1>13 DEF SInv

(* The slots that a Disconnect of another one leaves alone. *)
LEMMA OthersKept ==
  ASSUME SInv, NEW i \in Slots, NEW j \in Slots, j # i, Undisturbed(j), Disconnect(i),
         Network, OwnSockets,
         recving' \in [Slots \X Sockets -> Nat],
         accepting' \subseteq accepting, sending' \subseteq sending,
         \A s \in Sockets : recving'[<<j, s>>] = recving[<<j, s>>],
         \A s \in Sockets : <<j, s>> \in sending => <<j, s>> \in sending',
         UNCHANGED <<at, madeFor, crossed>>
  PROVE  SlotOK(j)'
<1>1. accepting' \subseteq Slots \X Sockets /\ sending' \subseteq Slots \X Sockets
  BY DEF Network
<1>2. /\ isConnect'[j] = isConnect[j] /\ closedTime'[j] = closedTime[j] /\ sock'[j] = sock[j]
      /\ sock[j] # 0 => conn'[sock[j]] = conn[sock[j]]
      /\ \A s \in Sockets : conn[s] \in {"up", "gone"} =>
           conn'[s] \in {"up", "gone"} /\ (conn'[s] = "up" => conn[s] = "up")
  BY <1>1, DisconnectKeeps
<1>3. SlotOK(j) /\ j \notin crossed
  BY DEF SInv, SlotOK, OwnPackets
<1> QED
  BY <1>2, <1>3, SlotKept

(* AcceptCompletion: on a slot that is not disturbed the socket it binds   *)
(* is the one the client was accepted on.                                  *)
LEMMA AcceptKeeps ==
  ASSUME SInv, NEW w \in Workers, AcceptCompletion(w) PROVE SInv'
<1>1. PICK e \in accepting :
        /\ accepting' = accepting \ {e}
        /\ \E ok \in FirstOutcome(sock[e[1]]) :
             IF ok
             THEN /\ isConnect' = [isConnect EXCEPT ![e[1]] = TRUE]
                  /\ conn' = [conn EXCEPT ![sock[e[1]]] = Bound(@)]
                  /\ BindRecv(e[1])
                  /\ UNCHANGED <<sock, closedTime>>
             ELSE Disconnect(e[1]) /\ UNCHANGED recving
  BY DEF AcceptCompletion
<1>2. UNCHANGED <<at, sendVars, disturbed>>
  BY DEF AcceptCompletion, workVars
<1>3. Network /\ OwnSockets /\ accepting' \subseteq accepting
  BY <1>1 DEF SInv
<1>4. PICK i \in Slots, s0 \in Sockets : e = <<i, s0>>
  BY <1>3 DEF Network
<1>5. Labels'
  BY <1>2 DEF SInv, Labels, sendVars
<1>6. ASSUME Undisturbed(i)
      PROVE  SlotOK(i) /\ Quiet(i) /\ ~isConnect[i] /\ sock[i] = s0
             /\ \A s \in Sockets : <<i, s>> \notin accepting'
  <2>1. SlotOK(i)
    BY <1>6 DEF SInv
  <2>2. Quiet(i) /\ ~isConnect[i] /\ sock[i] = s0
        /\ \A s \in Sockets : <<i, s>> \in accepting => s = s0
    BY <1>1, <1>4, <2>1 DEF SlotOK, QuietBetween
  <2> QED
    BY <1>1, <1>4, <2>1, <2>2
<1>7. CASE Disconnect(i) /\ UNCHANGED recving
  <2>1. Network' /\ OwnSockets'
    BY <1>2, <1>3, <1>7, DisconnectKeeps DEF Network, sendVars
  <2>2. ASSUME NEW j \in Slots, Undisturbed(j)' PROVE SlotOK(j)'
    <3>1. Undisturbed(j)
      BY <1>2, <2>2 DEF Undisturbed
    <3>2. CASE j = i
      <4>1. SlotOK(i) /\ \A s \in Sockets : <<i, s>> \notin accepting'
        BY <1>6, <3>1, <3>2
      <4>2. i \notin crossed
        BY <4>1 DEF SlotOK, OwnPackets
      <4> QED
        BY <1>2, <1>3, <1>7, <3>2, <4>1, <4>2, SlotClosed DEF sendVars
    <3>3. CASE j # i
      <4>1. recving' \in [Slots \X Sockets -> Nat]
        BY <1>3, <1>7 DEF Network
      <4> QED
        BY <1>2, <1>3, <1>7, <3>1, <3>3, <4>1, OthersKept DEF sendVars
    <3> QED
      BY <3>2, <3>3
  <2> QED
    BY <1>5, <2>1, <2>2 DEF SInv
<1>8. CASE /\ TRUE \in FirstOutcome(sock[i])
           /\ isConnect' = [isConnect EXCEPT ![i] = TRUE]
           /\ conn' = [conn EXCEPT ![sock[i]] = Bound(@)]
           /\ BindRecv(i)
           /\ UNCHANGED <<sock, closedTime>>
  <2> DEFINE s1 == sock[i]
             c  == Bound(conn[s1])
  <2>1. s1 # 0 /\ c \in {"up", "gone"}
    BY <1>8 DEF FirstOutcome
  <2>2. s1 \in Sockets /\ s1' = s1
    BY <1>3, <1>8, <2>1, SocketOf
  <2>3. /\ recving' = [recving EXCEPT ![<<i, s1>>] = recving[<<i, s1>>] + 1]
        /\ recving[<<i, s1>>] \in Nat
    BY <1>3, <1>8, <2>2 DEF BindRecv, Network
  <2>4. /\ isConnect'[i] = TRUE /\ \A j \in Slots : j # i => isConnect'[j] = isConnect[j]
        /\ conn'[s1] = c /\ \A s \in Sockets : s # s1 => conn'[s] = conn[s]
    BY <1>3, <1>8, <2>2 DEF Network
  <2>5. /\ recving'[<<i, s1>>] = recving[<<i, s1>>] + 1
        /\ \A j \in Slots, s \in Sockets : <<j, s>> # <<i, s1>> =>
             recving'[<<j, s>>] = recving[<<j, s>>]
    BY <1>3, <2>2, <2>3 DEF Network
  <2>6. conn[s1] \in {"up", "gone"} => c = conn[s1]
    BY DEF Bound
  <2>7. c # "none" /\ conn[s1] # "none"
    BY <1>3, <2>1 DEF OwnSockets
  <2>typed. recving' \in [Slots \X Sockets -> Nat] /\ conn' \in [Sockets -> ConnState]
        /\ isConnect' \in [Slots -> BOOLEAN]
    <3>1. conn' \in [Sockets -> ConnState]
      <4>1. conn' = [conn EXCEPT ![s1] = c] /\ c \in ConnState
        BY <1>8, <2>1 DEF ConnState
      <4> HIDE DEF s1, c
      <4> QED
        BY <1>3, <4>1 DEF Network
    <3>2. recving' \in [Slots \X Sockets -> Nat]
      <4> DEFINE n == recving[<<i, s1>>] + 1
      <4>1. recving' = [recving EXCEPT ![<<i, s1>>] = n] /\ n \in Nat
        BY <2>3
      <4> HIDE DEF n
      <4> QED
        BY <1>3, <4>1 DEF Network
    <3>3. isConnect' \in [Slots -> BOOLEAN]
      BY <1>3, <1>8 DEF Network
    <3> QED
      BY <3>1, <3>2, <3>3
  <2> HIDE DEF s1, c
  <2>8. Network'
    BY <1>2, <1>3, <1>8, <2>typed DEF Network, sendVars
  <2>9. OwnSockets'
    <3>1. \A s \in Sockets : conn'[s] # "none" <=> conn[s] # "none"
      BY <2>4, <2>7
    <3>2. Made' = Made
      BY <3>1 DEF Made
    <3>3. \A j \in Slots : sock[j] # 0 => sock[j] \in Sockets
      BY <1>3, SocketOf
    <3> QED
      BY <1>3, <1>8, <3>1, <3>2, <3>3 DEF OwnSockets
  <2>10. ASSUME NEW j \in Slots, Undisturbed(j)' PROVE SlotOK(j)'
    <3>1. Undisturbed(j)
      BY <1>2, <2>10 DEF Undisturbed
    <3>2. CASE j # i
      <4>1. SlotOK(j) /\ j \notin crossed
        BY <3>1 DEF SInv, SlotOK, OwnPackets
      <4>2. sock[j] # 0 => sock[j] # s1 /\ sock[j] \in Sockets
        BY <1>3, <2>1, <3>2, SocketOf DEF OwnSockets, s1
      <4>3. \A s \in Sockets : conn[s] \in {"up", "gone"} => conn'[s] = conn[s]
        BY <2>4, <2>6
      <4>4. \A s \in Sockets : recving'[<<j, s>>] = recving[<<j, s>>]
        BY <2>5, <3>2
      <4>5. \A s \in Sockets : <<j, s>> \in accepting' => <<j, s>> \in accepting
        BY <1>3
      <4>6. sock[j] # 0 => conn'[sock[j]] = conn[sock[j]]
        BY <2>4, <4>2
      <4> QED
        BY <1>2, <1>3, <1>8, <2>4, <3>2, <4>1, <4>3, <4>4, <4>5, <4>6, SlotKept DEF sendVars
    <3>3. CASE j = i
      <4>1. SlotOK(i) /\ Quiet(i) /\ \A s \in Sockets : <<i, s>> \notin accepting'
        BY <1>6, <3>1, <3>3
      <4>2. /\ recving'[<<i, s1>>] = 1
            /\ \A s \in Sockets : s # s1 => recving'[<<i, s>>] = 0
        BY <2>2, <2>5, <4>1 DEF Quiet
      <4>3. /\ \A v \in Workers : at'[v] # i
            /\ \A s \in Sockets : <<i, s>> \notin sending'
        BY <1>2, <4>1 DEF Quiet, sendVars
      <4>4. sock'[i] = s1
        BY <1>8 DEF s1
      <4>5. QuietBetween(i)'
        BY <2>1, <2>4, <4>1, <4>4 DEF QuietBetween
      <4>6. OneReader(i)'
        BY <4>2, <4>3, <4>4 DEF OneReader
      <4>7. OwnOperations(i)'
        <5>1. ASSUME NEW s \in Sockets, recving'[<<i, s>>] > 0 \/ <<i, s>> \in sending'
              PROVE  s = s1
          BY <4>2, <4>3, <5>1
        <5> QED
          BY <2>1, <2>4, <4>4, <5>1 DEF OwnOperations
      <4>8. OwnPackets(i)'
        BY <1>2, <4>1, <4>3 DEF SlotOK, OwnPackets, sendVars
      <4> QED
        BY <3>3, <4>5, <4>6, <4>7, <4>8 DEF SlotOK
    <3> QED
      BY <3>2, <3>3
  <2> QED
    BY <1>5, <2>8, <2>9, <2>10 DEF SInv
<1>9. e[1] = i
  BY <1>4
<1>10. PICK ok \in FirstOutcome(sock[i]) :
         IF ok
         THEN /\ isConnect' = [isConnect EXCEPT ![i] = TRUE]
              /\ conn' = [conn EXCEPT ![sock[i]] = Bound(@)]
              /\ BindRecv(i)
              /\ UNCHANGED <<sock, closedTime>>
         ELSE Disconnect(i) /\ UNCHANGED recving
  BY <1>1, <1>9, Zenon
<1>11. ok \in BOOLEAN
  BY DEF FirstOutcome
<1> QED
  BY <1>7, <1>8, <1>10, <1>11

(* A receive that failed: the slot had no accept under way. *)
LEMMA RecvFailedKeeps ==
  ASSUME SInv, NEW w \in Workers, RecvFailed(w) PROVE SInv'
<1>1. PICK i \in Slots, s0 \in Made :
        /\ recving[<<i, s0>>] > 0
        /\ recving' = [recving EXCEPT ![<<i, s0>>] = recving[<<i, s0>>] - 1]
        /\ Disconnect(i)
  BY DEF RecvFailed
<1>2. UNCHANGED <<at, sendVars, disturbed, accepting>>
  BY DEF RecvFailed, workVars
<1>3. Network /\ OwnSockets /\ s0 \in Sockets
  BY DEF SInv, Made
<1>4. recving[<<i, s0>>] \in Nat
  BY <1>3 DEF Network
<1>5. /\ recving' \in [Slots \X Sockets -> Nat]
      /\ recving'[<<i, s0>>] = recving[<<i, s0>>] - 1
      /\ \A j \in Slots, s \in Sockets : <<j, s>> # <<i, s0>> =>
           recving'[<<j, s>>] = recving[<<j, s>>]
  BY <1>1, <1>3, <1>4 DEF Network
<1>6. Network' /\ OwnSockets'
  BY <1>1, <1>2, <1>3, <1>5, DisconnectKeeps DEF Network, sendVars
<1>7. Labels'
  BY <1>2 DEF SInv, Labels, sendVars
<1>8. ASSUME NEW j \in Slots, Undisturbed(j)' PROVE SlotOK(j)'
  <2>1. Undisturbed(j)
    BY <1>2, <1>8 DEF Undisturbed
  <2>2. CASE j # i
    BY <1>1, <1>2, <1>3, <1>5, <2>1, <2>2, OthersKept DEF sendVars
  <2>3. CASE j = i
    <3>1. SlotOK(i) /\ i \notin crossed
      BY <2>1, <2>3 DEF SInv, SlotOK, OwnPackets
    <3>2. recving[<<i, s0>>] = 1 /\ ~Quiet(i)
      BY <1>1, <1>3, <3>1 DEF SlotOK, OneReader, Quiet
    <3>3. \A s \in Sockets : <<i, s>> \notin accepting
      BY <3>1, <3>2 DEF SlotOK, QuietBetween
    <3>4. \A s \in Sockets : recving'[<<i, s>>] \in {recving[<<i, s>>], 0}
      BY <1>5, <3>2
    <3> QED
      BY <1>1, <1>2, <1>3, <2>3, <3>1, <3>3, <3>4, SlotClosed DEF sendVars
  <2> QED
    BY <2>2, <2>3
<1> QED
  BY <1>6, <1>7, <1>8 DEF SInv

(* A send that failed. *)
LEMMA SendFailedKeeps ==
  ASSUME SInv, NEW w \in Workers, SendFailed(w) PROVE SInv'
<1>1. PICK e \in sending : sending' = sending \ {e} /\ Disconnect(e[1])
  BY DEF SendFailed
<1>2. UNCHANGED <<at, sendQueue, madeFor, crossed, disturbed, accepting, recving>>
  BY DEF SendFailed, workVars, kernVars
<1>3. Network /\ OwnSockets
  BY DEF SInv
<1>4. PICK i \in Slots, s0 \in Sockets : e = <<i, s0>>
  BY <1>3 DEF Network
<1>5. Disconnect(i) /\ recving' \in [Slots \X Sockets -> Nat]
  <2>1. e[1] = i
    BY <1>4
  <2> QED
    BY <1>1, <1>2, <1>3, <2>1 DEF Network
<1>6. Network' /\ OwnSockets'
  BY <1>1, <1>2, <1>3, <1>5, DisconnectKeeps DEF Network
<1>7. Labels'
  BY <1>2 DEF SInv, Labels
<1>8. ASSUME NEW j \in Slots, Undisturbed(j)' PROVE SlotOK(j)'
  <2>1. Undisturbed(j)
    BY <1>2, <1>8 DEF Undisturbed
  <2>2. CASE j # i
    <3>1. \A s \in Sockets : <<j, s>> \in sending => <<j, s>> \in sending'
      BY <1>1, <1>4, <2>2
    <3> QED
      BY <1>1, <1>2, <1>3, <1>5, <2>1, <2>2, <3>1, OthersKept
  <2>3. CASE j = i
    <3>1. SlotOK(i) /\ i \notin crossed
      BY <2>1, <2>3 DEF SInv, SlotOK, OwnPackets
    <3>2. ~Quiet(i)
      BY <1>4 DEF Quiet
    <3>3. \A s \in Sockets : <<i, s>> \notin accepting
      BY <3>1, <3>2 DEF SlotOK, QuietBetween
    <3> QED
      BY <1>1, <1>2, <1>3, <1>5, <2>3, <3>1, <3>3, SlotClosed
  <2> QED
    BY <2>2, <2>3
<1> QED
  BY <1>6, <1>7, <1>8 DEF SInv

(* A worker that is idle is at no slot. *)
AtWork == \A w \in Workers : pc[w] = "idle" => at[w] = 0

LEMMA AtWorkStep == ASSUME TablesInv, AtWork, [Next]_vars PROVE AtWork'
<1>1. /\ pc \in [Workers -> {"idle", "connect", "read"}] /\ at \in [Workers -> 0 .. NumSlots]
  BY DEF TablesInv, Tables
<1>2. CASE UNCHANGED workVars
  BY <1>2 DEF AtWork, workVars
<1>3. ASSUME NEW w \in Workers, OnRecv(w) PROVE AtWork'
  <2>1. PICK i \in Slots, c \in {"connect", "read"} :
          at' = [at EXCEPT ![w] = i] /\ pc' = [pc EXCEPT ![w] = c]
    BY <1>3 DEF OnRecv
  <2> QED
    BY <1>1, <2>1 DEF AtWork
<1>4. ASSUME NEW w \in Workers, OnConnect(w) PROVE AtWork'
  BY <1>1, <1>4 DEF OnConnect, AtWork
<1>5. ASSUME NEW w \in Workers, ReadPackets(w) PROVE AtWork'
  BY <1>1, <1>5 DEF ReadPackets, AtWork
<1>6. \/ UNCHANGED workVars
      \/ \E w \in Workers : OnRecv(w) \/ OnConnect(w) \/ ReadPackets(w)
  BY DEF Next, WorkerThread, ChooseSlot, PostAccept, WaitOver, Dial, Reset,
         AcceptCompletion, AcceptFailed, RecvFailed, SendFailed, SendCompleted,
         ServeRequest, SendResponse, SendNotify, vars
<1> QED
  BY <1>2, <1>3, <1>4, <1>5, <1>6

(* OnRecv: the receive is over and the worker is at the slot instead. *)
LEMMA OnRecvKeeps ==
  ASSUME SInv, AtWork, TablesInv, NEW w \in Workers, OnRecv(w) PROVE SInv'
<1>1. PICK i \in Slots, s0 \in Made :
        /\ recving[<<i, s0>>] > 0
        /\ recving' = [recving EXCEPT ![<<i, s0>>] = recving[<<i, s0>>] - 1]
        /\ at' = [at EXCEPT ![w] = i]
  BY DEF OnRecv
<1>2. /\ UNCHANGED <<isConnect, closedTime, sock, conn, accepting, sendVars, disturbed>>
      /\ at[w] = 0 /\ at \in [Workers -> 0 .. NumSlots]
  BY DEF OnRecv, slotVars, AtWork, TablesInv, Tables
<1>3. Network /\ OwnSockets /\ s0 \in Sockets
  BY DEF SInv, Made
<1>4. /\ at'[w] = i /\ \A v \in Workers : v # w => at'[v] = at[v]
      /\ \A j \in Slots : j # 0
  BY <1>1, <1>2, SlotAssumption DEF Slots
<1>5. recving[<<i, s0>>] \in Nat /\ recving[<<i, s0>>] - 1 \in Nat
  BY <1>1, <1>3 DEF Network
<1>6. /\ recving' \in [Slots \X Sockets -> Nat]
      /\ recving'[<<i, s0>>] = recving[<<i, s0>>] - 1
      /\ \A j \in Slots, s \in Sockets : <<j, s>> # <<i, s0>> =>
           recving'[<<j, s>>] = recving[<<j, s>>]
  BY <1>1, <1>3, <1>5 DEF Network
<1>7. Network' /\ OwnSockets' /\ Labels'
  BY <1>2, <1>3, <1>6 DEF SInv, Network, OwnSockets, Labels, Made, sendVars
<1>8. ASSUME NEW j \in Slots, Undisturbed(j)' PROVE SlotOK(j)'
  <2>1. SlotOK(j) /\ j \notin crossed
    BY <1>2, <1>8 DEF Undisturbed, SInv, SlotOK, OwnPackets
  <2>2. CASE j # i
    <3>1. \A v \in Workers : at'[v] = j <=> at[v] = j
      BY <1>2, <1>4, <2>2
    <3>2. \A s \in Sockets : recving'[<<j, s>>] = recving[<<j, s>>]
      BY <1>6, <2>2
    <3> QED
      BY <1>2, <1>3, <2>1, <3>1, <3>2, SlotKept DEF sendVars
  <2>3. CASE j = i
    <3>1. /\ recving[<<i, s0>>] = 1 /\ ~Quiet(i) /\ \A v \in Workers : at[v] # i
          /\ \A s \in Sockets : recving[<<i, s>>] > 0 => s = s0
      BY <1>1, <1>3, <2>1, <2>3 DEF SlotOK, OneReader, Quiet
    <3>2. \A s \in Sockets : recving'[<<i, s>>] = 0
      <4>1. \A s \in Sockets : recving[<<i, s>>] \in Nat
        BY <1>3 DEF Network
      <4> QED
        BY <1>3, <1>6, <3>1, <4>1
    <3>3. QuietBetween(i)'
      BY <1>2, <2>1, <2>3, <3>1 DEF SlotOK, QuietBetween
    <3>4. OneReader(i)'
      BY <1>4, <3>1, <3>2 DEF OneReader
    <3>5. OwnOperations(i)'
      BY <1>2, <2>1, <2>3, <3>2 DEF SlotOK, OwnOperations, sendVars
    <3>6. OwnPackets(i)'
      BY <1>2, <2>1, <2>3 DEF SlotOK, OwnPackets, sendVars
    <3> QED
      BY <2>3, <3>3, <3>4, <3>5, <3>6 DEF SlotOK
  <2> QED
    BY <2>2, <2>3
<1> QED
  BY <1>7, <1>8 DEF SInv

(* The end of a worker's round: it leaves the slot and posts the next      *)
(* receive on the socket the slot has by now.                              *)
LEMMA ReadPacketsKeeps ==
  ASSUME SInv, TablesInv, Asked, NEW w \in Workers, ReadPackets(w) PROVE SInv'
<1>0. PICK i : i = at[w]
  OBVIOUS
<1>1. /\ i \in Slots /\ at' = [at EXCEPT ![w] = 0] /\ at \in [Workers -> 0 .. NumSlots]
      /\ UNCHANGED <<isConnect, closedTime, sock, conn, accepting, sendVars, disturbed>>
  BY <1>0 DEF ReadPackets, slotVars, Asked, TablesInv, Tables
<1>2. \/ TRUE \in Outcome(sock[i]) /\ BindRecv(i)
      \/ FALSE \in Outcome(sock[i]) /\ recving' = recving
  <2>1. PICK ok \in Outcome(sock[i]) : IF ok THEN BindRecv(i) ELSE UNCHANGED recving
    BY <1>0, Zenon DEF ReadPackets, Rebind
  <2>2. ok \in BOOLEAN
    BY DEF Outcome
  <2> QED
    BY <2>1, <2>2
<1>3. Network /\ OwnSockets
  BY DEF SInv
<1>4. /\ at'[w] = 0 /\ \A v \in Workers : v # w => at'[v] = at[v]
      /\ \A j \in Slots : j # 0
  BY <1>1, SlotAssumption DEF Slots
<1>5. /\ recving' \in [Slots \X Sockets -> Nat]
      /\ \A j \in Slots, s \in Sockets : <<j, s>> # <<i, sock[i]>> =>
           recving'[<<j, s>>] = recving[<<j, s>>]
      /\ \/ /\ sock[i] \in Sockets /\ sock[i] # 0 /\ conn[sock[i]] \in {"up", "gone"}
            /\ recving'[<<i, sock[i]>>] = recving[<<i, sock[i]>>] + 1
         \/ FALSE \in Outcome(sock[i]) /\ recving' = recving
  <2>1. CASE TRUE \in Outcome(sock[i]) /\ BindRecv(i)
    <3>1. sock[i] \in Sockets /\ sock[i] # 0 /\ conn[sock[i]] \in {"up", "gone"}
      BY <1>1, <1>3, <2>1, Succeeds
    <3> DEFINE n == recving[<<i, sock[i]>>] + 1
    <3>2. n \in Nat /\ recving' = [recving EXCEPT ![<<i, sock[i]>>] = n]
      BY <1>1, <1>3, <2>1, <3>1 DEF BindRecv, Network
    <3>3. n = recving[<<i, sock[i]>>] + 1
      OBVIOUS
    <3> HIDE DEF n
    <3>4. /\ recving' \in [Slots \X Sockets -> Nat] /\ recving'[<<i, sock[i]>>] = n
          /\ \A j \in Slots, s \in Sockets : <<j, s>> # <<i, sock[i]>> =>
               recving'[<<j, s>>] = recving[<<j, s>>]
      BY <1>1, <1>3, <3>1, <3>2 DEF Network
    <3> QED
      BY <3>1, <3>3, <3>4
  <2>2. CASE FALSE \in Outcome(sock[i]) /\ recving' = recving
    BY <1>3, <2>2 DEF Network
  <2> QED
    BY <1>2, <2>1, <2>2
<1>7. Network' /\ OwnSockets' /\ Labels'
  BY <1>1, <1>3, <1>5 DEF SInv, Network, OwnSockets, Labels, Made, sendVars
<1>8. ASSUME NEW j \in Slots, Undisturbed(j)' PROVE SlotOK(j)'
  <2>1. SlotOK(j) /\ j \notin crossed
    BY <1>1, <1>8 DEF Undisturbed, SInv, SlotOK, OwnPackets
  <2>2. CASE j # i
    <3>1. \A v \in Workers : at'[v] = j <=> at[v] = j
      BY <1>0, <1>4, <2>2
    <3>2. \A s \in Sockets : recving'[<<j, s>>] = recving[<<j, s>>]
      BY <1>5, <2>2
    <3> QED
      BY <1>1, <1>3, <2>1, <3>1, <3>2, SlotKept DEF sendVars
  <2>3. CASE j = i
    <3>1. ~Quiet(i) /\ \A v \in Workers : at'[v] # i
      BY <1>0, <1>4, <2>1, <2>3 DEF SlotOK, OneReader, Quiet
    <3>2. \A s \in Sockets : recving[<<i, s>>] = 0
      <4>1. \A s \in Sockets : recving[<<i, s>>] \in Nat
        BY <1>1, <1>3 DEF Network
      <4> QED
        BY <1>0, <2>1, <2>3, <4>1 DEF SlotOK, OneReader
    <3>3. QuietBetween(i)'
      BY <1>1, <2>1, <2>3, <3>1 DEF SlotOK, QuietBetween
    <3>4. \A s \in Sockets : recving'[<<i, s>>] > 0 =>
            /\ s = sock[i] /\ recving'[<<i, s>>] = 1
            /\ conn[s] \in {"up", "gone"}
      <4> SUFFICES ASSUME NEW s \in Sockets, recving'[<<i, s>>] > 0
                   PROVE  s = sock[i] /\ recving'[<<i, s>>] = 1 /\ conn[s] \in {"up", "gone"}
        OBVIOUS
      <4>1. recving[<<i, s>>] = 0 /\ recving' # recving
        BY <3>2
      <4>2. s = sock[i]
        <5>1. s # sock[i] => <<i, s>> # <<i, sock[i]>>
          OBVIOUS
        <5> QED
          BY <1>1, <1>5, <4>1, <5>1
      <4>3. /\ conn[sock[i]] \in {"up", "gone"}
            /\ recving'[<<i, sock[i]>>] = recving[<<i, sock[i]>>] + 1
        BY <1>5, <4>1
      <4> QED
        BY <4>1, <4>2, <4>3
    <3>5. isConnect[i] /\ conn[sock[i]] = "up" => recving'[<<i, sock[i]>>] = 1
      <4>1. isConnect[i] => sock[i] # 0
        BY <2>1, <2>3 DEF SlotOK, QuietBetween
      <4>2. isConnect[i] => sock[i] \in Sockets
        BY <1>1, <1>3, <4>1, SocketOf
      <4>3. isConnect[i] /\ conn[sock[i]] = "up" => FALSE \notin Outcome(sock[i])
        BY <4>1 DEF Outcome
      <4> SUFFICES ASSUME isConnect[i], conn[sock[i]] = "up"
                   PROVE  recving'[<<i, sock[i]>>] = 1
        OBVIOUS
      <4>4. recving'[<<i, sock[i]>>] = recving[<<i, sock[i]>>] + 1
        BY <1>5, <4>3
      <4>5. recving[<<i, sock[i]>>] = 0
        BY <3>2, <4>2
      <4> QED
        BY <4>4, <4>5
    <3>6. OneReader(i)'
      BY <1>1, <3>1, <3>4, <3>5 DEF OneReader
    <3>7. OwnOperations(i)'
      BY <1>1, <2>1, <2>3, <3>4 DEF SlotOK, OwnOperations, sendVars
    <3>8. OwnPackets(i)'
      BY <1>1, <2>1, <2>3 DEF SlotOK, OwnPackets, sendVars
    <3> QED
      BY <2>3, <3>3, <3>6, <3>7, <3>8 DEF SlotOK
  <2> QED
    BY <2>2, <2>3
<1> QED
  BY <1>7, <1>8 DEF SInv

(* SendMsg: the packet is queued behind the others, and posted when there  *)
(* are none.                                                               *)
LEMMA SubmitKeeps ==
  ASSUME SInv, QueueInv, NEW i \in Slots, SendMsg(i),
         UNCHANGED <<isConnect, closedTime, sock, conn, accepting, recving, at, disturbed>>
  PROVE  SInv'
<1>0. PICK s1, q : s1 = sock[i] /\ q = madeFor[i]
  OBVIOUS
<1>1. /\ sendQueue' = [sendQueue EXCEPT ![i] = Append(sendQueue[i], submitted[i] + 1)]
      /\ madeFor' = [madeFor EXCEPT ![i] = Append(q, s1)]
      /\ crossed' = crossed
  BY <1>0 DEF SendMsg
<1>2. \/ sendQueue[i] = <<>> /\ TRUE \in Outcome(sock[i]) /\ sending' = sending \union {<<i, s1>>}
      \/ sending' = sending
  <2>1. CASE sendQueue[i] = <<>>
    <3>1. PICK ok \in Outcome(sock[i]) :
            IF ok THEN sending' = sending \union {<<i, sock[i]>>} /\ UNCHANGED mute
                  ELSE sending' = sending /\ mute' = mute \union {i}
      BY <2>1, Zenon DEF SendMsg, SendIO
    <3>2. ok \in BOOLEAN
      BY DEF Outcome
    <3> QED
      BY <1>0, <2>1, <3>1, <3>2
  <2>2. CASE sendQueue[i] # <<>>
    BY <2>2 DEF SendMsg
  <2> QED
    BY <2>1, <2>2
<1>3. Network /\ OwnSockets /\ Labels
  BY DEF SInv
<1>4. /\ q \in Seq(SocketId) /\ s1 \in SocketId /\ Len(q) = Len(sendQueue[i])
      /\ sendQueue[i] \in Seq(Nat) /\ submitted[i] + 1 \in Nat
  BY <1>0, <1>3 DEF Network, Labels, QueueInv
<1>5. sendQueue[i] = <<>> => q = <<>>
  BY <1>4
<1>6. Append(q, s1) \in Seq(SocketId) /\ Len(Append(q, s1)) = Len(q) + 1
  BY <1>4
<1>7. Len(Append(sendQueue[i], submitted[i] + 1)) = Len(sendQueue[i]) + 1
  BY <1>4
<1>8. /\ madeFor'[i] = Append(q, s1) /\ \A j \in Slots : j # i => madeFor'[j] = madeFor[j]
      /\ madeFor' \in [Slots -> Seq(SocketId)]
  BY <1>1, <1>3, <1>6 DEF Labels
<1>9. Labels'
  <2>1. sendQueue \in [Slots -> Seq(Nat)]
    BY DEF QueueInv
  <2>2. /\ sendQueue'[i] = Append(sendQueue[i], submitted[i] + 1)
        /\ \A j \in Slots : j # i => sendQueue'[j] = sendQueue[j]
    BY <1>1, <2>1
  <2>3. ASSUME NEW j \in Slots PROVE Len(madeFor'[j]) = Len(sendQueue'[j])
    BY <1>3, <1>4, <1>6, <1>7, <1>8, <2>2 DEF Labels
  <2> QED
    BY <1>8, <2>3 DEF Labels
<1>10. sendQueue[i] = <<>> => \A s \in Sockets : <<i, s>> \notin sending
  BY DEF QueueInv
<1>11. TRUE \in Outcome(sock[i]) => s1 \in Sockets /\ s1 # 0 /\ conn[s1] \in {"up", "gone"}
  BY <1>0, <1>3, Succeeds
<1>12. Network'
  <2>1. sending' \subseteq Slots \X Sockets
    BY <1>2, <1>3, <1>11 DEF Network
  <2> QED
    BY <1>3, <2>1 DEF Network
<1>13. OwnSockets'
  BY <1>3 DEF OwnSockets, Made
<1>14. ASSUME NEW j \in Slots, Undisturbed(j)' PROVE SlotOK(j)'
  <2>1. SlotOK(j) /\ j \notin crossed
    BY <1>14 DEF Undisturbed, SInv, SlotOK, OwnPackets
  <2>2. CASE j # i
    <3>1. \A s \in Sockets : <<j, s>> \in sending' <=> <<j, s>> \in sending
      <4>1. \A s : <<j, s>> # <<i, s1>>
        BY <2>2
      <4> QED
        BY <1>2, <4>1
    <3> QED
      BY <1>1, <1>3, <1>8, <2>1, <2>2, <3>1, SlotKept
  <2>3. CASE j = i
    <3>1. OneReader(i)'
      BY <2>1, <2>3 DEF SlotOK, OneReader
    <3>2. ASSUME sending' # sending
          PROVE  /\ sending' = sending \union {<<i, s1>>} /\ q = <<>>
                 /\ s1 \in Sockets /\ conn[s1] \in {"up", "gone"} /\ isConnect[i]
                 /\ \A s \in Sockets : <<i, s>> \notin sending
      <4>1. sendQueue[i] = <<>> /\ TRUE \in Outcome(sock[i]) /\ sending' = sending \union {<<i, s1>>}
        BY <1>2, <3>2
      <4>2. isConnect[i]
        BY <1>0, <1>11, <2>1, <2>3, <4>1 DEF SlotOK, QuietBetween
      <4> QED
        BY <1>5, <1>10, <1>11, <4>1, <4>2
    <3>3. QuietBetween(i)'
      <4>1. ~isConnect[i] /\ Quiet(i) => Quiet(i)'
        BY <3>2 DEF Quiet
      <4> QED
        BY <2>1, <2>3, <4>1 DEF SlotOK, QuietBetween
    <3>4. OwnOperations(i)'
      BY <1>0, <2>1, <2>3, <3>2 DEF SlotOK, OwnOperations
    <3>5. OwnPackets(i)'
      <4> SUFFICES ASSUME NEW s \in Sockets, <<i, s>> \in sending'
                   PROVE  /\ Append(q, s1) # <<>> /\ Append(q, s1)[1] = s
                          /\ s1 = s => \A k \in DOMAIN Append(q, s1) : Append(q, s1)[k] = s
        BY <1>0, <1>1, <1>8, <2>1, <2>3 DEF OwnPackets
      <4>1. CASE sending' = sending
        <5>1. q # <<>> /\ q[1] = s /\ (s1 = s => \A k \in DOMAIN q : q[k] = s)
          BY <1>0, <2>1, <2>3, <4>1 DEF SlotOK, OwnPackets
        <5> QED
          BY <1>4, <5>1
      <4>2. CASE sending' # sending
        <5>1. s = s1 /\ q = <<>>
          BY <3>2, <4>2
        <5> QED
          BY <1>4, <5>1
      <4> QED
        BY <4>1, <4>2
    <3> QED
      BY <2>3, <3>1, <3>3, <3>4, <3>5 DEF SlotOK
  <2> QED
    BY <2>2, <2>3
<1> QED
  BY <1>9, <1>12, <1>13, <1>14 DEF SInv

(* A completed send: the packet went where it was made for, and the next   *)
(* one is posted on the slot's socket.                                     *)
LEMMA CompletedKeeps ==
  ASSUME SInv, QueueInv, NEW w \in Workers, SendCompleted(w) PROVE SInv'
<1>1. PICK e \in sending :
        /\ sendQueue' = [sendQueue EXCEPT ![e[1]] = Tail(sendQueue[e[1]])]
        /\ madeFor' = [madeFor EXCEPT ![e[1]] = Tail(madeFor[e[1]])]
        /\ crossed' = IF Head(madeFor[e[1]]) = e[2] THEN crossed ELSE crossed \union {e[1]}
        /\ PostNext(e[1], e)
  BY DEF SendCompleted
<1>2. UNCHANGED <<isConnect, closedTime, sock, conn, accepting, recving, at, disturbed>>
  BY DEF SendCompleted, slotVars, kernVars, workVars
<1>3. Network /\ OwnSockets /\ Labels
  BY DEF SInv
<1>4. PICK i \in Slots, s0 \in Sockets : e = <<i, s0>>
  BY <1>3 DEF Network
<1>5. PICK s1, q : s1 = sock[i] /\ q = madeFor[i]
  OBVIOUS
<1>6. /\ e[1] = i /\ e[2] = s0 /\ <<i, s0>> \in sending
  BY <1>4
<1>7. /\ sendQueue' = [sendQueue EXCEPT ![i] = Tail(sendQueue[i])]
      /\ madeFor' = [madeFor EXCEPT ![i] = Tail(q)]
      /\ crossed' = IF Head(q) = s0 THEN crossed ELSE crossed \union {i}
  BY <1>1, <1>5, <1>6
<1>8. \/ /\ Tail(sendQueue[i]) # <<>> /\ TRUE \in Outcome(sock[i])
         /\ sending' = (sending \ {<<i, s0>>}) \union {<<i, s1>>}
      \/ sending' = sending \ {<<i, s0>>}
  <2>1. PostNext(i, <<i, s0>>)
    BY <1>1, <1>4, <1>6
  <2>2. CASE Tail(sendQueue[i]) # <<>>
    <3>1. PICK ok \in Outcome(sock[i]) :
            IF ok THEN sending' = (sending \ {<<i, s0>>}) \union {<<i, sock[i]>>} /\ UNCHANGED mute
                  ELSE sending' = sending \ {<<i, s0>>} /\ mute' = mute \union {i}
      BY <2>1, <2>2, Zenon DEF PostNext, SendIO
    <3>2. ok \in BOOLEAN
      BY DEF Outcome
    <3> QED
      BY <1>5, <2>2, <3>1, <3>2
  <2>3. CASE Tail(sendQueue[i]) = <<>>
    BY <2>1, <2>3 DEF PostNext
  <2> QED
    BY <2>2, <2>3
<1>9. /\ q \in Seq(SocketId) /\ s1 \in SocketId /\ Len(q) = Len(sendQueue[i])
      /\ sendQueue[i] \in Seq(Nat) /\ sendQueue[i] # <<>>
  BY <1>3, <1>5, <1>6 DEF Network, Labels, QueueInv
<1>10. q # <<>> /\ Len(sendQueue[i]) # 0
  BY <1>9
<1>11. /\ Tail(q) \in Seq(SocketId) /\ Len(Tail(q)) = Len(q) - 1
       /\ Head(q) = q[1] /\ DOMAIN q = 1 .. Len(q)
       /\ \A k \in 1 .. Len(q) - 1 : Tail(q)[k] = q[k + 1]
  BY <1>9, <1>10
<1>12. Len(Tail(sendQueue[i])) = Len(sendQueue[i]) - 1
  BY <1>9
<1>13. /\ madeFor'[i] = Tail(q) /\ \A j \in Slots : j # i => madeFor'[j] = madeFor[j]
       /\ madeFor' \in [Slots -> Seq(SocketId)]
  BY <1>3, <1>7, <1>11 DEF Labels
<1>14. Labels'
  <2>1. sendQueue \in [Slots -> Seq(Nat)]
    BY DEF QueueInv
  <2>2. /\ sendQueue'[i] = Tail(sendQueue[i])
        /\ \A j \in Slots : j # i => sendQueue'[j] = sendQueue[j]
    BY <1>7, <2>1
  <2>3. ASSUME NEW j \in Slots PROVE Len(madeFor'[j]) = Len(sendQueue'[j])
    BY <1>3, <1>9, <1>11, <1>12, <1>13, <2>2 DEF Labels
  <2> QED
    BY <1>13, <2>3 DEF Labels
<1>15. TRUE \in Outcome(sock[i]) => s1 \in Sockets /\ s1 # 0 /\ conn[s1] \in {"up", "gone"}
  BY <1>3, <1>5, Succeeds
<1>16. Network'
  <2>1. sending' \subseteq Slots \X Sockets
    BY <1>3, <1>8, <1>15 DEF Network
  <2> QED
    BY <1>2, <1>3, <2>1 DEF Network
<1>17. OwnSockets'
  BY <1>2, <1>3 DEF OwnSockets, Made
<1>18. \A s \in Sockets : <<i, s>> \in sending => s = s0
  BY <1>6 DEF QueueInv
<1>19. ASSUME NEW j \in Slots, Undisturbed(j)' PROVE SlotOK(j)'
  <2>1. SlotOK(j) /\ j \notin crossed
    BY <1>2, <1>19 DEF Undisturbed, SInv, SlotOK, OwnPackets
  <2>2. CASE j # i
    <3>1. \A s \in Sockets : <<j, s>> \in sending' <=> <<j, s>> \in sending
      <4> SUFFICES ASSUME NEW s \in Sockets PROVE <<j, s>> \in sending' <=> <<j, s>> \in sending
        OBVIOUS
      <4>1. <<j, s>> # <<i, s1>> /\ <<j, s>> # <<i, s0>>
        BY <2>2
      <4>2. sending' = (sending \ {<<i, s0>>}) \union {<<i, s1>>} \/ sending' = sending \ {<<i, s0>>}
        BY <1>8
      <4> QED
        BY <4>1, <4>2
    <3>2. j \notin crossed'
      BY <1>7, <2>1, <2>2
    <3> QED
      BY <1>2, <1>3, <1>13, <2>1, <2>2, <3>1, <3>2, SlotKept
  <2>3. CASE j = i
    <3>1. OneReader(i)'
      BY <1>2, <2>1, <2>3 DEF SlotOK, OneReader
    <3>2. ~Quiet(i)
      BY <1>6 DEF Quiet
    <3>3. QuietBetween(i)'
      BY <1>2, <2>1, <2>3, <3>2 DEF SlotOK, QuietBetween
    <3>4. q[1] = s0 /\ (s1 = s0 => \A k \in DOMAIN q : q[k] = s0)
      BY <1>5, <1>6, <2>1, <2>3 DEF SlotOK, OwnPackets
    <3>5. i \notin crossed'
      BY <1>7, <1>11, <2>1, <2>3, <3>4
    <3>6. ASSUME NEW s \in Sockets, <<i, s>> \in sending'
          PROVE  s = s1 /\ s0 = s1 /\ Len(Tail(q)) # 0
      <4>1. /\ Tail(sendQueue[i]) # <<>> /\ TRUE \in Outcome(sock[i]) /\ s = s1
        <5>1. \A t : <<i, s>> = <<i, t>> => s = t
          OBVIOUS
        <5>2. <<i, s>> \notin sending \ {<<i, s0>>}
          BY <1>18
        <5> QED
          BY <1>8, <3>6, <5>1, <5>2
      <4>2. isConnect[i]
        BY <1>5, <1>15, <2>1, <2>3, <4>1 DEF SlotOK, QuietBetween
      <4>3. s1 = s0
        BY <1>5, <1>6, <2>1, <2>3, <4>2 DEF SlotOK, OwnOperations
      <4>4. Len(Tail(sendQueue[i])) # 0
        <5>1. PICK t : t = Tail(sendQueue[i])
          OBVIOUS
        <5>2. t \in Seq(Nat) /\ t # <<>>
          BY <1>9, <4>1, <5>1
        <5>3. Len(t) # 0
          BY <5>2
        <5> QED
          BY <5>1, <5>3
      <4> QED
        BY <1>9, <1>11, <1>12, <4>1, <4>3, <4>4
    <3>7. OwnOperations(i)'
      <4>1. \A s \in Sockets : <<i, s>> \in sending' => <<i, s>> \in sending
        BY <1>6, <3>6
      <4> QED
        BY <1>2, <2>1, <2>3, <4>1 DEF SlotOK, OwnOperations
    <3>8. OwnPackets(i)'
      <4> SUFFICES ASSUME NEW s \in Sockets, <<i, s>> \in sending'
                   PROVE  /\ Tail(q) # <<>> /\ Tail(q)[1] = s
                          /\ \A k \in DOMAIN Tail(q) : Tail(q)[k] = s
        BY <1>13, <3>5 DEF OwnPackets
      <4>1. s = s0 /\ Len(Tail(q)) # 0 /\ \A k \in DOMAIN q : q[k] = s
        BY <3>4, <3>6
      <4>2. Tail(q) # <<>> /\ DOMAIN Tail(q) = 1 .. Len(q) - 1 /\ Len(q) \in Nat /\ Len(q) - 1 # 0
        <5>1. PICK t : t = Tail(q)
          OBVIOUS
        <5>2. t \in Seq(SocketId) /\ Len(t) # 0 /\ Len(t) = Len(q) - 1
          BY <1>11, <4>1, <5>1
        <5>3. t # <<>> /\ DOMAIN t = 1 .. Len(t)
          BY <5>2
        <5>4. Len(q) \in Nat
          BY <1>9
        <5> QED
          BY <5>1, <5>2, <5>3, <5>4
      <4>3. ASSUME NEW k \in 1 .. Len(q) - 1 PROVE Tail(q)[k] = s
        <5>1. k + 1 \in DOMAIN q
          BY <1>11, <4>2
        <5> QED
          BY <1>11, <4>1, <5>1
      <4>4. 1 \in 1 .. Len(q) - 1
        BY <4>2, <1>10, <1>9
      <4> QED
        BY <4>2, <4>3, <4>4
    <3> QED
      BY <2>3, <3>1, <3>3, <3>7, <3>8 DEF SlotOK
  <2> QED
    BY <2>2, <2>3
<1> QED
  BY <1>14, <1>16, <1>17, <1>19 DEF SInv

(* How the network moves a connection on. *)
Moves == {<<"fresh", "dialed">>, <<"dialed", "lost">>, <<"up", "gone">>}

LEMMA ConnMoves ==
  ASSUME Network, NEW s \in Sockets, NEW c \in ConnState,
         conn' = [conn EXCEPT ![s] = c], <<conn[s], c>> \in Moves
  PROVE  /\ conn' \in [Sockets -> ConnState]
         /\ \A t \in Sockets : conn'[t] = conn[t] \/ <<conn[t], conn'[t]>> \in Moves
<1>1. /\ conn' \in [Sockets -> ConnState] /\ conn'[s] = c
      /\ \A t \in Sockets : t # s => conn'[t] = conn[t]
  BY DEF Network
<1> QED
  BY <1>1

(* The steps that touch no slot. *)
LEMMA OtherStepsKeep ==
  ASSUME SInv,
         UNCHANGED <<isConnect, closedTime, sock, at, recving, sendVars, disturbed>>,
         accepting' \subseteq accepting, conn' \in [Sockets -> ConnState],
         \A s \in Sockets : conn'[s] = conn[s] \/ <<conn[s], conn'[s]>> \in Moves
  PROVE  SInv'
<1>1. Network'
  BY DEF SInv, Network, sendVars
<1>2. \A s \in Sockets : /\ conn'[s] = "up" => conn[s] = "up"
                         /\ conn'[s] = "gone" => conn[s] \in {"up", "gone"}
                         /\ conn[s] \in {"up", "gone"} => conn'[s] \in {"up", "gone"}
                         /\ conn'[s] # "none" <=> conn[s] # "none"
  BY DEF Moves
<1>3. Made' = Made
  BY <1>2 DEF Made
<1> QED
  BY <1>1, <1>2, <1>3, NothingTouched

LEMMA SInit == Init => SInv
<1> SUFFICES ASSUME Init PROVE SInv
  OBVIOUS
<1>1. 0 \in SocketId /\ 0 \in Nat
  BY SlotBounds DEF SocketId
<1>2. Network
  BY <1>1 DEF Init, Network, ConnState
<1>3. OwnSockets
  <2>1. Made = 1 .. 0
    BY DEF Init, Made
  <2>2. \A i \in Slots : sock[i] = 0
    BY DEF Init
  <2> QED
    BY <2>1, <2>2 DEF OwnSockets
<1>4. Labels
  BY DEF Init, Labels
<1>5. ASSUME NEW i \in Slots PROVE SlotOK(i)
  <2>1. /\ ~isConnect[i] /\ sock[i] = 0 /\ \A w \in Workers : at[w] # i
        /\ \A s \in Sockets : recving[<<i, s>>] = 0
        /\ accepting = {} /\ sending = {} /\ crossed = {}
    BY SlotAssumption DEF Init, Slots
  <2> QED
    BY <2>1 DEF SlotOK, QuietBetween, Quiet, OneReader, OwnOperations, OwnPackets
<1> QED
  BY <1>2, <1>3, <1>4, <1>5 DEF SInv

LEMMA SStep == ASSUME IInv, AtWork, SInv, [Next]_vars PROVE SInv'
<1>1. TablesInv /\ QueueInv /\ Asked /\ Network
  BY DEF IInv, SInv
<1>2. CASE ChooseSlot \/ ServeRequest \/ UNCHANGED vars
  <2>1. UNCHANGED <<isConnect, closedTime, sock, at, recving, sendVars, disturbed, accepting, conn>>
    BY <1>2 DEF ChooseSlot, ServeRequest, vars, slotVars, kernVars, workVars
  <2> QED
    BY <1>1, <2>1, OtherStepsKeep DEF Network
<1>3. CASE Dial
  <2>1. UNCHANGED <<isConnect, closedTime, sock, at, recving, sendVars, disturbed, accepting>>
    BY <1>3 DEF Dial, slotVars, kernVars, workVars
  <2>2. PICK e \in accepting : conn[e[2]] = "fresh" /\ conn' = [conn EXCEPT ![e[2]] = "dialed"]
    BY <1>3 DEF Dial
  <2>3. PICK s \in Sockets : s = e[2]
    BY <1>1 DEF Network
  <2>4. /\ conn' = [conn EXCEPT ![s] = "dialed"] /\ "dialed" \in ConnState
        /\ <<conn[s], "dialed">> \in Moves
    BY <2>2, <2>3 DEF Moves, ConnState
  <2>5. /\ conn' \in [Sockets -> ConnState]
        /\ \A t \in Sockets : conn'[t] = conn[t] \/ <<conn[t], conn'[t]>> \in Moves
    BY <1>1, <2>4, ConnMoves
  <2> QED
    BY <2>1, <2>5, OtherStepsKeep
<1>4. CASE Reset
  <2>1. UNCHANGED <<isConnect, closedTime, sock, at, recving, sendVars, disturbed, accepting>>
    BY <1>4 DEF Reset, slotVars, kernVars, workVars
  <2>2. PICK s \in Made :
          \/ conn[s] = "dialed" /\ conn' = [conn EXCEPT ![s] = "lost"]
          \/ conn[s] = "up" /\ conn' = [conn EXCEPT ![s] = "gone"]
    BY <1>4 DEF Reset
  <2>3. s \in Sockets
    BY DEF Made
  <2>4. PICK c \in ConnState : conn' = [conn EXCEPT ![s] = c] /\ <<conn[s], c>> \in Moves
    BY <2>2 DEF Moves, ConnState
  <2>5. /\ conn' \in [Sockets -> ConnState]
        /\ \A t \in Sockets : conn'[t] = conn[t] \/ <<conn[t], conn'[t]>> \in Moves
    BY <1>1, <2>3, <2>4, ConnMoves
  <2> QED
    BY <2>1, <2>5, OtherStepsKeep
<1>5. ASSUME NEW w \in Workers, AcceptFailed(w) \/ OnConnect(w) PROVE SInv'
  <2>1. /\ UNCHANGED <<isConnect, closedTime, sock, at, recving, sendVars, disturbed, conn>>
        /\ accepting' \subseteq accepting
    BY <1>5 DEF AcceptFailed, OnConnect, slotVars, kernVars, workVars
  <2> QED
    BY <1>1, <2>1, OtherStepsKeep DEF Network
<1>6. ASSUME NEW k \in DOMAIN sessions, sessions[k].client # 0, SendMsg(sessions[k].client),
             UNCHANGED <<isConnect, closedTime, sock, conn, accepting, recving, at, disturbed>>
      PROVE  SInv'
  <2>1. sessions[k] \in SessionRec
    BY <1>1 DEF TablesInv, Tables
  <2>2. sessions[k].client \in Slots
    BY <1>6, <2>1, SlotAssumption DEF SessionRec, Slots
  <2> QED
    BY <1>1, <1>6, <2>2, SubmitKeeps
<1>7. ASSUME UNCHANGED sendVars,
             UNCHANGED <<isConnect, closedTime, sock, conn, accepting, recving, at, disturbed>>
      PROVE  SInv'
  BY <1>1, <1>7, OtherStepsKeep DEF Network
<1>8. CASE SendResponse
  <2>1. UNCHANGED <<isConnect, closedTime, sock, conn, accepting, recving, at, disturbed>>
    BY <1>8 DEF SendResponse, slotVars, kernVars, workVars
  <2>2. CASE sessions[serving].client = 0
    BY <1>7, <1>8, <2>1, <2>2 DEF SendResponse
  <2>3. CASE sessions[serving].client # 0
    <3>1. serving \in 0 .. Len(sessions) /\ serving # 0
      BY <1>1, <1>8 DEF Asked, SendResponse
    <3>2. DOMAIN sessions = 1 .. Len(sessions) /\ Len(sessions) \in Nat
      BY <1>1 DEF TablesInv, Tables
    <3>3. serving \in DOMAIN sessions
      BY <3>1, <3>2
    <3> QED
      BY <1>6, <1>8, <2>1, <2>3, <3>3 DEF SendResponse
  <2> QED
    BY <2>2, <2>3
<1>9. CASE SendNotify
  <2>1. UNCHANGED <<isConnect, closedTime, sock, conn, accepting, recving, at, disturbed>>
    BY <1>9 DEF SendNotify, slotVars, kernVars, workVars
  <2>2. PICK k \in DOMAIN sessions :
          IF sessions[k].client = 0 THEN fault' = "null" /\ UNCHANGED sendVars
                                    ELSE SendMsg(sessions[k].client) /\ UNCHANGED fault
    BY <1>9 DEF SendNotify
  <2> QED
    BY <1>6, <1>7, <2>1, <2>2
<1>10. CASE PostAccept \/ WaitOver
  BY <1>1, <1>10, PostAcceptKeeps, WaitOverKeeps
<1>11. ASSUME NEW w \in Workers,
              AcceptCompletion(w) \/ RecvFailed(w) \/ SendFailed(w) \/ OnRecv(w)
              \/ ReadPackets(w) \/ SendCompleted(w)
       PROVE  SInv'
  BY <1>1, <1>11, AcceptKeeps, RecvFailedKeeps, SendFailedKeeps, OnRecvKeeps,
     ReadPacketsKeeps, CompletedKeeps
<1> QED
  BY <1>2, <1>3, <1>4, <1>5, <1>8, <1>9, <1>10, <1>11 DEF Next, WorkerThread

(* What SlotOK says about who listens to a slot. *)
LEMMA SInvHeard == SInv => HeardOnce
<1> SUFFICES ASSUME SInv, NEW i \in Slots, Undisturbed(i), isConnect[i]
             PROVE  LET readers == Cardinality({w \in Workers : at[w] = i})
                                   + IF sock[i] = 0 THEN 0 ELSE recving[<<i, sock[i]>>]
                    IN readers <= 1 /\ (Outcome(sock[i]) = {TRUE} => readers = 1)
  BY DEF HeardOnce
<1> DEFINE W == {w \in Workers : at[w] = i}
           r == recving[<<i, sock[i]>>]
<1>1. SlotOK(i) /\ Network
  BY DEF SInv
<1>2. sock[i] # 0 /\ sock[i] \in Sockets
  BY <1>1, SocketOf DEF SlotOK, QuietBetween
<1>3. r \in Nat
  BY <1>1, <1>2 DEF Network
<1>4. Outcome(sock[i]) = {TRUE} => conn[sock[i]] = "up"
  <2>1. TRUE \in Outcome(sock[i]) => conn[sock[i]] \in {"up", "gone"}
    BY <1>2 DEF Outcome
  <2>2. conn[sock[i]] = "gone" => FALSE \in Outcome(sock[i])
    BY <1>2 DEF Outcome
  <2> QED
    BY <2>1, <2>2
<1>5. CASE W = {}
  <2>1. Cardinality(W) = 0
    BY <1>5, FS_EmptySet
  <2>2. r = 0 \/ r = 1
    BY <1>1, <1>2, <1>3 DEF SlotOK, OneReader
  <2>3. conn[sock[i]] = "up" => r = 1
    BY <1>1, <1>5 DEF SlotOK, OneReader
  <2>4. Cardinality(W) + (IF sock[i] = 0 THEN 0 ELSE r) = r
    BY <1>2, <1>3, <2>1
  <2>5. r <= 1
    BY <2>2
  <2>6. Outcome(sock[i]) = {TRUE} => r = 1
    BY <1>4, <2>3, Zenon
  <2> QED
    BY <2>4, <2>5, <2>6
<1>6. CASE W # {}
  <2>1. PICK w \in Workers : at[w] = i
    BY <1>6
  <2>2. W = {w}
    BY <1>1, <2>1 DEF SlotOK, OneReader
  <2>3. Cardinality(W) = 1
    BY <2>2, FS_Singleton
  <2>4. r = 0
    BY <1>1, <1>2, <1>3, <2>1 DEF SlotOK, OneReader
  <2> QED
    BY <1>2, <2>3, <2>4
<1> QED
  BY <1>5, <1>6

(* With any number of slots, workers and connections, a live connection of *)
(* a slot that was not reused too early is listened to exactly once:       *)
(* AcceptCompletion and the worker loop never leave two WSARecv on the     *)
(* slot's one buffer, nor a connection that is up without any.             *)
THEOREM HeardExactlyOnce == Spec => []HeardOnce
<1>1. Init => IInv /\ AtWork /\ SInv
  BY InitMaps, SInit DEF Init, AtWork
<1>2. IInv /\ AtWork /\ SInv /\ [Next]_vars => IInv' /\ AtWork' /\ SInv'
  BY StepMaps, AtWorkStep, SStep DEF IInv
<1> QED
  BY <1>1, <1>2, SInvHeard, PTL DEF Spec

(* Under the same condition no packet goes to another client than the one  *)
(* it was made for, although Disconnect leaves the queue as it is: a slot  *)
(* with a packet left over is mute, and a send that is under way when the  *)
(* slot is reused would have disturbed it.                                 *)
THEOREM NoPacketCrosses == Spec => []NoCrossTalk
<1>1. Init => IInv /\ AtWork /\ SInv
  BY InitMaps, SInit DEF Init, AtWork
<1>2. IInv /\ AtWork /\ SInv /\ [Next]_vars => IInv' /\ AtWork' /\ SInv'
  BY StepMaps, AtWorkStep, SStep DEF IInv
<1>3. SInv => NoCrossTalk
  BY DEF SInv, NoCrossTalk, SlotOK, OwnPackets
<1> QED
  BY <1>1, <1>2, <1>3, PTL DEF Spec
=============================================================================
