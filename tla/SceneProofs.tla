---------------------------- MODULE SceneProofs -----------------------------
(***************************************************************************)
(* Theorems about the clients' scenes composed with the server, for any    *)
(* number of clients and rooms: the scene a client has settled in is what  *)
(* the server believes, and only a client that was refused its seat takes  *)
(* the server down.  Users are patient, as in the run.                     *)
(***************************************************************************)
EXTENDS ClientScene, GameServerProofs

(* Sequences of whatever elements. *)
IsSeq(q) == q \in Seq({q[i] : i \in 1 .. Len(q)})

LEMMA SeqIs ==
  ASSUME NEW q, IsSeq(q)
  PROVE  /\ Len(q) \in Nat /\ DOMAIN q = 1 .. Len(q)
         /\ q = <<>> <=> Len(q) = 0
  BY DEF IsSeq

LEMMA SeqOf ==
  ASSUME NEW S, NEW q \in Seq(S) PROVE IsSeq(q)
<1> DEFINE T == {q[i] : i \in 1 .. Len(q)}
<1>1. \A i \in 1 .. Len(q) : q[i] \in T
  OBVIOUS
<1> HIDE DEF T
<1>2. q \in Seq(T)
  BY <1>1
<1> QED
  BY <1>2 DEF T, IsSeq

LEMMA EmptyIs == IsSeq(<<>>) /\ Len(<<>>) = 0
<1>1. <<>> \in Seq({})
  OBVIOUS
<1> QED
  BY <1>1, SeqOf

Appended(r, q, e) ==
  /\ IsSeq(r) /\ Len(r) = Len(q) + 1 /\ r[Len(q) + 1] = e
  /\ \A i \in 1 .. Len(q) : r[i] = q[i]

LEMMA AppendIs ==
  ASSUME NEW q, IsSeq(q), NEW e PROVE Appended(Append(q, e), q, e)
<1>0. PICK r : r = Append(q, e)
  OBVIOUS
<1> DEFINE T == {q[i] : i \in 1 .. Len(q)} \cup {e}
<1>1. \A i \in 1 .. Len(q) : q[i] \in T
  OBVIOUS
<1>2. e \in T
  OBVIOUS
<1>3. PICK S : q \in Seq(S)
  BY DEF IsSeq
<1> HIDE DEF T
<1>4. q \in Seq(T)
  BY <1>1, <1>3
<1>5. r \in Seq(T)
  BY <1>0, <1>2, <1>4
<1>6. IsSeq(r)
  BY <1>5, SeqOf
<1> QED
  BY <1>0, <1>4, <1>6 DEF Appended

Beheaded(r, q) ==
  /\ IsSeq(r) /\ Len(q) \in Nat \ {0} /\ Len(r) = Len(q) - 1 /\ Head(q) = q[1]
  /\ \A i \in 1 .. Len(r) : r[i] = q[i + 1]

LEMMA TailIs ==
  ASSUME NEW q, IsSeq(q), q # <<>> PROVE Beheaded(Tail(q), q)
<1>0. PICK r : r = Tail(q)
  OBVIOUS
<1>1. PICK S : q \in Seq(S)
  BY DEF IsSeq
<1>2. r \in Seq(S)
  BY <1>0, <1>1
<1>3. IsSeq(r)
  BY <1>2, SeqOf
<1> QED
  BY <1>0, <1>1, <1>3 DEF Beheaded

Popped(r, q) ==
  /\ IsSeq(r) /\ Len(q) \in Nat \ {0} /\ Len(r) = Len(q) - 1
  /\ \A i \in 1 .. Len(r) : r[i] = q[i]

LEMMA PopIs ==
  ASSUME NEW q, IsSeq(q), q # <<>> PROVE Popped(SubSeq(q, 1, Len(q) - 1), q)
<1>0. PICK r : r = SubSeq(q, 1, Len(q) - 1)
  OBVIOUS
<1>1. PICK S : q \in Seq(S)
  BY DEF IsSeq
<1>2. r \in Seq(S) /\ Len(r) = Len(q) - 1 /\ \A i \in 1 .. Len(r) : r[i] = q[i]
  <2>1. Len(q) \in Nat \ {0}
    BY <1>1
  <2>2. PICK n \in Nat : n = Len(q) - 1
    BY <2>1
  <2>3. \A i \in 1 .. n : i \in 1 .. Len(q) /\ q[i] \in S
    BY <1>1, <2>1, <2>2
  <2>4. /\ SubSeq(q, 1, n) \in Seq(S)
        /\ Len(SubSeq(q, 1, n)) = IF 1 <= n THEN n - 1 + 1 ELSE 0
        /\ \A i \in 1 .. n - 1 + 1 : SubSeq(q, 1, n)[i] = q[1 + i - 1]
    <3>1. 1 \in Int /\ n \in Int
      OBVIOUS
    <3>2. \A i \in 1 .. n : q[i] \in S
      BY <2>3
    <3> QED
      BY <3>1, <3>2, SubSeqProperties
  <2>5. r = SubSeq(q, 1, n)
    BY <1>0, <2>2
  <2>6. r \in Seq(S) /\ Len(r) = n
    BY <2>4, <2>5
  <2>7. \A i \in 1 .. n : r[i] = q[i]
    BY <2>4, <2>5
  <2> QED
    BY <2>2, <2>6, <2>7
<1>3. IsSeq(r)
  BY <1>2, SeqOf
<1> QED
  BY <1>0, <1>1, <1>2, <1>3 DEF Popped

Joined(r, p, q) ==
  /\ IsSeq(r) /\ Len(r) = Len(p) + Len(q)
  /\ \A i \in 1 .. Len(p) : r[i] = p[i]
  /\ \A i \in 1 .. Len(q) : r[Len(p) + i] = q[i]

LEMMA CatIs ==
  ASSUME NEW p, NEW q, IsSeq(p), IsSeq(q) PROVE Joined(p \o q, p, q)
<1>0. PICK r : r = p \o q
  OBVIOUS
<1> DEFINE T == {p[i] : i \in 1 .. Len(p)} \cup {q[i] : i \in 1 .. Len(q)}
<1>1. (\A i \in 1 .. Len(p) : p[i] \in T) /\ (\A i \in 1 .. Len(q) : q[i] \in T)
  OBVIOUS
<1>2. (\E S : p \in Seq(S)) /\ (\E S : q \in Seq(S))
  BY DEF IsSeq
<1> HIDE DEF T
<1>3. p \in Seq(T) /\ q \in Seq(T)
  <2>1. p \in Seq(T)
    BY <1>1, <1>2
  <2>2. q \in Seq(T)
    BY <1>1, <1>2
  <2> QED
    BY <2>1, <2>2
<1>4. r \in Seq(T) /\ Len(r) = Len(p) + Len(q)
  BY <1>0, <1>3
<1>5. IsSeq(r)
  BY <1>4, SeqOf
<1>6. \A i \in 1 .. Len(p) : r[i] = p[i]
  BY <1>0, <1>3
<1>7. \A i \in 1 .. Len(q) : r[Len(p) + i] = q[i]
  BY <1>0, <1>3
<1> QED
  BY <1>0, <1>4, <1>5, <1>6, <1>7 DEF Joined

Replaced(r, q, i, x) ==
  /\ IsSeq(r) /\ Len(r) = Len(q) /\ r[i] = x
  /\ \A j \in 1 .. Len(q) : j # i => r[j] = q[j]

LEMMA SetIs ==
  ASSUME NEW q, IsSeq(q), NEW i \in 1 .. Len(q), NEW x PROVE Replaced([q EXCEPT ![i] = x], q, i, x)
<1>0. PICK r : r = [q EXCEPT ![i] = x]
  OBVIOUS
<1> DEFINE T == {q[j] : j \in 1 .. Len(q)} \cup {x}
<1>1. (\A j \in 1 .. Len(q) : q[j] \in T) /\ x \in T
  OBVIOUS
<1>2. \E S : q \in Seq(S)
  BY DEF IsSeq
<1> HIDE DEF T
<1>3. q \in Seq(T)
  BY <1>1, <1>2
<1>4. r \in Seq(T) /\ Len(r) = Len(q)
  BY <1>0, <1>1, <1>3
<1>5. IsSeq(r)
  BY <1>4, SeqOf
<1> QED
  BY <1>0, <1>3, <1>5 DEF Replaced

-----------------------------------------------------------------------------
(* f lists the n numbers of S in increasing order. *)
Listing(f, n, S) ==
  /\ f \in [1 .. n -> S]
  /\ \A j, k \in 1 .. n : j < k => f[j] < f[k]
  /\ \A x \in S : \E k \in 1 .. n : f[k] = x

LEMMA NoneListed == Listing([k \in 1 .. 0 |-> 0], 0, {})
<1>1. \A k \in 1 .. 0 : FALSE
  OBVIOUS
<1> QED
  BY <1>1 DEF Listing

LEMMA ListMore ==
  ASSUME NEW f, NEW n \in Nat, NEW S, S \subseteq Nat, Listing(f, n, S),
         NEW y \in Nat, \A x \in S : x < y,
         NEW g, g = [k \in 1 .. n + 1 |-> IF k <= n THEN f[k] ELSE y]
  PROVE  Listing(g, n + 1, S \cup {y})
<1>1. \A k \in 1 .. n : k \in 1 .. n + 1 /\ g[k] = f[k] /\ f[k] \in S
  BY DEF Listing
<1>2. n + 1 \in 1 .. n + 1 /\ g[n + 1] = y
  OBVIOUS
<1>3. \A k \in 1 .. n + 1 : k = n + 1 \/ k \in 1 .. n
  OBVIOUS
<1>4. g \in [1 .. n + 1 -> S \cup {y}]
  BY <1>1, <1>2, <1>3
<1>5. ASSUME NEW j \in 1 .. n + 1, NEW k \in 1 .. n + 1, j < k PROVE g[j] < g[k]
  <2>1. j \in 1 .. n /\ g[j] = f[j] /\ f[j] \in S
    BY <1>1, <1>5
  <2>2. CASE k \in 1 .. n
    BY <1>1, <1>5, <2>1, <2>2 DEF Listing
  <2>3. CASE k = n + 1
    BY <1>2, <2>1, <2>3
  <2> QED
    BY <1>3, <2>2, <2>3
<1>6. ASSUME NEW x \in S \cup {y} PROVE \E k \in 1 .. n + 1 : g[k] = x
  BY <1>1, <1>2 DEF Listing
<1> QED
  BY <1>4, <1>5, <1>6 DEF Listing

(* The numbers of S when the first of what they count is taken away. *)
Down(S) == {x \in Nat \ {0} : x + 1 \in S}

LEMMA ListFirst ==
  ASSUME NEW f, NEW n \in Nat, NEW S, S \subseteq Nat \ {0}, Listing(f, n, S), 1 \in S,
         NEW g, g = [k \in 1 .. n - 1 |-> f[k + 1] - 1]
  PROVE  n # 0 /\ f[1] = 1 /\ Listing(g, n - 1, Down(S))
<1>1. PICK k1 \in 1 .. n : f[k1] = 1
  BY DEF Listing
<1>2. n # 0 /\ 1 \in 1 .. n
  BY <1>1
<1>3. \A k \in 1 .. n : f[k] \in S /\ f[k] \in Nat \ {0}
  BY DEF Listing
<1>4. f[1] = 1
  <2>1. ~(1 < k1)
    BY <1>1, <1>2, <1>3 DEF Listing
  <2> QED
    BY <1>1, <2>1
<1>5. ASSUME NEW k \in 1 .. n - 1
      PROVE  k + 1 \in 1 .. n /\ g[k] = f[k + 1] - 1 /\ f[k + 1] > 1
  BY <1>2, <1>3, <1>4 DEF Listing
<1>6. g \in [1 .. n - 1 -> Down(S)]
  <2>1. ASSUME NEW k \in 1 .. n - 1 PROVE g[k] \in Down(S)
    BY <1>3, <1>5 DEF Down
  <2> QED
    BY <2>1
<1>7. ASSUME NEW j \in 1 .. n - 1, NEW k \in 1 .. n - 1, j < k PROVE g[j] < g[k]
  <2>1. f[j + 1] < f[k + 1]
    BY <1>5, <1>7 DEF Listing
  <2> QED
    BY <1>3, <1>5, <2>1
<1>8. ASSUME NEW x \in Down(S) PROVE \E k \in 1 .. n - 1 : g[k] = x
  <2>1. x \in Nat \ {0} /\ x + 1 \in S
    BY DEF Down
  <2>2. PICK k \in 1 .. n : f[k] = x + 1
    BY <2>1 DEF Listing
  <2>3. k # 1
    BY <1>4, <2>1, <2>2
  <2>4. k - 1 \in 1 .. n - 1 /\ (k - 1) + 1 = k
    BY <2>3
  <2>5. g[k - 1] = f[(k - 1) + 1] - 1
    BY <1>5, <2>4
  <2>6. g[k - 1] = x
    BY <2>1, <2>2, <2>4, <2>5
  <2> QED
    BY <2>4, <2>6
<1> QED
  BY <1>2, <1>4, <1>6, <1>7, <1>8 DEF Listing

LEMMA ListRest ==
  ASSUME NEW f, NEW n \in Nat, NEW S, S \subseteq Nat \ {0}, Listing(f, n, S), 1 \notin S,
         NEW g, g = [k \in 1 .. n |-> f[k] - 1]
  PROVE  Listing(g, n, Down(S))
<1>1. \A k \in 1 .. n : f[k] \in S /\ f[k] \in Nat \ {0} /\ f[k] # 1 /\ g[k] = f[k] - 1
  BY DEF Listing
<1>2. g \in [1 .. n -> Down(S)]
  <2>1. ASSUME NEW k \in 1 .. n PROVE g[k] \in Down(S)
    BY <1>1 DEF Down
  <2> QED
    BY <2>1
<1>3. \A j, k \in 1 .. n : j < k => g[j] < g[k]
  BY <1>1 DEF Listing
<1>4. ASSUME NEW x \in Down(S) PROVE \E k \in 1 .. n : g[k] = x
  <2>1. x \in Nat \ {0} /\ x + 1 \in S
    BY DEF Down
  <2>2. PICK k \in 1 .. n : f[k] = x + 1
    BY <2>1 DEF Listing
  <2> QED
    BY <1>1, <2>1, <2>2
<1> QED
  BY <1>2, <1>3, <1>4 DEF Listing

-----------------------------------------------------------------------------
(* The requests of a client that are not yet answered for, oldest first:   *)
(* those that were sent, then those that wait for SendThread.              *)
Size(c)   == Len(c.stack) + Len(c.sendQueue)
Nth(c, i) == IF i <= Len(c.stack) THEN c.stack[i] ELSE c.sendQueue[i - Len(c.stack)]
Line(c)   == 1 .. Size(c)

SyncIds  == {"LOGIN", "ROOM_LIST", "ROOM_ENTER", "ROOM_CREATE", "ROOM_CAN_ENTER"}
PlainIds == {"ROOM_LIST", "GAME_START", "ROOM_LEAVE", "FALLING_BLOCK", "GAME_INPUT"}
NoteIds  == {"ROOM_ENTER", "GAME_START", "GAME_STOP", "GAME_INPUT"}
Clicks   == {"ROOM_LEAVE", "GAME_START"}

(* What the client relies on in an answer: a room's number, a list of them. *)
GoodData(id, d) ==
  /\ id = "ROOM_CREATE" => d[2] \in Nat
  /\ id = "ROOM_LIST" => \A i \in DOMAIN d : d[i][1] \in Nat

EntryFields == {"id", "arg", "sync", "ans"}
IsEntry(e) ==
  /\ e = [k \in EntryFields |-> e[k]]
  /\ e.arg \in Nat
  /\ \/ e.sync = TRUE /\ e.id \in SyncIds
     \/ e.sync = FALSE /\ e.id \in PlainIds

ClientFields == {"session", "scene", "room", "next", "wait", "list", "start", "mine", "enemy",
                 "fault", "sendQueue", "stack", "notes", "seated"}
IsClient(c) ==
  /\ c = [k \in ClientFields |-> c[k]]
  /\ IsSeq(c.stack) /\ IsSeq(c.sendQueue) /\ IsSeq(c.notes)
  /\ c.scene \in {"lobby", "game"}
  /\ c.seated \in BOOLEAN
  /\ \A i \in DOMAIN c.list : c.list[i] \in Nat
  /\ \A i \in 1 .. Len(c.notes) : c.notes[i].id \in NoteIds
  /\ \A i \in Line(c) : IsEntry(Nth(c, i))

(* The oldest a requests are the ones with an answer. *)
AnswersOK(c, a) ==
  \A i \in Line(c) :
    /\ Nth(c, i).ans = <<>> <=> i > a
    /\ i <= a => GoodData(Nth(c, i).id, Nth(c, i).ans[1])

(* SendSync waits for the newest request. *)
SyncLast(c) ==
  \A i \in Line(c) : Nth(c, i).sync => i = Size(c) /\ c.wait = Nth(c, i).id

(* A patient user leaves or starts one thing at a time. *)
NoClicks(c) == \A i \in Line(c) : Nth(c, i).id \notin Clicks
OneClick(c) ==
  \A i \in Line(c) : Nth(c, i).id \in Clicks =>
    /\ c.scene = "game" /\ c.wait = "none" /\ c.next = NoScene
    /\ \A j \in Line(c) : Nth(c, j).id \in Clicks => j = i

(* Where the next scene comes from: an answered ROOM_LEAVE or ROOM_CREATE. *)
Leaving(c, ro) == c.next = 0 /\ c.scene = "game" /\ c.wait = "none" /\ ro = 0 /\ NoClicks(c)
Created(c) == c.next \in Nat /\ c.wait = "ROOM_CREATE" /\ \A i \in Line(c) : ~Nth(c, i).sync

(* The scene of c and the room ro the server has it in, when the server    *)
(* has handled v of its requests.                                          *)
Place(c, v, ro) ==
  /\ ro # 0 => c.seated
  /\ c.scene = "lobby" => ro = 0 /\ \A i \in Line(c) : Nth(c, i).id # "ROOM_ENTER"
  /\ c.scene = "game" =>
       /\ ro \in {0, c.room}
       /\ \A i \in Line(c) : Nth(c, i).id = "ROOM_ENTER" =>
            Nth(c, i).arg = c.room /\ (i > v => ro = 0 /\ ~c.seated)
       /\ \A i \in 1 .. v : Nth(c, i).id = "ROOM_LEAVE" => ro = 0
       /\ c.next # 0 /\ (\A i \in 1 .. v : Nth(c, i).id # "ROOM_LEAVE") => (c.seated => ro # 0)

(* A client in the middle of a frame, after HandlerThread. *)
Mid(c, a, v, ro) ==
  /\ IsClient(c)
  /\ a \in 0 .. v /\ v \in 0 .. Len(c.stack)
  /\ AnswersOK(c, a)
  /\ SyncLast(c)
  /\ OneClick(c)
  /\ c.wait \in {"LOGIN", "ROOM_CREATE", "ROOM_CAN_ENTER"} => c.scene = "lobby"
  /\ c.next = NoScene \/ Leaving(c, ro) \/ Created(c)
  /\ Place(c, v, ro)

(* And between frames: the change of scene is done at once. *)
Good(c, a, v, ro) == Mid(c, a, v, ro) /\ (c.fault = "none" => c.next = NoScene)

(***************************************************************************)
(* How the requests st of the client s are spread: the first a have their  *)
(* answers, those of the next up to v are on the wire ws, and the rest is  *)
(* in the server's queue q, all in the order of sending.                   *)
(***************************************************************************)
Replies(ws) == {i \in 1 .. Len(ws) : ws[i].reply}
Mine(q, s)  == {i \in 1 .. Len(q) : q[i].session = s}

Wired(st, a, v, ws) ==
  \E w \in [1 .. v - a -> Replies(ws)] :
    /\ Listing(w, v - a, Replies(ws))
    /\ \A k \in 1 .. v - a :
         ws[w[k]].id = st[a + k].id /\ GoodData(ws[w[k]].id, ws[w[k]].data)

Waits(st, v, s, q) ==
  \E g \in [1 .. Len(st) - v -> Mine(q, s)] :
    /\ Listing(g, Len(st) - v, Mine(q, s))
    /\ \A k \in 1 .. Len(st) - v :
         q[g[k]].id = st[v + k].id /\ q[g[k]].arg = st[v + k].arg

Linked(st, a, v, ws, s, q) == Wired(st, a, v, ws) /\ Waits(st, v, s, q)

WireOK(ws) ==
  /\ IsSeq(ws)
  /\ \A i \in 1 .. Len(ws) : ws[i].reply \in BOOLEAN /\ (~ws[i].reply => ws[i].id \in NoteIds)

(* The server dies of a GAME_START or a GAME_STOP. *)
DownInv == ~up => Head(queue).id \in {"GAME_START", "GAME_STOP"}

(* The client c = client[s] and what it has with the server. *)
Settled(c, ws, q, s, ro) ==
  /\ WireOK(ws)
  /\ \E a \in 0 .. Len(c.stack), v \in 0 .. Len(c.stack) :
       Good(c, a, v, ro) /\ Linked(c.stack, a, v, ws, s, q)

SceneInv ==
  /\ IInv
  /\ DownInv
  /\ client = [s \in Session |-> client[s]]
  /\ wire = [s \in Session |-> wire[s]]
  /\ \A s \in Session : Settled(client[s], wire[s], queue, s, roomOf[s])

-----------------------------------------------------------------------------
LEMMA LineFacts ==
  ASSUME NEW c, IsSeq(c.stack), IsSeq(c.sendQueue)
  PROVE  /\ Len(c.stack) \in Nat /\ Len(c.sendQueue) \in Nat /\ Size(c) \in Nat
         /\ Size(c) = Len(c.stack) + Len(c.sendQueue)
         /\ \A i : i \in Line(c) <=> i \in Nat /\ 1 <= i /\ i <= Size(c)
         /\ \A i \in 1 .. Len(c.stack) : i \in Line(c) /\ Nth(c, i) = c.stack[i]
         /\ \A i \in 1 .. Len(c.sendQueue) :
              Len(c.stack) + i \in Line(c) /\ Nth(c, Len(c.stack) + i) = c.sendQueue[i]
         /\ \A i \in Line(c) : \/ i \in 1 .. Len(c.stack)
                               \/ \E k \in 1 .. Len(c.sendQueue) : i = Len(c.stack) + k
<1>2. Len(c.stack) \in Nat /\ Len(c.sendQueue) \in Nat
  BY SeqIs
<1>3. PICK n \in Nat : n = Len(c.stack)
  BY <1>2
<1>4. PICK m \in Nat : m = Len(c.sendQueue)
  BY <1>2
<1>5. PICK p : p = c.stack
  OBVIOUS
<1>6. PICK q : q = c.sendQueue
  OBVIOUS
<1>7. Size(c) = n + m /\ Line(c) = 1 .. n + m
  BY <1>3, <1>4 DEF Size, Line
<1>8. \A i : Nth(c, i) = IF i <= n THEN p[i] ELSE q[i - n]
  BY <1>3, <1>5, <1>6 DEF Nth
<1>9. Size(c) \in Nat /\ \A i : i \in Line(c) <=> i \in Nat /\ 1 <= i /\ i <= Size(c)
  BY <1>7
<1>10. \A i \in 1 .. n : i \in Line(c) /\ Nth(c, i) = p[i]
  BY <1>7, <1>8
<1>11. \A i \in 1 .. m : n + i \in Line(c) /\ Nth(c, n + i) = q[i]
  BY <1>7, <1>8
<1>12. ASSUME NEW i \in Line(c), i \notin 1 .. n PROVE \E k \in 1 .. m : i = n + k
  <2>1. i - n \in 1 .. m /\ i = n + (i - n)
    BY <1>7, <1>12
  <2> QED
    BY <2>1
<1> QED
  BY <1>3, <1>4, <1>5, <1>6, <1>7, <1>9, <1>10, <1>11, <1>12

LEMMA SizeFacts ==
  ASSUME NEW c, IsSeq(c.stack), IsSeq(c.sendQueue)
  PROVE  Len(c.stack) \in Nat /\ Size(c) \in Nat /\ Len(c.stack) <= Size(c)
<1>1. /\ Len(c.stack) \in Nat /\ Len(c.sendQueue) \in Nat /\ Size(c) \in Nat
      /\ Size(c) = Len(c.stack) + Len(c.sendQueue)
  BY LineFacts
<1>2. Len(c.stack) <= Size(c)
  <2>1. PICK n \in Nat, m \in Nat : n = Len(c.stack) /\ m = Len(c.sendQueue)
    BY <1>1
  <2>2. Size(c) = n + m
    BY <2>1 DEF Size
  <2>3. n <= n + m
    OBVIOUS
  <2>4. n <= Size(c)
    BY <2>2, <2>3
  <2> QED
    BY <2>1, <2>4
<1> QED
  BY <1>1, <1>2

(* The fields that say where a client is. *)
SamePlace(r, c) ==
  /\ r.scene = c.scene /\ r.room = c.room /\ r.next = c.next /\ r.seated = c.seated
  /\ r.wait = c.wait

OneMore(r, c, e) ==
  /\ IsClient(r) /\ SamePlace(r, c) /\ r.stack = c.stack /\ r.fault = c.fault
  /\ Size(r) = Size(c) + 1 /\ Size(r) \in Line(r) /\ Nth(r, Size(r)) = e
  /\ \A i \in Line(c) : i \in Line(r) /\ Nth(r, i) = Nth(c, i)
  /\ \A i \in Line(r) : i \in Line(c) \/ i = Size(r)

LEMMA QueueIs ==
  ASSUME NEW c, IsClient(c), NEW id, NEW arg \in Nat, NEW sync \in BOOLEAN,
         id \in IF sync THEN SyncIds ELSE PlainIds
  PROVE  OneMore(Queue(c, id, arg, sync), c,
                 [id |-> id, arg |-> arg, sync |-> sync, ans |-> <<>>])
<1>0. PICK r : r = Queue(c, id, arg, sync)
  OBVIOUS
<1> DEFINE e == [id |-> id, arg |-> arg, sync |-> sync, ans |-> <<>>]
<1>1. IsEntry(e)
  <2>1. e = [k \in EntryFields |-> e[k]]
    BY DEF EntryFields
  <2> QED
    BY <2>1 DEF IsEntry
<1>2. PICK x : x = e
  OBVIOUS
<1> HIDE DEF e
<1>3. r = [c EXCEPT !.sendQueue = Append(c.sendQueue, x)]
  BY <1>0, <1>2 DEF Queue, e
<1>4. c = [k \in ClientFields |-> c[k]]
  BY DEF IsClient
<1>5. /\ r = [k \in ClientFields |-> r[k]]
      /\ SamePlace(r, c) /\ r.stack = c.stack /\ r.notes = c.notes /\ r.fault = c.fault
      /\ r.list = c.list /\ r.sendQueue = Append(c.sendQueue, x)
  BY <1>3, <1>4 DEF ClientFields, SamePlace
<1>6. IsSeq(c.stack) /\ IsSeq(c.sendQueue) /\ IsSeq(c.notes)
  BY DEF IsClient
<1>7. PICK q : q = r.sendQueue
  OBVIOUS
<1>8. /\ IsSeq(q) /\ Len(q) = Len(c.sendQueue) + 1 /\ q[Len(c.sendQueue) + 1] = x
      /\ \A i \in 1 .. Len(c.sendQueue) : q[i] = c.sendQueue[i]
  <2>1. q = Append(c.sendQueue, x)
    BY <1>5, <1>7
  <2>2. Appended(Append(c.sendQueue, x), c.sendQueue, x)
    BY <1>6, AppendIs, Zenon
  <2> QED
    BY <2>1, <2>2 DEF Appended
<1>9. PICK n \in Nat, m \in Nat : n = Len(c.stack) /\ m = Len(c.sendQueue)
  BY <1>6, SeqIs
<1>10. /\ Size(c) = n + m
       /\ \A i : i \in Line(c) <=> i \in Nat /\ 1 <= i /\ i <= n + m
       /\ \A i \in 1 .. n : Nth(c, i) = c.stack[i]
       /\ \A i \in 1 .. m : Nth(c, n + i) = c.sendQueue[i]
       /\ \A i \in Line(c) : i \in 1 .. n \/ \E k \in 1 .. m : i = n + k
  BY <1>6, <1>9, LineFacts
<1>11. /\ Size(r) = n + (m + 1)
       /\ \A i : i \in Line(r) <=> i \in Nat /\ 1 <= i /\ i <= n + (m + 1)
       /\ \A i \in 1 .. n : Nth(r, i) = c.stack[i]
       /\ \A i \in 1 .. m + 1 : Nth(r, n + i) = q[i]
  <2>1. IsSeq(r.stack) /\ IsSeq(r.sendQueue) /\ Len(r.stack) = n /\ Len(r.sendQueue) = m + 1
    BY <1>5, <1>6, <1>7, <1>8, <1>9
  <2>2. /\ Size(r) = n + (m + 1)
        /\ \A i : i \in Line(r) <=> i \in Nat /\ 1 <= i /\ i <= Size(r)
        /\ \A i \in 1 .. n : Nth(r, i) = r.stack[i]
        /\ \A i \in 1 .. m + 1 : Nth(r, n + i) = r.sendQueue[i]
    BY <2>1, LineFacts
  <2> QED
    BY <1>5, <1>7, <2>2
<1>12. Size(r) = Size(c) + 1 /\ Size(r) \in Line(r) /\ Nth(r, Size(r)) = x
  <2>1. m + 1 \in 1 .. m + 1 /\ q[m + 1] = x
    BY <1>8, <1>9
  <2> QED
    BY <1>10, <1>11, <2>1
<1>13. ASSUME NEW i \in Line(c) PROVE i \in Line(r) /\ Nth(r, i) = Nth(c, i)
  <2>1. i \in Line(r)
    BY <1>10, <1>11
  <2>2. CASE i \in 1 .. n
    BY <1>10, <1>11, <2>1, <2>2
  <2>3. ASSUME NEW k \in 1 .. m, i = n + k PROVE Nth(r, i) = Nth(c, i)
    BY <1>8, <1>9, <1>10, <1>11, <2>3
  <2> QED
    BY <1>10, <2>1, <2>2, <2>3
<1>14. \A i \in Line(r) : i \in Line(c) \/ i = Size(r)
  BY <1>10, <1>11
<1>15. \A i \in Line(r) : IsEntry(Nth(r, i))
  BY <1>1, <1>2, <1>12, <1>13, <1>14 DEF IsClient
<1>16. IsClient(r)
  BY <1>5, <1>6, <1>7, <1>8, <1>15 DEF IsClient, SamePlace
<1> QED
  BY <1>0, <1>2, <1>5, <1>12, <1>13, <1>14, <1>16 DEF e, OneMore

(* The rest of a client may change without a word about its requests. *)
SameLine(r, c) == r.stack = c.stack /\ r.sendQueue = c.sendQueue

LEMMA SameIs ==
  ASSUME NEW c, IsClient(c), NEW r, SameLine(r, c),
         r = [k \in ClientFields |-> r[k]], r.scene \in {"lobby", "game"}, r.seated \in BOOLEAN,
         \A i \in DOMAIN r.list : r.list[i] \in Nat,
         IsSeq(r.notes), \A i \in 1 .. Len(r.notes) : r.notes[i].id \in NoteIds
  PROVE  IsClient(r)
<1>1. Line(r) = Line(c) /\ \A i : Nth(r, i) = Nth(c, i)
  BY DEF SameLine, Line, Size, Nth
<1> QED
  BY <1>1 DEF IsClient, SameLine

LEMMA SameNth ==
  ASSUME NEW c, NEW r, SameLine(r, c)
  PROVE  Size(r) = Size(c) /\ Line(r) = Line(c) /\ \A i : Nth(r, i) = Nth(c, i)
  BY DEF SameLine, Line, Size, Nth

OneLess(r, c) ==
  /\ IsClient(r) /\ SamePlace(r, c) /\ r.fault = c.fault /\ r.notes = c.notes
  /\ Len(c.stack) \in Nat \ {0} /\ Len(r.stack) = Len(c.stack) - 1
  /\ Size(r) = Size(c) - 1 /\ Size(c) \in Nat
  /\ \A i \in Line(r) : i < Len(c.stack) => i \in Line(c) /\ Nth(r, i) = Nth(c, i)
  /\ \A i \in Line(r) : i >= Len(c.stack) => i + 1 \in Line(c) /\ Nth(r, i) = Nth(c, i + 1)

LEMMA StackIs ==
  ASSUME NEW c, IsClient(c), NEW st, Popped(st, c.stack), NEW r, r = [c EXCEPT !.stack = st]
  PROVE  OneLess(r, c)
<1>1. c = [k \in ClientFields |-> c[k]]
  BY DEF IsClient
<1>3. /\ r = [k \in ClientFields |-> r[k]]
      /\ SamePlace(r, c) /\ r.stack = st /\ r.notes = c.notes /\ r.fault = c.fault
      /\ r.list = c.list /\ r.sendQueue = c.sendQueue
  BY <1>1 DEF ClientFields, SamePlace
<1>4. IsSeq(c.stack) /\ IsSeq(c.sendQueue) /\ IsSeq(c.notes)
  BY DEF IsClient
<1>6. PICK n \in Nat, m \in Nat : n + 1 = Len(c.stack) /\ m = Len(c.sendQueue)
  <2>1. Len(c.stack) \in Nat \ {0} /\ Len(c.sendQueue) \in Nat
    BY <1>4, SeqIs DEF Popped
  <2>2. Len(c.stack) - 1 \in Nat /\ (Len(c.stack) - 1) + 1 = Len(c.stack)
    BY <2>1
  <2> QED
    BY <2>1, <2>2
<1>7. IsSeq(st) /\ Len(st) = n /\ \A i \in 1 .. n : st[i] = c.stack[i]
  BY <1>6 DEF Popped
<1>8. /\ Size(c) = n + 1 + m
      /\ \A i : i \in Line(c) <=> i \in Nat /\ 1 <= i /\ i <= n + 1 + m
      /\ \A i \in 1 .. n + 1 : Nth(c, i) = c.stack[i]
      /\ \A i \in 1 .. m : Nth(c, n + 1 + i) = c.sendQueue[i]
  BY <1>4, <1>6, LineFacts
<1>9. /\ Size(r) = n + m
      /\ \A i : i \in Line(r) <=> i \in Nat /\ 1 <= i /\ i <= n + m
      /\ \A i \in 1 .. n : Nth(r, i) = st[i]
      /\ \A i \in 1 .. m : Nth(r, n + i) = c.sendQueue[i]
      /\ \A i \in Line(r) : i \in 1 .. n \/ \E k \in 1 .. m : i = n + k
  <2>1. IsSeq(r.stack) /\ IsSeq(r.sendQueue) /\ Len(r.stack) = n /\ Len(r.sendQueue) = m
    BY <1>3, <1>4, <1>6, <1>7
  <2>2. /\ Size(r) = n + m
        /\ \A i : i \in Line(r) <=> i \in Nat /\ 1 <= i /\ i <= Size(r)
        /\ \A i \in 1 .. n : Nth(r, i) = r.stack[i]
        /\ \A i \in 1 .. m : Nth(r, n + i) = r.sendQueue[i]
        /\ \A i \in Line(r) : i \in 1 .. n \/ \E k \in 1 .. m : i = n + k
    BY <2>1, LineFacts
  <2> QED
    BY <1>3, <2>2
<1>10. ASSUME NEW i \in Line(r), i < n + 1 PROVE i \in Line(c) /\ Nth(r, i) = Nth(c, i)
  <2>1. i \in 1 .. n /\ i \in 1 .. n + 1 /\ i \in Line(c)
    BY <1>8, <1>9, <1>10
  <2> QED
    BY <1>7, <1>8, <1>9, <2>1
<1>11. ASSUME NEW i \in Line(r), i >= n + 1 PROVE i + 1 \in Line(c) /\ Nth(r, i) = Nth(c, i + 1)
  <2>1. PICK k \in 1 .. m : i = n + k
    BY <1>9, <1>11
  <2>2. i + 1 = n + 1 + k /\ i + 1 \in Line(c)
    BY <1>8, <2>1
  <2> QED
    BY <1>8, <1>9, <2>1, <2>2
<1>12. \A i \in Line(r) : IsEntry(Nth(r, i))
  <2>1. \A i \in Line(r) : i < n + 1 \/ i >= n + 1
    BY <1>9
  <2> QED
    BY <1>10, <1>11, <2>1 DEF IsClient
<1>13. IsClient(r)
  BY <1>3, <1>4, <1>7, <1>12 DEF IsClient, SamePlace
<1>14. Len(c.stack) \in Nat \ {0} /\ Len(r.stack) = Len(c.stack) - 1 /\ Size(r) = Size(c) - 1 /\ Size(c) \in Nat
  BY <1>3, <1>6, <1>7, <1>8, <1>9
<1> QED
  BY <1>3, <1>6, <1>10, <1>11, <1>13, <1>14 DEF OneLess

(* What a response or a notification does. *)
LEMMA ResponseIs ==
  ASSUME NEW c, IsClient(c), NEW id, NEW d, GoodData(id, d), NEW r, r = OnResponse(c, id, d)
  PROVE  /\ IsClient(r) /\ SameLine(r, c) /\ r.notes = c.notes
         /\ r.scene = c.scene /\ r.room = c.room /\ r.seated = c.seated /\ r.wait = c.wait
         /\ r.next = IF id = "ROOM_CREATE" THEN d[2] ELSE IF id = "ROOM_LEAVE" THEN 0 ELSE c.next
<1> DEFINE Ok == /\ r = [k \in ClientFields |-> r[k]] /\ SameLine(r, c) /\ r.notes = c.notes
                 /\ r.scene = c.scene /\ r.room = c.room /\ r.seated = c.seated /\ r.wait = c.wait
                 /\ r.next = IF id = "ROOM_CREATE" THEN d[2]
                             ELSE IF id = "ROOM_LEAVE" THEN 0 ELSE c.next
                 /\ \A i \in DOMAIN r.list : r.list[i] \in Nat
<1>1. c = [k \in ClientFields |-> c[k]] /\ \A i \in DOMAIN c.list : c.list[i] \in Nat
  BY DEF IsClient
<1>2. Ok
  <2>2. CASE id = "LOGIN"
    BY <1>1, <2>2 DEF OnResponse, ClientFields, SameLine
  <2>3. CASE id = "ROOM_CREATE"
    BY <1>1, <2>3 DEF OnResponse, ClientFields, SameLine
  <2>4. CASE id = "ROOM_LEAVE"
    BY <1>1, <2>4 DEF OnResponse, ClientFields, SameLine
  <2>5. CASE id = "ROOM_LIST"
    <3>1. r = OnRoomList(c, d)
      BY <2>5 DEF OnResponse
    <3>2. PICK rl : rl = [i \in DOMAIN d |-> d[i][1]]
      OBVIOUS
    <3>3. DOMAIN rl = DOMAIN d /\ \A i \in DOMAIN rl : rl[i] \in Nat
      BY <2>5, <3>2 DEF GoodData
    <3>4. PICK f : f = IF Pressing(c) THEN "iterator" ELSE c.fault
      OBVIOUS
    <3>5. r = c \/ r = [c EXCEPT !.list = rl, !.fault = f]
      BY <3>1, <3>2, <3>4 DEF OnRoomList
    <3> QED
      BY <1>1, <2>5, <3>3, <3>5 DEF ClientFields, SameLine
  <2>6. CASE id = "ROOM_ENTER"
    <3>1. r = OnRoomEnter(c, d[Len(d)])
      BY <2>6 DEF OnResponse
    <3>2. r = c \/ r = [c EXCEPT !.mine = FALSE] \/ r = [c EXCEPT !.enemy = FALSE]
      BY <3>1 DEF OnRoomEnter
    <3> QED
      BY <1>1, <2>6, <3>2 DEF ClientFields, SameLine
  <2>7. CASE id = "GAME_START"
    <3>1. r = OnGameStart(c)
      BY <2>7 DEF OnResponse
    <3>2. \/ r = c \/ r = [c EXCEPT !.fault = "null"]
          \/ r = [c EXCEPT !.mine = TRUE, !.enemy = TRUE, !.start = "off"]
      BY <3>1 DEF OnGameStart
    <3> QED
      BY <1>1, <2>7, <3>2 DEF ClientFields, SameLine
  <2>8. CASE id \notin {"LOGIN", "ROOM_CREATE", "ROOM_LEAVE", "ROOM_LIST", "ROOM_ENTER", "GAME_START"}
    <3>1. r = c
      BY <2>8 DEF OnResponse
    <3> QED
      BY <1>1, <2>8, <3>1 DEF SameLine
  <2> QED
    BY <2>2, <2>3, <2>4, <2>5, <2>6, <2>7, <2>8
<1>3. IsClient(r)
  BY <1>2, SameIs DEF IsClient
<1> QED
  BY <1>2, <1>3

-----------------------------------------------------------------------------
(* A frame's steps, one at a time.  First what comes of the answers. *)
LEMMA MidSame ==
  ASSUME NEW c, NEW a, NEW v, NEW ro, Mid(c, a, v, ro),
         NEW r, IsClient(r), SameLine(r, c), SamePlace(r, c)
  PROVE  Mid(r, a, v, ro)
<1>1. Size(r) = Size(c) /\ Line(r) = Line(c) /\ \A i : Nth(r, i) = Nth(c, i)
  BY SameNth
<1>2. AnswersOK(r, a) /\ SyncLast(r) /\ OneClick(r) /\ Place(r, v, ro)
  BY <1>1 DEF Mid, SamePlace, AnswersOK, SyncLast, OneClick, Place
<1>3. r.next = NoScene \/ Leaving(r, ro) \/ Created(r)
  BY <1>1 DEF Mid, SamePlace, Leaving, Created, NoClicks
<1> QED
  BY <1>2, <1>3 DEF Mid, SamePlace, SameLine

(* Server::HandlerThread without an answer. *)
LEMMA NotifyKeeps ==
  ASSUME NEW c, NEW a, NEW v, NEW ro, Mid(c, a, v, ro), NEW r, r = HandleNotify(c)
  PROVE  Mid(r, a, v, ro) /\ SameLine(r, c) /\ SamePlace(r, c)
<1>1. CASE r = c
  BY <1>1 DEF SameLine, SamePlace
<1>2. CASE c.notes # <<>> /\ c.fault = "none"
  <2>1. PICK x : x = [c EXCEPT !.notes = Tail(c.notes)]
    OBVIOUS
  <2>2. IsClient(c) /\ IsSeq(c.notes) /\ c = [k \in ClientFields |-> c[k]]
    BY DEF Mid, IsClient
  <2>3. Beheaded(Tail(c.notes), c.notes)
    BY <1>2, <2>2, TailIs
  <2>4. PICK t : t = Tail(c.notes)
    OBVIOUS
  <2>5. Beheaded(t, c.notes) /\ x = [c EXCEPT !.notes = t]
    BY <2>1, <2>3, <2>4
  <2>6. /\ x = [k \in ClientFields |-> x[k]] /\ x.notes = t
        /\ SameLine(x, c) /\ SamePlace(x, c) /\ x.list = c.list
    BY <2>2, <2>5 DEF ClientFields, SameLine, SamePlace
  <2>7. /\ IsSeq(t) /\ \A i \in 1 .. Len(t) : t[i].id \in NoteIds
        /\ Head(c.notes).id \in NoteIds
    <3>1. \A i \in 1 .. Len(c.notes) : c.notes[i].id \in NoteIds
      BY <2>2 DEF IsClient
    <3>2. 1 \in 1 .. Len(c.notes) /\ \A i \in 1 .. Len(t) : i + 1 \in 1 .. Len(c.notes)
      <4>1. PICK n \in Nat \ {0} : n = Len(c.notes)
        BY <2>5 DEF Beheaded
      <4>2. Len(t) = n - 1
        BY <2>5, <4>1 DEF Beheaded
      <4> QED
        BY <4>1, <4>2
    <3> QED
      BY <2>5, <3>1, <3>2 DEF Beheaded
  <2>8. IsClient(x)
    BY <2>2, <2>6, <2>7, SameIs DEF IsClient, SamePlace
  <2>9. Mid(x, a, v, ro)
    BY <2>6, <2>8, MidSame
  <2>10. PICK id : id = Head(c.notes).id
    OBVIOUS
  <2>11. PICK d : d = Head(c.notes).data
    OBVIOUS
  <2>12. r = OnResponse(x, id, d)
    BY <1>2, <2>1, <2>10, <2>11 DEF HandleNotify
  <2>13. GoodData(id, d) /\ id \notin {"ROOM_CREATE", "ROOM_LEAVE"}
    BY <2>7, <2>10 DEF GoodData, NoteIds
  <2>14. IsClient(r) /\ SameLine(r, x) /\ SamePlace(r, x)
    BY <2>8, <2>12, <2>13, ResponseIs DEF SamePlace
  <2>15. Mid(r, a, v, ro)
    BY <2>9, <2>14, MidSame
  <2> QED
    BY <2>6, <2>14, <2>15 DEF SameLine, SamePlace
<1> QED
  BY <1>1, <1>2 DEF HandleNotify

(* The answer on top: every request that was sent has its answer then. *)
AfterAnswer(r, c) ==
  /\ Popped(r.stack, c.stack) /\ r.sendQueue = c.sendQueue
  /\ r.wait = c.wait /\ r.scene = c.scene
  /\ IsEntry(Top(c)) /\ GoodData(Top(c).id, Top(c).ans[1])
  /\ Top(c).sync => /\ c.wait = Top(c).id /\ NoClicks(r)
                    /\ \A i \in Line(r) : ~Nth(r, i).sync
  /\ Top(c).id \in Clicks => c.wait = "none"
  /\ r.next = IF Top(c).id = "ROOM_CREATE" THEN Top(c).ans[1][2]
              ELSE IF Top(c).id = "ROOM_LEAVE" THEN 0 ELSE NoScene

LEMMA AnswerKeeps ==
  ASSUME NEW c, NEW a, NEW v, NEW ro, Mid(c, a, v, ro), c.next = NoScene, Answered(c),
         NEW r, r = HandleResponse(c)
  PROVE  /\ a = Len(c.stack) /\ v = Len(c.stack) /\ Len(c.stack) \in Nat \ {0}
         /\ Mid(r, Len(c.stack) - 1, Len(c.stack) - 1, ro) /\ AfterAnswer(r, c)
<1>1. /\ IsClient(c) /\ IsSeq(c.stack) /\ IsSeq(c.sendQueue)
      /\ a \in 0 .. v /\ v \in 0 .. Len(c.stack)
      /\ AnswersOK(c, a) /\ SyncLast(c) /\ OneClick(c) /\ Place(c, v, ro)
      /\ c.wait \in {"LOGIN", "ROOM_CREATE", "ROOM_CAN_ENTER"} => c.scene = "lobby"
  BY DEF Mid, IsClient
<1>2. c.stack # <<>> /\ c.stack[Len(c.stack)].ans # <<>>
  BY DEF Answered
<1>3. PICK n : n = Len(c.stack)
  OBVIOUS
<1>4. n \in Nat \ {0}
  BY <1>1, <1>2, <1>3, SeqIs
<1>5. PICK t : t = c.stack[n]
  OBVIOUS
<1>6. PICK st : st = SubSeq(c.stack, 1, Len(c.stack) - 1)
  OBVIOUS
<1>7. Popped(st, c.stack)
  BY <1>1, <1>2, <1>6, PopIs
<1>8. PICK x : x = [c EXCEPT !.stack = st]
  OBVIOUS
<1>9. r = OnResponse(x, t.id, t.ans[1]) /\ Top(c) = t
  BY <1>3, <1>5, <1>6, <1>8 DEF HandleResponse, Top
<1>10. /\ IsClient(x) /\ SamePlace(x, c) /\ x.fault = c.fault
       /\ Len(x.stack) = n - 1 /\ Size(x) = Size(c) - 1 /\ Size(c) \in Nat
       /\ \A i \in Line(x) : i < n => i \in Line(c) /\ Nth(x, i) = Nth(c, i)
       /\ \A i \in Line(x) : i >= n => i + 1 \in Line(c) /\ Nth(x, i) = Nth(c, i + 1)
  <2>1. OneLess(x, c)
    BY <1>1, <1>7, <1>8, StackIs
  <2> QED
    BY <1>3, <2>1 DEF OneLess
<1>11. x.stack = st /\ x.sendQueue = c.sendQueue
  BY <1>1, <1>8 DEF IsClient, ClientFields
<1>12. n \in Line(c) /\ Nth(c, n) = t /\ t.ans # <<>> /\ IsEntry(t) /\ n <= Size(c)
  <2>1. n \in 1 .. Len(c.stack)
    BY <1>3, <1>4
  <2> QED
    BY <1>1, <1>2, <1>3, <1>5, <2>1, LineFacts DEF IsClient
<1>13. a = n /\ v = n
  <2>1. ~(n > a)
    BY <1>1, <1>12 DEF AnswersOK
  <2> QED
    BY <1>1, <1>3, <1>4, <2>1
<1>14. GoodData(t.id, t.ans[1])
  BY <1>1, <1>4, <1>12, <1>13 DEF AnswersOK
<1>15. /\ IsClient(r) /\ SameLine(r, x)
       /\ r.scene = c.scene /\ r.room = c.room /\ r.seated = c.seated /\ r.wait = c.wait
       /\ r.next = IF t.id = "ROOM_CREATE" THEN t.ans[1][2]
                   ELSE IF t.id = "ROOM_LEAVE" THEN 0 ELSE NoScene
  BY <1>9, <1>10, <1>14, ResponseIs DEF SamePlace
<1>16. PICK j : j = [i \in Line(r) |-> IF i < n THEN i ELSE i + 1]
  OBVIOUS
<1>17. /\ Size(r) = Size(c) - 1 /\ Len(r.stack) = n - 1
       /\ \A i \in Line(r) : /\ i \in Nat \ {0} /\ i <= Size(r)
                             /\ j[i] = IF i < n THEN i ELSE i + 1
                             /\ j[i] \in Line(c) /\ j[i] # n /\ Nth(r, i) = Nth(c, j[i])
  <2>1. Size(r) = Size(x) /\ Line(r) = Line(x) /\ \A i : Nth(r, i) = Nth(x, i)
    BY <1>15, SameNth
  <2>2. \A i \in Line(r) : i \in Nat \ {0} /\ i <= Size(r)
    BY <1>10, <2>1 DEF Line
  <2>3. Len(r.stack) = n - 1
    BY <1>10, <1>15 DEF SameLine
  <2> QED
    BY <1>4, <1>10, <1>16, <2>1, <2>2, <2>3
<1>18. AnswersOK(r, n - 1)
  <2>1. ASSUME NEW i \in Line(r)
        PROVE  /\ Nth(r, i).ans = <<>> <=> i > n - 1
               /\ i <= n - 1 => GoodData(Nth(r, i).id, Nth(r, i).ans[1])
    <3>1. /\ Nth(r, i) = Nth(c, j[i]) /\ Nth(c, j[i]).ans = <<>> <=> j[i] > n
          /\ j[i] <= n => GoodData(Nth(c, j[i]).id, Nth(c, j[i]).ans[1])
      BY <1>1, <1>13, <1>17 DEF AnswersOK
    <3>2. (j[i] > n <=> i > n - 1) /\ (i <= n - 1 => j[i] <= n)
      BY <1>4, <1>17
    <3> QED
      BY <1>1, <1>13, <1>17, <3>1, <3>2 DEF AnswersOK
  <2> QED
    BY <2>1 DEF AnswersOK
<1>19. SyncLast(r)
  <2>1. ASSUME NEW i \in Line(r), Nth(r, i).sync PROVE i = Size(r) /\ r.wait = Nth(r, i).id
    <3>1. j[i] = Size(c) /\ c.wait = Nth(c, j[i]).id
      BY <1>1, <1>17, <2>1 DEF SyncLast
    <3>2. i = Size(r)
      <4>1. PICK m \in Nat : m = Size(c)
        BY <1>10
      <4>2. Size(r) = m - 1 /\ i \in Nat /\ i <= m - 1 /\ (i = m \/ i + 1 = m)
        BY <1>17, <3>1, <4>1
      <4> QED
        BY <4>1, <4>2
    <3> QED
      BY <1>15, <1>17, <3>1, <3>2
  <2> QED
    BY <2>1 DEF SyncLast
<1>20. t.sync => /\ c.wait = t.id /\ NoClicks(r) /\ \A i \in Line(r) : ~Nth(r, i).sync
  <2> SUFFICES ASSUME t.sync
               PROVE  /\ c.wait = t.id /\ NoClicks(r) /\ \A i \in Line(r) : ~Nth(r, i).sync
    OBVIOUS
  <2>1. n = Size(c) /\ c.wait = t.id
    BY <1>1, <1>12 DEF SyncLast
  <2>2. c.wait # "none"
    BY <1>12, <2>1 DEF IsEntry, SyncIds, PlainIds
  <2>3. NoClicks(r)
    BY <1>1, <1>17, <2>2 DEF NoClicks, OneClick
  <2>4. \A i \in Line(r) : ~Nth(r, i).sync
    BY <1>1, <1>17, <2>1 DEF SyncLast
  <2> QED
    BY <2>1, <2>3, <2>4
<1>21. t.id = "ROOM_CREATE" => t.sync
  BY <1>12 DEF IsEntry, PlainIds
<1>22. OneClick(r)
  <2>1. ASSUME NEW i \in Line(r), Nth(r, i).id \in Clicks
        PROVE  /\ r.scene = "game" /\ r.wait = "none" /\ r.next = NoScene
               /\ \A k \in Line(r) : Nth(r, k).id \in Clicks => k = i
    <3>1. /\ c.scene = "game" /\ c.wait = "none"
          /\ \A k \in Line(c) : Nth(c, k).id \in Clicks => k = j[i]
      BY <1>1, <1>17, <2>1 DEF OneClick
    <3>2. t.id \notin Clicks
      BY <1>12, <1>17, <3>1
    <3>3. t.id # "ROOM_CREATE"
      BY <1>20, <1>21, <3>1
    <3>4. r.next = NoScene
      BY <1>15, <3>2, <3>3 DEF Clicks
    <3>5. ASSUME NEW k \in Line(r), Nth(r, k).id \in Clicks PROVE k = i
      <4>1. j[k] = j[i]
        BY <1>17, <3>1, <3>5
      <4> QED
        BY <1>4, <1>17, <4>1
    <3> QED
      BY <1>15, <3>1, <3>4, <3>5
  <2> QED
    BY <2>1 DEF OneClick
<1>23. t.id = "ROOM_LEAVE" => ro = 0 /\ Leaving(r, ro)
  <2> SUFFICES ASSUME t.id = "ROOM_LEAVE" PROVE ro = 0 /\ Leaving(r, ro)
    OBVIOUS
  <2>1. /\ c.scene = "game" /\ c.wait = "none"
        /\ \A k \in Line(c) : Nth(c, k).id \in Clicks => k = n
    BY <1>1, <1>12 DEF OneClick, Clicks
  <2>2. ro = 0
    BY <1>1, <1>4, <1>12, <1>13, <2>1 DEF Place
  <2>3. NoClicks(r)
    BY <1>17, <2>1 DEF NoClicks
  <2> QED
    BY <1>15, <2>1, <2>2, <2>3 DEF Leaving
<1>24. r.next = NoScene \/ Leaving(r, ro) \/ Created(r)
  <2>1. CASE t.id = "ROOM_CREATE"
    BY <1>14, <1>15, <1>20, <1>21, <2>1 DEF Created, GoodData
  <2> QED
    BY <1>15, <1>23, <2>1
<1>25. Place(r, n - 1, ro)
  <2>1. \A i \in 1 .. n - 1 : i \in Line(r) /\ j[i] = i /\ i \in 1 .. v
    <3>1. \A i \in 1 .. n - 1 : i \in Line(r)
      BY <1>4, <1>10, <1>12, <1>17 DEF Line
    <3> QED
      BY <1>4, <1>13, <1>17, <3>1
  <2>2. r.scene = "lobby" => ro = 0 /\ \A i \in Line(r) : Nth(r, i).id # "ROOM_ENTER"
    BY <1>1, <1>15, <1>17 DEF Place
  <2>3. ASSUME r.scene = "game"
        PROVE  /\ ro \in {0, r.room}
               /\ \A i \in 1 .. n - 1 : Nth(r, i).id = "ROOM_LEAVE" => ro = 0
    BY <1>1, <1>15, <1>17, <2>1, <2>3 DEF Place
  <2>4. ASSUME r.scene = "game", NEW i \in Line(r), Nth(r, i).id = "ROOM_ENTER"
        PROVE  Nth(r, i).arg = r.room /\ (i > n - 1 => ro = 0 /\ ~r.seated)
    <3>1. /\ Nth(c, j[i]).arg = c.room /\ (j[i] > v => ro = 0 /\ ~c.seated)
      BY <1>1, <1>15, <1>17, <2>4 DEF Place
    <3>2. i > n - 1 => j[i] > v
      BY <1>4, <1>13, <1>17
    <3> QED
      BY <1>15, <1>17, <3>1, <3>2
  <2>5. ASSUME r.scene = "game", r.next # 0, \A i \in 1 .. n - 1 : Nth(r, i).id # "ROOM_LEAVE",
               r.seated
        PROVE  ro # 0
    <3>1. t.id # "ROOM_LEAVE"
      BY <1>15, <2>5
    <3>2. \A i \in 1 .. v : i = n \/ i \in 1 .. n - 1
      BY <1>4, <1>13
    <3>3. \A i \in 1 .. v : Nth(c, i).id # "ROOM_LEAVE"
      BY <1>12, <1>17, <2>1, <2>5, <3>1, <3>2
    <3>4. c.next # 0
      BY DEF NoScene
    <3> QED
      BY <1>1, <1>15, <2>5, <3>3, <3>4 DEF Place
  <2> QED
    BY <1>1, <1>15, <2>2, <2>3, <2>4, <2>5 DEF Place
<1>26. n - 1 \in 0 .. n - 1 /\ n - 1 \in 0 .. Len(r.stack)
  BY <1>4, <1>17
<1>27. Mid(r, n - 1, n - 1, ro)
  BY <1>1, <1>15, <1>18, <1>19, <1>22, <1>24, <1>25, <1>26 DEF Mid
<1>28. AfterAnswer(r, c)
  <2>1. t.id \in Clicks => c.wait = "none"
    BY <1>1, <1>12 DEF OneClick
  <2> QED
    BY <1>7, <1>9, <1>11, <1>12, <1>14, <1>15, <1>20, <2>1 DEF AfterAnswer, SameLine
<1> QED
  BY <1>3, <1>4, <1>13, <1>27, <1>28

-----------------------------------------------------------------------------
(* Then what the client asks for. *)
LEMMA Unsynced ==
  ASSUME NEW c, IsClient(c), SyncLast(c), c.wait = "none"
  PROVE  \A i \in Line(c) : ~Nth(c, i).sync
<1>1. ASSUME NEW i \in Line(c), Nth(c, i).sync PROVE FALSE
  <2>1. IsEntry(Nth(c, i)) /\ Nth(c, i).id = "none"
    BY <1>1 DEF IsClient, SyncLast
  <2> QED
    BY <2>1 DEF IsEntry, SyncIds, PlainIds
<1> QED
  BY <1>1

LEMMA SendKeeps ==
  ASSUME NEW c, NEW a, NEW v, NEW ro, Mid(c, a, v, ro), c.wait = "none",
         NEW id \in PlainIds, NEW arg \in Nat,
         id \in Clicks => NoClicks(c) /\ c.next = NoScene /\ c.scene = "game",
         NEW r, r = Send(c, id, arg)
  PROVE  /\ Mid(r, a, v, ro) /\ SamePlace(r, c) /\ r.stack = c.stack /\ r.fault = c.fault
<1>1. /\ IsClient(c) /\ IsSeq(c.stack) /\ IsSeq(c.sendQueue)
      /\ a \in 0 .. v /\ v \in 0 .. Len(c.stack)
      /\ AnswersOK(c, a) /\ SyncLast(c) /\ OneClick(c) /\ Place(c, v, ro)
      /\ c.next = NoScene \/ Leaving(c, ro)
  BY DEF Mid, IsClient, Created
<1>2. PICK e : e = [id |-> id, arg |-> arg, sync |-> FALSE, ans |-> <<>>]
  OBVIOUS
<1>3. /\ IsClient(r) /\ SamePlace(r, c) /\ r.stack = c.stack /\ r.fault = c.fault
      /\ Size(r) = Size(c) + 1 /\ Size(r) \in Line(r) /\ Nth(r, Size(r)) = e
      /\ \A i \in Line(c) : i \in Line(r) /\ Nth(r, i) = Nth(c, i)
      /\ \A i \in Line(r) : i \in Line(c) \/ i = Size(r)
  <2>1. r = Queue(c, id, arg, FALSE)
    BY DEF Send
  <2>2. OneMore(Queue(c, id, arg, FALSE), c, [id |-> id, arg |-> arg, sync |-> FALSE, ans |-> <<>>])
    BY <1>1, QueueIs
  <2> QED
    BY <1>2, <2>1, <2>2 DEF OneMore
<1>4. e.id = id /\ ~e.sync /\ e.ans = <<>>
  BY <1>2
<1>5. \A i \in Line(c) : ~Nth(c, i).sync
  BY <1>1, Unsynced
<1>6. Len(c.stack) \in Nat /\ Size(c) \in Nat /\ Len(c.stack) <= Size(c)
  BY <1>1, SizeFacts
<1>7. a \in Nat /\ v \in Nat /\ Size(r) \in Nat /\ Size(r) > v /\ Size(r) > a /\ \A i \in 1 .. v : i \in Line(c)
  <2>1. v \in Nat /\ v <= Size(c) /\ a <= v /\ a \in Nat
    BY <1>1, <1>6
  <2> QED
    BY <1>3, <1>6, <2>1 DEF Line
<1>8. AnswersOK(r, a)
  BY <1>1, <1>3, <1>4, <1>7 DEF AnswersOK
<1>9. SyncLast(r)
  BY <1>3, <1>4, <1>5 DEF SyncLast
<1>10. OneClick(r)
  <2>1. CASE id \in Clicks
    BY <1>3, <1>4, <2>1 DEF OneClick, NoClicks, SamePlace
  <2>2. CASE id \notin Clicks
    BY <1>1, <1>3, <1>4, <2>2 DEF OneClick, SamePlace
  <2> QED
    BY <2>1, <2>2
<1>11. r.next = NoScene \/ Leaving(r, ro)
  <2>1. CASE c.next = NoScene
    BY <1>3, <2>1 DEF SamePlace
  <2>2. CASE Leaving(c, ro)
    <3>1. id \notin Clicks
      BY <2>2 DEF Leaving, NoScene
    <3> QED
      BY <1>3, <1>4, <2>2, <3>1 DEF Leaving, NoClicks, SamePlace
  <2> QED
    BY <1>1, <2>1, <2>2
<1>12. Place(r, v, ro)
  <2>1. id # "ROOM_ENTER"
    BY DEF PlainIds
  <2>2. \A i \in 1 .. v : Nth(r, i) = Nth(c, i)
    BY <1>3, <1>7
  <2> QED
    BY <1>1, <1>3, <1>4, <2>1, <2>2 DEF Place, SamePlace
<1> QED
  BY <1>1, <1>3, <1>8, <1>9, <1>10, <1>11, <1>12 DEF Mid, SamePlace

(* SendSync, from a client that waits for nothing and has clicked nothing. *)
LEMMA AskKeeps ==
  ASSUME NEW c, NEW a, NEW v, NEW ro, IsClient(c), a \in 0 .. v, v \in 0 .. Len(c.stack),
         AnswersOK(c, a), \A i \in Line(c) : ~Nth(c, i).sync, NoClicks(c), c.next = NoScene,
         ro = 0, NEW id \in SyncIds, NEW arg \in Nat,
         \/ c.scene = "lobby" /\ id # "ROOM_ENTER"
         \/ c.scene = "game" /\ ~c.seated /\ id = "ROOM_ENTER" /\ arg = c.room,
         NEW r, r = SendSync(c, id, arg)
  PROVE  Good(r, a, v, ro) /\ r.stack = c.stack /\ r.fault = c.fault
<1>1. IsSeq(c.stack) /\ IsSeq(c.sendQueue)
  BY DEF IsClient
<1>2. PICK e : e = [id |-> id, arg |-> arg, sync |-> TRUE, ans |-> <<>>]
  OBVIOUS
<1>3. PICK x : x = Queue(c, id, arg, TRUE)
  OBVIOUS
<1>4. /\ IsClient(x) /\ SamePlace(x, c) /\ x.stack = c.stack /\ x.fault = c.fault
      /\ Size(x) = Size(c) + 1 /\ Size(x) \in Line(x) /\ Nth(x, Size(x)) = e
      /\ \A i \in Line(c) : i \in Line(x) /\ Nth(x, i) = Nth(c, i)
      /\ \A i \in Line(x) : i \in Line(c) \/ i = Size(x)
  <2>1. OneMore(Queue(c, id, arg, TRUE), c, [id |-> id, arg |-> arg, sync |-> TRUE, ans |-> <<>>])
    BY QueueIs
  <2> QED
    BY <1>2, <1>3, <2>1 DEF OneMore
<1>5. r = [x EXCEPT !.wait = id]
  BY <1>3 DEF SendSync
<1>6. /\ r = [k \in ClientFields |-> r[k]] /\ SameLine(r, x) /\ r.wait = id
      /\ r.scene = c.scene /\ r.room = c.room /\ r.next = c.next /\ r.seated = c.seated
      /\ r.fault = c.fault /\ r.list = x.list /\ r.notes = x.notes
  <2>1. x = [k \in ClientFields |-> x[k]]
    BY <1>4 DEF IsClient
  <2> QED
    BY <1>4, <1>5, <2>1 DEF ClientFields, SameLine, SamePlace
<1>7. IsClient(r)
  BY <1>4, <1>6, SameIs DEF IsClient
<1>8. Size(r) = Size(x) /\ Line(r) = Line(x) /\ \A i : Nth(r, i) = Nth(x, i)
  BY <1>6, SameNth
<1>9. e.id = id /\ e.sync /\ e.ans = <<>> /\ e.arg = arg
  BY <1>2
<1>10. Len(c.stack) \in Nat /\ Size(c) \in Nat /\ Len(c.stack) <= Size(c)
  BY <1>1, SizeFacts
<1>11. a \in Nat /\ v \in Nat /\ Size(r) \in Nat /\ Size(r) > v /\ Size(r) > a /\ \A i \in 1 .. v : i \in Line(c)
  <2>1. v \in Nat /\ v <= Size(c) /\ a <= v /\ a \in Nat
    BY <1>10
  <2> QED
    BY <1>4, <1>8, <1>10, <2>1 DEF Line
<1>12. AnswersOK(r, a)
  BY <1>4, <1>8, <1>9, <1>11 DEF AnswersOK
<1>13. SyncLast(r)
  BY <1>4, <1>6, <1>8, <1>9 DEF SyncLast
<1>14. id \notin Clicks
  BY DEF SyncIds, Clicks
<1>15. OneClick(r)
  BY <1>4, <1>8, <1>9, <1>14 DEF OneClick, NoClicks
<1>16. \A i \in Line(c) : Nth(c, i).id \in PlainIds
  BY DEF IsClient, IsEntry
<1>17. Place(r, v, ro)
  <2>1. \A i \in Line(c) : Nth(r, i).id # "ROOM_ENTER"
    BY <1>4, <1>8, <1>16 DEF PlainIds
  <2>2. \A i \in 1 .. v : Nth(r, i).id # "ROOM_LEAVE"
    BY <1>4, <1>8, <1>11 DEF NoClicks, Clicks
  <2>3. \A i \in Line(r) : i \in Line(c) \/ Nth(r, i) = e
    BY <1>4, <1>8
  <2> QED
    BY <1>6, <1>9, <2>1, <2>2, <2>3 DEF Place
<1>18. r.wait \in {"LOGIN", "ROOM_CREATE", "ROOM_CAN_ENTER"} => r.scene = "lobby"
  BY <1>6
<1>19. r.stack = c.stack
  BY <1>4, <1>6 DEF SameLine
<1> QED
  BY <1>6, <1>7, <1>12, <1>13, <1>15, <1>17, <1>18, <1>19 DEF Good, Mid

(* LobbyScene::Start *)
LEMMA LobbyKeeps ==
  ASSUME NEW c, NEW a, NEW v, NEW ro, IsClient(c), a \in 0 .. v, v \in 0 .. Len(c.stack),
         AnswersOK(c, a), \A i \in Line(c) : ~Nth(c, i).sync, NoClicks(c), ro = 0,
         c.next = NoScene, NEW r, r = StartLobby(c)
  PROVE  Good(r, a, v, ro) /\ r.stack = c.stack /\ r.fault = c.fault
<1>1. c = [k \in ClientFields |-> c[k]]
  BY DEF IsClient
<1>2. PICK x : x = [c EXCEPT !.scene = "lobby", !.room = 0, !.list = <<>>]
  OBVIOUS
<1>3. /\ x = [k \in ClientFields |-> x[k]]
      /\ SameLine(x, c) /\ x.notes = c.notes /\ x.fault = c.fault /\ x.next = NoScene
      /\ x.scene = "lobby" /\ x.seated = c.seated /\ x.list = <<>>
  BY <1>1, <1>2 DEF ClientFields, SameLine
<1>4. IsClient(x)
  <2>1. DOMAIN x.list = 1 .. 0
    BY <1>3, EmptyIs, SeqIs
  <2>2. \A i \in DOMAIN x.list : x.list[i] \in Nat
    BY <2>1
  <2> QED
    BY <1>3, <2>2, SameIs DEF IsClient
<1>5. Size(x) = Size(c) /\ Line(x) = Line(c) /\ \A i : Nth(x, i) = Nth(c, i)
  BY <1>3, SameNth
<1>6. AnswersOK(x, a) /\ NoClicks(x) /\ (\A i \in Line(x) : ~Nth(x, i).sync) /\ x.stack = c.stack
  BY <1>3, <1>5 DEF AnswersOK, NoClicks, SameLine
<1>7. r = SendSync(x, "ROOM_LIST", 1)
  BY <1>2 DEF StartLobby
<1>8. "ROOM_LIST" \in SyncIds /\ 1 \in Nat
  BY DEF SyncIds
<1>9. v \in 0 .. Len(x.stack)
  BY <1>6
<1>10. Good(r, a, v, ro) /\ r.stack = x.stack /\ r.fault = x.fault
  BY <1>3, <1>4, <1>6, <1>7, <1>8, <1>9, AskKeeps
<1> QED
  BY <1>3, <1>6, <1>10

(* The end of Game::Update. *)
LEMMA StartKeeps ==
  ASSUME NEW c, NEW a, NEW v, NEW ro, IsClient(c), a \in 0 .. v, v \in 0 .. Len(c.stack),
         AnswersOK(c, a), \A i \in Line(c) : ~Nth(c, i).sync, NoClicks(c), ro = 0, c.next \in Nat,
         NEW r, r = SwitchScene(c)
  PROVE  Good(r, a, v, ro) /\ r.stack = c.stack /\ r.fault = c.fault
<1>1. c = [k \in ClientFields |-> c[k]]
  BY DEF IsClient
<1>2. PICK idle : idle = [c EXCEPT !.next = NoScene]
  OBVIOUS
<1>3. idle = [k \in ClientFields |-> idle[k]]
  BY <1>1, <1>2 DEF ClientFields
<1>4. /\ SameLine(idle, c) /\ idle.notes = c.notes /\ idle.fault = c.fault /\ idle.next = NoScene
      /\ idle.scene = c.scene /\ idle.seated = c.seated /\ idle.list = c.list
  BY <1>1, <1>2 DEF ClientFields, SameLine
<1>5. CASE c.next = 0
  <2>1. r = StartLobby(idle)
    BY <1>2, <1>5 DEF SwitchScene, NoScene
  <2>2. IsClient(idle)
    BY <1>3, <1>4, SameIs DEF IsClient
  <2>3. Size(idle) = Size(c) /\ Line(idle) = Line(c) /\ \A i : Nth(idle, i) = Nth(c, i)
    BY <1>4, SameNth
  <2>4. /\ AnswersOK(idle, a) /\ NoClicks(idle) /\ \A i \in Line(idle) : ~Nth(idle, i).sync
        /\ idle.stack = c.stack
    BY <1>4, <2>3 DEF AnswersOK, NoClicks, SameLine
  <2> QED
    BY <1>4, <2>1, <2>2, <2>4, LobbyKeeps
<1>6. CASE c.next # 0
  <2>1. r = StartGame(idle, c.next)
    BY <1>2, <1>6 DEF SwitchScene, NoScene
  <2>2. PICK x : x = [idle EXCEPT !.scene = "game", !.room = c.next, !.start = "null",
                                  !.mine = FALSE, !.enemy = FALSE, !.seated = FALSE]
    OBVIOUS
  <2>3. /\ x = [k \in ClientFields |-> x[k]]
        /\ SameLine(x, c) /\ x.notes = c.notes /\ x.fault = c.fault /\ x.next = NoScene
        /\ x.scene = "game" /\ x.seated = FALSE /\ x.list = c.list /\ x.room = c.next
    BY <1>3, <1>4, <2>2 DEF ClientFields, SameLine
  <2>4. IsClient(x)
    BY <2>3, SameIs DEF IsClient
  <2>5. Size(x) = Size(c) /\ Line(x) = Line(c) /\ \A i : Nth(x, i) = Nth(c, i)
    BY <2>3, SameNth
  <2>6. AnswersOK(x, a) /\ NoClicks(x) /\ (\A i \in Line(x) : ~Nth(x, i).sync) /\ x.stack = c.stack
    BY <2>3, <2>5 DEF AnswersOK, NoClicks, SameLine
  <2>7. r = SendSync(x, "ROOM_ENTER", c.next)
    BY <2>1, <2>2 DEF StartGame
  <2>8. "ROOM_ENTER" \in SyncIds
    BY DEF SyncIds
  <2>9. v \in 0 .. Len(x.stack)
    BY <2>6
  <2>10. Good(r, a, v, ro) /\ r.stack = x.stack /\ r.fault = x.fault
    BY <2>3, <2>4, <2>6, <2>7, <2>8, <2>9, AskKeeps
  <2> QED
    BY <2>3, <2>6, <2>10
<1> QED
  BY <1>5, <1>6

LEMMA SwitchKeeps ==
  ASSUME NEW c, NEW a, NEW v, NEW ro, Mid(c, a, v, ro), c.wait = "none",
         NEW r, r = SwitchScene(c)
  PROVE  Good(r, a, v, ro) /\ r.stack = c.stack /\ r.fault = c.fault
<1>1. CASE c.next = NoScene
  <2>1. r = c
    BY <1>1 DEF SwitchScene, NoScene
  <2> QED
    BY <1>1, <2>1 DEF Good
<1>2. CASE Leaving(c, ro)
  <2>1. \A i \in Line(c) : ~Nth(c, i).sync
    BY Unsynced DEF Mid
  <2>2. NoClicks(c) /\ ro = 0 /\ c.next \in Nat
    BY <1>2 DEF Leaving
  <2> QED
    BY <2>1, <2>2, StartKeeps DEF Mid
<1> QED
  BY <1>1, <1>2 DEF Mid, Created

(* What follows SendSync where it was called. *)
LEMMA ReturnKeeps ==
  ASSUME NEW h, NEW a, NEW v, NEW ro, Mid(h, a, v, ro), NoClicks(h),
         \A i \in Line(h) : ~Nth(h, i).sync,
         NEW t, IsEntry(t), t.sync, GoodData(t.id, t.ans[1]), h.wait = t.id,
         h.next = IF t.id = "ROOM_CREATE" THEN t.ans[1][2] ELSE NoScene,
         NEW r, r = Returned([h EXCEPT !.wait = "none"], t)
  PROVE  Good(r, a, v, ro) /\ r.stack = h.stack
<1>1. /\ IsClient(h) /\ h = [k \in ClientFields |-> h[k]]
      /\ a \in 0 .. v /\ v \in 0 .. Len(h.stack) /\ AnswersOK(h, a) /\ Place(h, v, ro)
      /\ h.wait \in {"LOGIN", "ROOM_CREATE", "ROOM_CAN_ENTER"} => h.scene = "lobby"
  BY DEF Mid, IsClient
<1>2. PICK y : y = [h EXCEPT !.wait = "none"]
  OBVIOUS
<1>3. /\ y = [k \in ClientFields |-> y[k]]
      /\ SameLine(y, h) /\ y.notes = h.notes /\ y.next = h.next /\ y.wait = "none"
      /\ y.scene = h.scene /\ y.seated = h.seated /\ y.list = h.list /\ y.room = h.room
  BY <1>1, <1>2 DEF ClientFields, SameLine
<1>4. IsClient(y)
  BY <1>1, <1>3, SameIs DEF IsClient
<1>5. Size(y) = Size(h) /\ Line(y) = Line(h) /\ \A i : Nth(y, i) = Nth(h, i)
  BY <1>3, SameNth
<1>6. AnswersOK(y, a) /\ NoClicks(y) /\ (\A i \in Line(y) : ~Nth(y, i).sync) /\ y.stack = h.stack
  BY <1>1, <1>3, <1>5 DEF AnswersOK, NoClicks, SameLine
<1>7. SyncLast(y) /\ OneClick(y)
  BY <1>6 DEF SyncLast, OneClick, NoClicks
<1>8. Place(y, v, ro)
  BY <1>1, <1>3, <1>5 DEF Place
<1>9. t.id # "ROOM_CREATE" => Mid(y, a, v, ro) /\ y.next = NoScene
  BY <1>1, <1>3, <1>4, <1>6, <1>7, <1>8 DEF Mid
<1>10. t.id \in {"LOGIN", "ROOM_CREATE", "ROOM_CAN_ENTER"} => h.scene = "lobby" /\ ro = 0
  BY <1>1 DEF Place
<1>11. r = Returned(y, t) /\ t.id \in SyncIds /\ t.arg \in Nat
  BY <1>2 DEF IsEntry
<1>12. CASE t.id = "LOGIN"
  <2>1. r = StartLobby(y)
    BY <1>11, <1>12 DEF Returned
  <2>2. v \in 0 .. Len(y.stack)
    BY <1>1, <1>6
  <2> QED
    BY <1>1, <1>4, <1>6, <1>9, <1>10, <1>12, <2>1, <2>2, LobbyKeeps
<1>13. CASE t.id = "ROOM_ENTER"
  <2>1. r = [y EXCEPT !.start = "on"]
    BY <1>11, <1>13 DEF Returned
  <2>2. /\ r = [k \in ClientFields |-> r[k]]
        /\ SameLine(r, y) /\ SamePlace(r, y) /\ r.notes = y.notes /\ r.list = y.list
    BY <1>3, <2>1 DEF ClientFields, SameLine, SamePlace
  <2>3. IsClient(r)
    BY <1>4, <2>2, SameIs DEF IsClient, SamePlace
  <2>4. Mid(r, a, v, ro)
    BY <1>9, <1>13, <2>2, <2>3, MidSame
  <2> QED
    BY <1>6, <1>9, <1>13, <2>2, <2>4 DEF Good, SamePlace, SameLine
<1>14. CASE t.id \in {"ROOM_CREATE", "ROOM_CAN_ENTER"}
  <2>1. PICK go : go = CASE t.id = "ROOM_CREATE" -> t.ans[1][2] [] OTHER -> t.arg
    OBVIOUS
  <2>2. go \in Nat
    BY <1>11, <2>1 DEF GoodData
  <2>3. PICK z : /\ r = SwitchScene(z)
                 /\ z = y \/ z = [y EXCEPT !.next = go]
                 /\ z = IF t.ans[1][1] = SUCCESS THEN [y EXCEPT !.next = go] ELSE y
    BY <1>11, <1>14, <2>1 DEF Returned
  <2>4. CASE z = y /\ t.id = "ROOM_CAN_ENTER"
    <3>1. Mid(y, a, v, ro) /\ r = SwitchScene(y)
      BY <1>9, <2>3, <2>4
    <3> QED
      BY <1>3, <1>6, <3>1, SwitchKeeps
  <2>5. CASE z # y \/ t.id = "ROOM_CREATE"
    <3>1. /\ z = [k \in ClientFields |-> z[k]]
          /\ SameLine(z, y) /\ z.notes = y.notes /\ z.next \in Nat
          /\ z.scene = y.scene /\ z.seated = y.seated /\ z.list = y.list
      <4>1. CASE z = y
        BY <1>3, <2>5, <4>1 DEF SameLine, GoodData
      <4>2. CASE z = [y EXCEPT !.next = go]
        BY <1>3, <2>2, <4>2 DEF ClientFields, SameLine
      <4> QED
        BY <2>3, <4>1, <4>2
    <3>2. IsClient(z)
      BY <1>4, <3>1, SameIs DEF IsClient
    <3>3. Size(z) = Size(y) /\ Line(z) = Line(y) /\ \A i : Nth(z, i) = Nth(y, i)
      BY <3>1, SameNth
    <3>4. /\ AnswersOK(z, a) /\ NoClicks(z) /\ \A i \in Line(z) : ~Nth(z, i).sync
          /\ z.stack = h.stack
      BY <1>6, <3>1, <3>3 DEF AnswersOK, NoClicks, SameLine
    <3>5. ro = 0 /\ r = SwitchScene(z) /\ v \in 0 .. Len(z.stack)
      BY <1>1, <1>10, <1>14, <2>3, <3>4
    <3>6. Good(r, a, v, ro) /\ r.stack = z.stack
      BY <1>1, <3>1, <3>2, <3>4, <3>5, StartKeeps
    <3> QED
      BY <3>4, <3>6
  <2> QED
    BY <1>14, <2>4, <2>5
<1>15. CASE t.id = "ROOM_LIST"
  <2>1. r = y
    BY <1>11, <1>15 DEF Returned
  <2> QED
    BY <1>6, <1>9, <1>15, <2>1 DEF Good
<1> QED
  BY <1>11, <1>12, <1>13, <1>14, <1>15 DEF SyncIds

-----------------------------------------------------------------------------
(* A client's frame takes at most one answer off its stack. *)
Follows(r, c, a, v, a2, v2) ==
  \/ r.stack = c.stack /\ a2 = a /\ v2 = v
  \/ /\ Popped(r.stack, c.stack) /\ a = Len(c.stack) /\ v = Len(c.stack)
     /\ a2 = Len(c.stack) - 1 /\ v2 = Len(c.stack) - 1

Framed(r, c, a, v, ro) == \E a2, v2 : Good(r, a2, v2, ro) /\ Follows(r, c, a, v, a2, v2)

HandledAs(h, c, a, v, ro, a2, v2) ==
  /\ Mid(h, a2, v2, ro) /\ Follows(h, c, a, v, a2, v2)
  /\ h.wait = c.wait /\ h.scene = c.scene
  /\ Answered(c) => AfterAnswer(h, c)
  /\ ~Answered(c) => h.next = NoScene

LEMMA HandledIs ==
  ASSUME NEW c, NEW a, NEW v, NEW ro, Good(c, a, v, ro), c.fault = "none",
         NEW h, h = HandlerThread(c)
  PROVE  \E a2, v2 : HandledAs(h, c, a, v, ro, a2, v2)
<1>1. Mid(c, a, v, ro) /\ c.next = NoScene
  BY DEF Good
<1>2. PICK x : x = HandleResponse(c)
  OBVIOUS
<1>3. h = HandleNotify(x)
  BY <1>2 DEF HandlerThread
<1>4. CASE Answered(c)
  <2>1. PICK n : n = Len(c.stack) - 1
    OBVIOUS
  <2>2. a = Len(c.stack) /\ v = Len(c.stack) /\ Mid(x, n, n, ro) /\ AfterAnswer(x, c)
    BY <1>1, <1>2, <1>4, <2>1, AnswerKeeps
  <2>3. Mid(h, n, n, ro) /\ SameLine(h, x) /\ SamePlace(h, x)
    BY <1>3, <2>2, NotifyKeeps
  <2>4. Line(h) = Line(x) /\ \A i : Nth(h, i) = Nth(x, i)
    BY <2>3, SameNth
  <2>5. NoClicks(x) => NoClicks(h)
    BY <2>4 DEF NoClicks
  <2>6. AfterAnswer(h, c)
    BY <2>2, <2>3, <2>4, <2>5 DEF AfterAnswer, SameLine, SamePlace
  <2>7. HandledAs(h, c, a, v, ro, n, n)
    BY <1>4, <2>1, <2>2, <2>3, <2>6 DEF HandledAs, Follows, AfterAnswer
  <2> QED
    BY <2>7
<1>5. CASE ~Answered(c)
  <2>1. x = c
    BY <1>2, <1>5 DEF HandleResponse
  <2>2. Mid(h, a, v, ro) /\ SameLine(h, c) /\ SamePlace(h, c)
    BY <1>1, <1>3, <2>1, NotifyKeeps
  <2>3. HandledAs(h, c, a, v, ro, a, v)
    BY <1>1, <1>5, <2>2 DEF HandledAs, Follows, SameLine, SamePlace
  <2> QED
    BY <2>3
<1> QED
  BY <1>4, <1>5

(* A frame ends well if what the scene does with the handled client does. *)
LEMMA FrameWithKeeps ==
  ASSUME NEW s \in Session, client = [t \in Session |-> client[t]],
         NEW a, NEW v, NEW ro, Good(client[s], a, v, ro), NEW after, FrameWith(s, after),
         \A a2, v2 : HandledAs(Handled(s), client[s], a, v, ro, a2, v2) =>
           Good(after, a2, v2, ro) /\ after.stack = Handled(s).stack
  PROVE  Framed(client'[s], client[s], a, v, ro)
<1>1. PICK c : c = client[s]
  OBVIOUS
<1>2. PICK h : h = Handled(s)
  OBVIOUS
<1>3. Good(c, a, v, ro) /\ c.fault = "none" /\ h = HandlerThread(c)
  BY <1>1, <1>2 DEF FrameWith, Free, Alive, Handled
<1>4. PICK a2, v2 : HandledAs(h, c, a, v, ro, a2, v2)
  BY <1>3, HandledIs
<1>5. client'[s] = IF h.fault = "none" THEN after ELSE h
  <2>1. client' = [client EXCEPT ![s] = IF h.fault = "none" THEN after ELSE h]
    BY <1>2 DEF FrameWith
  <2> QED
    BY <2>1
<1>6. Good(after, a2, v2, ro) /\ after.stack = h.stack
  BY <1>1, <1>2, <1>4
<1>7. CASE h.fault = "none"
  <2>1. client'[s] = after
    BY <1>5, <1>7
  <2>2. Follows(after, c, a, v, a2, v2)
    BY <1>4, <1>6 DEF HandledAs, Follows
  <2> QED
    BY <1>1, <1>6, <2>1, <2>2 DEF Framed
<1>8. CASE h.fault # "none"
  <2>1. client'[s] = h
    BY <1>5, <1>8
  <2>2. Good(h, a2, v2, ro) /\ Follows(h, c, a, v, a2, v2)
    BY <1>4, <1>8 DEF HandledAs, Good
  <2> QED
    BY <1>1, <2>1, <2>2 DEF Framed
<1> QED
  BY <1>7, <1>8

(* A patient user clicks when nothing is under way. *)
LEMMA PatientClick ==
  ASSUME NEW h, IsClient(h), ~Clicked(h) PROVE h.next = NoScene /\ NoClicks(h)
<1>1. IsSeq(h.stack) /\ IsSeq(h.sendQueue)
  BY DEF IsClient
<1>2. /\ \A i \in 1 .. Len(h.stack) : h.stack[i].id \notin Clicks
      /\ \A i \in 1 .. Len(h.sendQueue) : h.sendQueue[i].id \notin Clicks
  BY <1>1, SeqIs DEF Clicked, Clicks
<1>3. ASSUME NEW i \in Line(h) PROVE Nth(h, i).id \notin Clicks
  <2>1. CASE i \in 1 .. Len(h.stack)
    BY <1>1, <1>2, <2>1, LineFacts
  <2>2. ASSUME NEW k \in 1 .. Len(h.sendQueue), i = Len(h.stack) + k PROVE Nth(h, i).id \notin Clicks
    <3>1. Nth(h, Len(h.stack) + k) = h.sendQueue[k]
      BY <1>1, LineFacts
    <3> QED
      BY <1>2, <2>2, <3>1
  <2>3. i \in 1 .. Len(h.stack) \/ \E k \in 1 .. Len(h.sendQueue) : i = Len(h.stack) + k
    BY <1>1, LineFacts
  <2> QED
    BY <2>1, <2>2, <2>3
<1> QED
  BY <1>3 DEF Clicked, NoClicks

(* A request of the scene itself, then the change of scene. *)
LEMMA SendSwitchKeeps ==
  ASSUME NEW h, NEW a, NEW v, NEW ro, Mid(h, a, v, ro), h.wait = "none",
         NEW id \in PlainIds, NEW arg \in Nat,
         id \in Clicks => NoClicks(h) /\ h.next = NoScene /\ h.scene = "game"
  PROVE  /\ Good(SwitchScene(Send(h, id, arg)), a, v, ro)
         /\ SwitchScene(Send(h, id, arg)).stack = h.stack
<1>1. PICK x : x = Send(h, id, arg)
  OBVIOUS
<1>2. Mid(x, a, v, ro) /\ SamePlace(x, h) /\ x.stack = h.stack
  BY <1>1, SendKeeps
<1>3. PICK r : r = SwitchScene(x)
  OBVIOUS
<1>4. Good(r, a, v, ro) /\ r.stack = x.stack
  BY <1>2, <1>3, SwitchKeeps DEF SamePlace
<1> QED
  BY <1>1, <1>2, <1>3, <1>4

LEMMA FrameKeeps ==
  ASSUME Patient, NEW s \in Session, client = [t \in Session |-> client[t]],
         NEW a, NEW v, NEW ro, Good(client[s], a, v, ro), Frame(s) \/ User(s)
  PROVE  Framed(client'[s], client[s], a, v, ro)
<1>1. PICK c : c = client[s]
  OBVIOUS
<1>2. PICK h : h = Handled(s)
  OBVIOUS
<1>3. ASSUME NEW a2, NEW v2, HandledAs(h, c, a, v, ro, a2, v2)
      PROVE  Mid(h, a2, v2, ro) /\ h.wait = c.wait /\ h.scene = c.scene /\ IsClient(h)
  BY <1>3 DEF HandledAs, Mid
<1>4. CASE Frame(s)
  <2>1. FrameWith(s, SwitchScene(Handled(s)))
    BY <1>4 DEF Frame
  <2>2. c.wait = "none"
    BY <1>1, <2>1 DEF FrameWith, Free
  <2>3. ASSUME NEW a2, NEW v2, HandledAs(h, c, a, v, ro, a2, v2)
        PROVE  Good(SwitchScene(h), a2, v2, ro) /\ SwitchScene(h).stack = h.stack
    BY <1>3, <2>2, <2>3, SwitchKeeps
  <2> QED
    BY <1>1, <1>2, <2>1, <2>3, FrameWithKeeps
<1>5. CASE ClickRoom(s)
  <2>1. ~Clicked(h) /\ c.scene = "lobby"
    BY <1>1, <1>2, <1>5 DEF ClickRoom, Click
  <2>2. PICK i \in DOMAIN h.list :
          FrameWith(s, IF h.list[i] = 0 THEN SendSync(Handled(s), "ROOM_CREATE", 0)
                       ELSE SendSync(Handled(s), "ROOM_CAN_ENTER", h.list[i]))
    BY <1>2, <1>5 DEF ClickRoom
  <2>3. PICK after : after = IF h.list[i] = 0 THEN SendSync(h, "ROOM_CREATE", 0)
                             ELSE SendSync(h, "ROOM_CAN_ENTER", h.list[i])
    OBVIOUS
  <2>4. FrameWith(s, after)
    BY <1>2, <2>2, <2>3
  <2>5. c.wait = "none"
    BY <1>1, <2>4 DEF FrameWith, Free
  <2>6. ASSUME NEW a2, NEW v2, HandledAs(h, c, a, v, ro, a2, v2)
        PROVE  Good(after, a2, v2, ro) /\ after.stack = h.stack
    <3>1. /\ Mid(h, a2, v2, ro) /\ h.wait = "none" /\ h.scene = "lobby" /\ IsClient(h)
          /\ h.next = NoScene /\ NoClicks(h)
      BY <1>3, <2>1, <2>5, <2>6, PatientClick
    <3>2. /\ \A k \in Line(h) : ~Nth(h, k).sync
          /\ ro = 0 /\ a2 \in 0 .. v2 /\ v2 \in 0 .. Len(h.stack) /\ AnswersOK(h, a2)
      BY <3>1, Unsynced DEF Mid, Place
    <3>3. h.list[i] \in Nat
      BY <3>1 DEF IsClient
    <3>4. /\ "ROOM_CREATE" \in SyncIds /\ "ROOM_CREATE" # "ROOM_ENTER" /\ 0 \in Nat
          /\ "ROOM_CAN_ENTER" \in SyncIds /\ "ROOM_CAN_ENTER" # "ROOM_ENTER"
      BY DEF SyncIds
    <3>5. CASE after = SendSync(h, "ROOM_CREATE", 0)
      BY <3>1, <3>2, <3>4, <3>5, AskKeeps
    <3>6. CASE after = SendSync(h, "ROOM_CAN_ENTER", h.list[i])
      BY <3>1, <3>2, <3>3, <3>4, <3>6, AskKeeps
    <3> QED
      BY <2>3, <3>5, <3>6
  <2> QED
    BY <1>1, <1>2, <2>4, <2>6, FrameWithKeeps
<1>6. ASSUME NEW id \in PlainIds, NEW arg \in Nat,
             FrameWith(s, SwitchScene(Send(Handled(s), id, arg))),
             id \in Clicks => ~Clicked(h) /\ c.scene = "game"
      PROVE  Framed(client'[s], client[s], a, v, ro)
  <2>1. c.wait = "none"
    BY <1>1, <1>6 DEF FrameWith, Free
  <2>2. PICK after : after = SwitchScene(Send(h, id, arg))
    OBVIOUS
  <2>3. FrameWith(s, after)
    BY <1>2, <1>6, <2>2
  <2>4. ASSUME NEW a2, NEW v2, HandledAs(h, c, a, v, ro, a2, v2)
        PROVE  Good(after, a2, v2, ro) /\ after.stack = h.stack
    <3>1. Mid(h, a2, v2, ro) /\ h.wait = "none" /\ h.scene = c.scene /\ IsClient(h)
      BY <1>3, <2>1, <2>4
    <3>2. id \in Clicks => NoClicks(h) /\ h.next = NoScene /\ h.scene = "game"
      BY <1>6, <3>1, PatientClick
    <3> QED
      BY <2>2, <3>1, <3>2, SendSwitchKeeps
  <2> QED
    BY <1>1, <1>2, <2>3, <2>4, FrameWithKeeps
<1>7. /\ {"ROOM_LIST", "FALLING_BLOCK", "GAME_INPUT"} \subseteq PlainIds \ Clicks
      /\ "GAME_START" \in PlainIds /\ "ROOM_LEAVE" \in PlainIds /\ 0 \in Nat /\ 1 \in Nat
  BY DEF PlainIds, Clicks
<1>8. CASE ClickStart(s)
  <2>1. ~Clicked(h) /\ c.scene = "game" /\ FrameWith(s, SwitchScene(Send(Handled(s), "GAME_START", 0)))
    BY <1>1, <1>2, <1>8 DEF ClickStart, Click
  <2> QED
    BY <1>6, <1>7, <2>1
<1>9. CASE ClickLeave(s)
  <2>1. ~Clicked(h) /\ c.scene = "game" /\ FrameWith(s, SwitchScene(Send(Handled(s), "ROOM_LEAVE", 0)))
    BY <1>1, <1>2, <1>9 DEF ClickLeave, Click
  <2> QED
    BY <1>6, <1>7, <2>1
<1>10. CASE Refresh(s)
  <2>1. FrameWith(s, SwitchScene(Send(Handled(s), "ROOM_LIST", 1)))
    BY <1>10 DEF Refresh
  <2> QED
    BY <1>6, <1>7, <2>1
<1>11. CASE Play(s)
  <2>1. PICK id \in Traffic : FrameWith(s, SwitchScene(Send(Handled(s), id, 1)))
    BY <1>11 DEF Play
  <2>2. id \in PlainIds \ Clicks
    BY <1>7, SceneAssumption
  <2> QED
    BY <1>6, <1>7, <2>1, <2>2
<1> QED
  BY <1>4, <1>5, <1>8, <1>9, <1>10, <1>11 DEF User

(* One turn of the loop of SendSync. *)
LEMMA PollKeeps ==
  ASSUME NEW s \in Session, client = [t \in Session |-> client[t]],
         NEW a, NEW v, NEW ro, Good(client[s], a, v, ro), Poll(s)
  PROVE  Framed(client'[s], client[s], a, v, ro)
<1>1. PICK c : c = client[s]
  OBVIOUS
<1>2. PICK h : h = HandlerThread(c)
  OBVIOUS
<1>3. PICK r : r = IF Answered(c) /\ Top(c).sync /\ h.fault = "none"
                   THEN Returned([h EXCEPT !.wait = "none"], Top(c)) ELSE h
  OBVIOUS
<1>4. Good(c, a, v, ro) /\ c.fault = "none" /\ c.wait # "none" /\ client'[s] = r
  <2>1. client' = [client EXCEPT ![s] = r] /\ c.fault = "none" /\ c.wait # "none"
    BY <1>1, <1>2, <1>3 DEF Poll, Alive
  <2> QED
    BY <1>1, <2>1
<1>5. PICK a2, v2 : HandledAs(h, c, a, v, ro, a2, v2)
  BY <1>2, <1>4, HandledIs
<1>6. /\ Mid(h, a2, v2, ro) /\ h.wait = c.wait /\ Follows(h, c, a, v, a2, v2)
      /\ Answered(c) => AfterAnswer(h, c)
      /\ ~Answered(c) => h.next = NoScene
  BY <1>5 DEF HandledAs
<1>7. CASE Answered(c) /\ Top(c).sync /\ h.fault = "none"
  <2>1. PICK t : t = Top(c)
    OBVIOUS
  <2>2. /\ IsEntry(t) /\ t.sync /\ GoodData(t.id, t.ans[1]) /\ h.wait = t.id /\ NoClicks(h)
        /\ \A i \in Line(h) : ~Nth(h, i).sync
        /\ h.next = IF t.id = "ROOM_CREATE" THEN t.ans[1][2]
                    ELSE IF t.id = "ROOM_LEAVE" THEN 0 ELSE NoScene
    BY <1>6, <1>7, <2>1 DEF AfterAnswer
  <2>3. t.id # "ROOM_LEAVE"
    BY <2>2 DEF IsEntry, SyncIds
  <2>4. r = Returned([h EXCEPT !.wait = "none"], t)
    BY <1>3, <1>7, <2>1
  <2>5. Good(r, a2, v2, ro) /\ r.stack = h.stack
    BY <1>6, <2>2, <2>3, <2>4, ReturnKeeps
  <2>6. Follows(r, c, a, v, a2, v2)
    BY <1>6, <2>5 DEF Follows
  <2> QED
    BY <1>1, <1>4, <2>5, <2>6 DEF Framed
<1>8. CASE ~(Answered(c) /\ Top(c).sync /\ h.fault = "none")
  <2>1. r = h
    BY <1>3, <1>8
  <2>2. ASSUME h.fault = "none", Answered(c) PROVE h.next = NoScene
    <3>1. PICK t : t = Top(c)
      OBVIOUS
    <3>2. IsEntry(t) /\ ~t.sync /\ t.id \notin Clicks
      BY <1>4, <1>6, <1>8, <2>2, <3>1 DEF AfterAnswer
    <3>3. t.id # "ROOM_CREATE" /\ t.id # "ROOM_LEAVE"
      BY <3>2 DEF IsEntry, PlainIds, Clicks
    <3> QED
      BY <1>6, <2>2, <3>1, <3>3 DEF AfterAnswer
  <2>3. Good(h, a2, v2, ro)
    BY <1>6, <2>2 DEF Good
  <2> QED
    BY <1>1, <1>4, <1>6, <2>1, <2>3 DEF Framed
<1> QED
  BY <1>7, <1>8

-----------------------------------------------------------------------------
(* The same in terms of numbers: n requests from a on are on the wire. *)
WiredAs(st, a, n, ws, w) ==
  /\ Listing(w, n, Replies(ws))
  /\ \A k \in 1 .. n : ws[w[k]].id = st[a + k].id /\ GoodData(ws[w[k]].id, ws[w[k]].data)

WaitsAs(st, v, n, s, q, g) ==
  /\ Listing(g, n, Mine(q, s))
  /\ \A k \in 1 .. n : q[g[k]].id = st[v + k].id /\ q[g[k]].arg = st[v + k].arg

LEMMA WiredIs ==
  ASSUME NEW st, NEW a, NEW v, NEW ws, NEW n, n = v - a
  PROVE  Wired(st, a, v, ws) <=> \E w : WiredAs(st, a, n, ws, w)
<1>1. ASSUME NEW w, WiredAs(st, a, n, ws, w) PROVE w \in [1 .. v - a -> Replies(ws)]
  BY <1>1 DEF WiredAs, Listing
<1> QED
  BY <1>1 DEF Wired, WiredAs

LEMMA WaitsIs ==
  ASSUME NEW st, NEW v, NEW s, NEW q, NEW n, n = Len(st) - v
  PROVE  Waits(st, v, s, q) <=> \E g : WaitsAs(st, v, n, s, q, g)
<1>1. ASSUME NEW g, WaitsAs(st, v, n, s, q, g) PROVE g \in [1 .. Len(st) - v -> Mine(q, s)]
  BY <1>1 DEF WaitsAs, Listing
<1> QED
  BY <1>1 DEF Waits, WaitsAs

(* RecvThread takes the front of the wire. *)
LEMMA WireTail ==
  ASSUME NEW ws, IsSeq(ws), NEW t, Beheaded(t, ws), NEW n \in Nat, NEW a \in Nat,
         NEW st, NEW w, WiredAs(st, a, n, ws, w)
  PROVE  /\ ~ws[1].reply => \E x : WiredAs(st, a, n, t, x)
         /\ ws[1].reply => /\ n # 0 /\ ws[1].id = st[a + 1].id /\ GoodData(ws[1].id, ws[1].data)
                           /\ \E x : WiredAs(st, a + 1, n - 1, t, x)
<1>1. PICK m \in Nat : m + 1 = Len(ws) /\ m = Len(t)
  <2>1. Len(ws) \in Nat \ {0} /\ Len(t) = Len(ws) - 1
    BY DEF Beheaded
  <2>2. Len(ws) - 1 \in Nat /\ (Len(ws) - 1) + 1 = Len(ws)
    BY <2>1
  <2> QED
    BY <2>1, <2>2
<1>2. \A i \in 1 .. m : t[i] = ws[i + 1]
  BY <1>1 DEF Beheaded
<1>3. Replies(ws) = {i \in 1 .. m + 1 : ws[i].reply} /\ Replies(t) = {i \in 1 .. m : t[i].reply}
  BY <1>1 DEF Replies
<1>4. Replies(ws) \subseteq Nat \ {0} /\ Down(Replies(ws)) = Replies(t)
  BY <1>1, <1>2, <1>3 DEF Down
<1>5. Listing(w, n, Replies(ws)) /\ \A k \in 1 .. n : w[k] \in Replies(ws) /\ w[k] \in 1 .. m + 1
  BY <1>3 DEF WiredAs, Listing
<1>6. 1 \in Replies(ws) <=> ws[1].reply
  BY <1>1, <1>3
<1>7. ASSUME ~ws[1].reply PROVE \E x : WiredAs(st, a, n, t, x)
  <2>1. PICK x : x = [k \in 1 .. n |-> w[k] - 1]
    OBVIOUS
  <2>2. Listing(x, n, Replies(t))
    BY <1>4, <1>5, <1>6, <1>7, <2>1, ListRest
  <2>3. ASSUME NEW k \in 1 .. n
        PROVE  t[x[k]].id = st[a + k].id /\ GoodData(t[x[k]].id, t[x[k]].data)
    <3>1. w[k] # 1 /\ w[k] \in 1 .. m + 1
      BY <1>5, <1>6, <1>7
    <3>2. x[k] \in 1 .. m /\ x[k] + 1 = w[k]
      BY <2>1, <3>1
    <3>3. t[x[k]] = ws[w[k]]
      BY <1>2, <3>2
    <3> QED
      BY <3>3 DEF WiredAs
  <2> QED
    BY <2>2, <2>3 DEF WiredAs
<1>8. ASSUME ws[1].reply
      PROVE  /\ n # 0 /\ ws[1].id = st[a + 1].id /\ GoodData(ws[1].id, ws[1].data)
             /\ \E x : WiredAs(st, a + 1, n - 1, t, x)
  <2>1. PICK x : x = [k \in 1 .. n - 1 |-> w[k + 1] - 1]
    OBVIOUS
  <2>2. n # 0 /\ w[1] = 1 /\ Listing(x, n - 1, Replies(t))
    BY <1>4, <1>5, <1>6, <1>8, <2>1, ListFirst
  <2>3. ws[1].id = st[a + 1].id /\ GoodData(ws[1].id, ws[1].data)
    <3>1. 1 \in 1 .. n
      BY <2>2
    <3> QED
      BY <2>2, <3>1 DEF WiredAs
  <2>4. ASSUME NEW k \in 1 .. n - 1
        PROVE  t[x[k]].id = st[(a + 1) + k].id /\ GoodData(t[x[k]].id, t[x[k]].data)
    <3>1. k + 1 \in 1 .. n /\ 1 \in 1 .. n /\ 1 < k + 1 /\ a + (k + 1) = (a + 1) + k
      BY <2>2
    <3>2. w[1] < w[k + 1] /\ w[k + 1] \in 1 .. m + 1
      BY <1>5, <3>1 DEF Listing
    <3>3. x[k] \in 1 .. m /\ x[k] + 1 = w[k + 1]
      BY <2>1, <2>2, <3>2
    <3>4. t[x[k]] = ws[w[k + 1]]
      BY <1>2, <3>3
    <3> QED
      BY <3>1, <3>4 DEF WiredAs
  <2> QED
    BY <2>2, <2>3, <2>4 DEF WiredAs
<1> QED
  BY <1>7, <1>8

(* The messages of a served request join the wire: at most the last of     *)
(* them is a reply.                                                        *)
LEMMA WireMore ==
  ASSUME NEW ws, IsSeq(ws), NEW p, IsSeq(p), NEW t, Joined(t, ws, p), NEW n \in Nat, NEW a \in Nat,
         NEW st, NEW w, WiredAs(st, a, n, ws, w),
         \A i \in 1 .. Len(p) - 1 : ~p[i].reply
  PROVE  /\ Len(p) = 0 \/ ~p[Len(p)].reply => \E x : WiredAs(st, a, n, t, x)
         /\ /\ Len(p) # 0 /\ p[Len(p)].reply
            /\ p[Len(p)].id = st[a + (n + 1)].id /\ GoodData(p[Len(p)].id, p[Len(p)].data)
            => \E x : WiredAs(st, a, n + 1, t, x)
<1>1. PICK m \in Nat, l \in Nat : m = Len(ws) /\ l = Len(p)
  BY SeqIs
<1>2. /\ Len(t) = m + l /\ \A i \in 1 .. m : t[i] = ws[i]
      /\ \A i \in 1 .. l : t[m + i] = p[i]
  BY <1>1 DEF Joined
<1>3. \A i \in 1 .. m + l : i \in 1 .. m \/ (i - m \in 1 .. l /\ m + (i - m) = i)
  OBVIOUS
<1>4. Replies(ws) = {i \in 1 .. m : ws[i].reply} /\ Replies(t) = {i \in 1 .. m + l : t[i].reply}
  BY <1>1, <1>2 DEF Replies
<1>5. Listing(w, n, Replies(ws)) /\ \A k \in 1 .. n : w[k] \in Replies(ws) /\ w[k] \in 1 .. m
  BY <1>4 DEF WiredAs, Listing
<1>6. \A k \in 1 .. n : t[w[k]] = ws[w[k]]
  BY <1>2, <1>5
<1>7. Replies(ws) \subseteq Replies(t)
  BY <1>2, <1>4
<1>8. ASSUME NEW i \in Replies(t), i \notin Replies(ws) PROVE l # 0 /\ i = m + l /\ p[l].reply
  <2>1. i - m \in 1 .. l /\ m + (i - m) = i /\ t[i].reply
    BY <1>2, <1>3, <1>4, <1>8
  <2>2. p[i - m].reply
    BY <1>2, <2>1
  <2>3. i - m \notin 1 .. l - 1
    BY <1>1, <2>2
  <2>4. i - m = l
    BY <2>1, <2>3
  <2> QED
    BY <2>1, <2>2, <2>4
<1>9. ASSUME l = 0 \/ ~p[l].reply PROVE \E x : WiredAs(st, a, n, t, x)
  <2>1. Replies(t) = Replies(ws)
    BY <1>7, <1>8, <1>9
  <2>2. WiredAs(st, a, n, t, w)
    BY <1>6, <2>1 DEF WiredAs
  <2> QED
    BY <2>2
<1>10. ASSUME l # 0, p[l].reply, p[l].id = st[a + (n + 1)].id, GoodData(p[l].id, p[l].data)
       PROVE  \E x : WiredAs(st, a, n + 1, t, x)
  <2>1. m + l \in 1 .. m + l /\ l \in 1 .. l /\ t[m + l] = p[l] /\ m + l \in Nat
    BY <1>2, <1>10
  <2>2. Replies(t) = Replies(ws) \cup {m + l}
    BY <1>4, <1>7, <1>8, <1>10, <2>1
  <2>3. PICK x : x = [k \in 1 .. n + 1 |-> IF k <= n THEN w[k] ELSE m + l]
    OBVIOUS
  <2>4. Replies(ws) \subseteq Nat /\ \A i \in Replies(ws) : i < m + l
    BY <1>4, <1>10
  <2>5. Listing(x, n + 1, Replies(ws) \cup {m + l})
    BY <1>5, <2>1, <2>3, <2>4, ListMore
  <2>6. ASSUME NEW k \in 1 .. n + 1
        PROVE  t[x[k]].id = st[a + k].id /\ GoodData(t[x[k]].id, t[x[k]].data)
    <3>1. CASE k \in 1 .. n
      <4>1. x[k] = w[k] /\ t[x[k]] = ws[w[k]]
        BY <1>6, <2>3, <3>1
      <4> QED
        BY <3>1, <4>1 DEF WiredAs
    <3>2. CASE k = n + 1
      BY <1>10, <2>1, <2>3, <3>2
    <3> QED
      BY <3>1, <3>2
  <2> QED
    BY <2>2, <2>5, <2>6 DEF WiredAs
<1> QED
  BY <1>1, <1>9, <1>10

(* PacketThread takes the front of the queue. *)
LEMMA WaitTail ==
  ASSUME NEW q, IsSeq(q), NEW t, Beheaded(t, q), NEW n \in Nat, NEW v \in Nat,
         NEW st, NEW s, NEW g, WaitsAs(st, v, n, s, q, g)
  PROVE  /\ q[1].session # s => \E x : WaitsAs(st, v, n, s, t, x)
         /\ q[1].session = s => /\ n # 0 /\ q[1].id = st[v + 1].id /\ q[1].arg = st[v + 1].arg
                                /\ \E x : WaitsAs(st, v + 1, n - 1, s, t, x)
<1>1. PICK m \in Nat : m + 1 = Len(q) /\ m = Len(t)
  <2>1. Len(q) \in Nat \ {0} /\ Len(t) = Len(q) - 1
    BY DEF Beheaded
  <2>2. Len(q) - 1 \in Nat /\ (Len(q) - 1) + 1 = Len(q)
    BY <2>1
  <2> QED
    BY <2>1, <2>2
<1>2. \A i \in 1 .. m : t[i] = q[i + 1]
  BY <1>1 DEF Beheaded
<1>3. Mine(q, s) = {i \in 1 .. m + 1 : q[i].session = s} /\ Mine(t, s) = {i \in 1 .. m : t[i].session = s}
  BY <1>1 DEF Mine
<1>4. Mine(q, s) \subseteq Nat \ {0} /\ Down(Mine(q, s)) = Mine(t, s)
  BY <1>1, <1>2, <1>3 DEF Down
<1>5. Listing(g, n, Mine(q, s)) /\ \A k \in 1 .. n : g[k] \in Mine(q, s) /\ g[k] \in 1 .. m + 1
  BY <1>3 DEF WaitsAs, Listing
<1>6. 1 \in Mine(q, s) <=> q[1].session = s
  BY <1>1, <1>3
<1>7. ASSUME q[1].session # s PROVE \E x : WaitsAs(st, v, n, s, t, x)
  <2>1. PICK x : x = [k \in 1 .. n |-> g[k] - 1]
    OBVIOUS
  <2>2. Listing(x, n, Mine(t, s))
    BY <1>4, <1>5, <1>6, <1>7, <2>1, ListRest
  <2>3. ASSUME NEW k \in 1 .. n
        PROVE  t[x[k]].id = st[v + k].id /\ t[x[k]].arg = st[v + k].arg
    <3>1. g[k] # 1 /\ g[k] \in 1 .. m + 1
      BY <1>5, <1>6, <1>7
    <3>2. x[k] \in 1 .. m /\ x[k] + 1 = g[k]
      BY <2>1, <3>1
    <3>3. t[x[k]] = q[g[k]]
      BY <1>2, <3>2
    <3> QED
      BY <3>3 DEF WaitsAs
  <2> QED
    BY <2>2, <2>3 DEF WaitsAs
<1>8. ASSUME q[1].session = s
      PROVE  /\ n # 0 /\ q[1].id = st[v + 1].id /\ q[1].arg = st[v + 1].arg
             /\ \E x : WaitsAs(st, v + 1, n - 1, s, t, x)
  <2>1. PICK x : x = [k \in 1 .. n - 1 |-> g[k + 1] - 1]
    OBVIOUS
  <2>2. n # 0 /\ g[1] = 1 /\ Listing(x, n - 1, Mine(t, s))
    BY <1>4, <1>5, <1>6, <1>8, <2>1, ListFirst
  <2>3. q[1].id = st[v + 1].id /\ q[1].arg = st[v + 1].arg
    <3>1. 1 \in 1 .. n
      BY <2>2
    <3> QED
      BY <2>2, <3>1 DEF WaitsAs
  <2>4. ASSUME NEW k \in 1 .. n - 1
        PROVE  t[x[k]].id = st[(v + 1) + k].id /\ t[x[k]].arg = st[(v + 1) + k].arg
    <3>1. k + 1 \in 1 .. n /\ 1 \in 1 .. n /\ 1 < k + 1 /\ v + (k + 1) = (v + 1) + k
      BY <2>2
    <3>2. g[1] < g[k + 1] /\ g[k + 1] \in 1 .. m + 1
      BY <1>5, <3>1 DEF Listing
    <3>3. x[k] \in 1 .. m /\ x[k] + 1 = g[k + 1]
      BY <2>1, <2>2, <3>2
    <3>4. t[x[k]] = q[g[k + 1]]
      BY <1>2, <3>3
    <3> QED
      BY <3>1, <3>4 DEF WaitsAs
  <2> QED
    BY <2>2, <2>3, <2>4 DEF WaitsAs
<1> QED
  BY <1>7, <1>8

(* A worker puts a request at the end of the queue. *)
LEMMA WaitMore ==
  ASSUME NEW q, IsSeq(q), NEW e, NEW t, Appended(t, q, e), NEW n \in Nat, NEW v \in Nat,
         NEW st, NEW s, NEW g, WaitsAs(st, v, n, s, q, g)
  PROVE  /\ e.session # s => \E x : WaitsAs(st, v, n, s, t, x)
         /\ e.session = s /\ e.id = st[v + (n + 1)].id /\ e.arg = st[v + (n + 1)].arg
            => \E x : WaitsAs(st, v, n + 1, s, t, x)
<1>1. PICK m \in Nat : m = Len(q)
  BY SeqIs
<1>2. Len(t) = m + 1 /\ t[m + 1] = e /\ \A i \in 1 .. m : t[i] = q[i]
  BY <1>1 DEF Appended
<1>3. \A i \in 1 .. m + 1 : i \in 1 .. m \/ i = m + 1
  OBVIOUS
<1>4. Mine(q, s) = {i \in 1 .. m : q[i].session = s} /\ Mine(t, s) = {i \in 1 .. m + 1 : t[i].session = s}
  BY <1>1, <1>2 DEF Mine
<1>5. Listing(g, n, Mine(q, s)) /\ \A k \in 1 .. n : g[k] \in Mine(q, s) /\ g[k] \in 1 .. m
  BY <1>4 DEF WaitsAs, Listing
<1>6. \A k \in 1 .. n : t[g[k]] = q[g[k]]
  BY <1>2, <1>5
<1>7. ASSUME e.session # s PROVE \E x : WaitsAs(st, v, n, s, t, x)
  <2>1. Mine(t, s) = Mine(q, s)
    BY <1>2, <1>3, <1>4, <1>7
  <2>2. WaitsAs(st, v, n, s, t, g)
    BY <1>6, <2>1 DEF WaitsAs
  <2> QED
    BY <2>2
<1>8. ASSUME e.session = s, e.id = st[v + (n + 1)].id, e.arg = st[v + (n + 1)].arg
      PROVE  \E x : WaitsAs(st, v, n + 1, s, t, x)
  <2>1. m + 1 \in 1 .. m + 1 /\ m + 1 \in Nat
    OBVIOUS
  <2>2. Mine(t, s) = Mine(q, s) \cup {m + 1}
    BY <1>2, <1>3, <1>4, <1>8, <2>1
  <2>3. PICK x : x = [k \in 1 .. n + 1 |-> IF k <= n THEN g[k] ELSE m + 1]
    OBVIOUS
  <2>4. Mine(q, s) \subseteq Nat /\ \A i \in Mine(q, s) : i < m + 1
    BY <1>4
  <2>5. Listing(x, n + 1, Mine(q, s) \cup {m + 1})
    BY <1>5, <2>1, <2>3, <2>4, ListMore
  <2>6. ASSUME NEW k \in 1 .. n + 1
        PROVE  t[x[k]].id = st[v + k].id /\ t[x[k]].arg = st[v + k].arg
    <3>1. CASE k \in 1 .. n
      <4>1. x[k] = g[k] /\ t[x[k]] = q[g[k]]
        BY <1>6, <2>3, <3>1
      <4> QED
        BY <3>1, <4>1 DEF WaitsAs
    <3>2. CASE k = n + 1
      BY <1>2, <1>8, <2>1, <2>3, <3>2
    <3> QED
      BY <3>1, <3>2
  <2> QED
    BY <2>2, <2>5, <2>6 DEF WaitsAs
<1> QED
  BY <1>7, <1>8

(* A frame's answer was the last of everything. *)
LEMMA LinkFollows ==
  ASSUME NEW r, NEW c, NEW a, NEW v, NEW a2, NEW v2, NEW ws, NEW s, NEW q,
         IsSeq(c.stack), Follows(r, c, a, v, a2, v2), Linked(c.stack, a, v, ws, s, q)
  PROVE  Linked(r.stack, a2, v2, ws, s, q)
<1>1. CASE r.stack = c.stack /\ a2 = a /\ v2 = v
  BY <1>1 DEF Linked
<1>2. CASE /\ Popped(r.stack, c.stack) /\ a = Len(c.stack) /\ v = Len(c.stack)
           /\ a2 = Len(c.stack) - 1 /\ v2 = Len(c.stack) - 1
  <2>1. PICK n : n = Len(c.stack)
    OBVIOUS
  <2>2. n \in Nat \ {0} /\ Len(r.stack) = n - 1
    BY <1>2, <2>1 DEF Popped
  <2>3. 0 = v - a /\ 0 = v2 - a2 /\ 0 = Len(c.stack) - v /\ 0 = Len(r.stack) - v2
    BY <1>2, <2>1, <2>2
  <2>4. (\E w : WiredAs(c.stack, a, 0, ws, w)) /\ (\E g : WaitsAs(c.stack, v, 0, s, q, g))
    BY <2>3, WiredIs, WaitsIs DEF Linked
  <2>5. \A k \in 1 .. 0 : FALSE
    OBVIOUS
  <2>6. \E w : WiredAs(r.stack, a2, 0, ws, w)
    BY <2>4, <2>5 DEF WiredAs
  <2>7. \E g : WaitsAs(r.stack, v2, 0, s, q, g)
    BY <2>4, <2>5 DEF WaitsAs
  <2> QED
    BY <2>3, <2>6, <2>7, WiredIs, WaitsIs DEF Linked
<1> QED
  BY <1>1, <1>2 DEF Follows

-----------------------------------------------------------------------------
(* What Picked computes, one entry of the sequence at a time. *)
PickStep(seq, at, q, n) == IF n \in at THEN Append(q, seq[n]) ELSE q
IsPick(f, seq, at, m) ==
  f = [n \in 0 .. m |-> IF n = 0 THEN <<>> ELSE PickStep(seq, at, f[n - 1], n)]

LEMMA PickExists ==
  ASSUME NEW seq, Len(seq) \in Nat, NEW at
  PROVE  \E f : IsPick(f, seq, at, Len(seq)) /\ Picked(seq, at) = f[Len(seq)]
<1> DEFINE T == {m \in Nat : \E f : IsPick(f, seq, at, m)}
<1>1. 0 \in T
  <2>1. IsPick([n \in 0 .. 0 |-> <<>>], seq, at, 0)
    BY DEF IsPick
  <2> QED
    BY <2>1
<1>2. ASSUME NEW m \in Nat, m \in T PROVE m + 1 \in T
  <2>1. PICK f : IsPick(f, seq, at, m)
    BY <1>2
  <2> DEFINE g == [n \in 0 .. m + 1 |-> IF n = m + 1 THEN PickStep(seq, at, f[m], m + 1) ELSE f[n]]
  <2>2. ASSUME NEW n \in 0 .. m + 1
        PROVE  g[n] = IF n = 0 THEN <<>> ELSE PickStep(seq, at, g[n - 1], n)
    <3>1. CASE n = m + 1
      <4>1. n - 1 = m /\ m \in 0 .. m + 1 /\ n # 0 /\ m # m + 1
        BY <3>1
      <4>2. g[n] = PickStep(seq, at, f[m], m + 1) /\ g[m] = f[m]
        BY <3>1, <4>1
      <4> QED
        BY <3>1, <4>1, <4>2
    <3>2. CASE n # m + 1
      <4>1. n \in 0 .. m /\ (n # 0 => n - 1 \in 0 .. m + 1 /\ n - 1 # m + 1)
        BY <3>2
      <4>2. g[n] = f[n] /\ (n # 0 => g[n - 1] = f[n - 1])
        BY <3>2, <4>1
      <4>3. f[n] = IF n = 0 THEN <<>> ELSE PickStep(seq, at, f[n - 1], n)
        BY <2>1, <4>1 DEF IsPick
      <4> QED
        BY <4>2, <4>3
    <3> QED
      BY <3>1, <3>2
  <2>3. g = [n \in 0 .. m + 1 |-> g[n]]
    OBVIOUS
  <2> HIDE DEF g
  <2>4. IsPick(g, seq, at, m + 1)
    BY <2>2, <2>3 DEF IsPick
  <2> QED
    BY <2>4
<1>3. Len(seq) \in T
  <2> HIDE DEF T
  <2>1. Nat \subseteq T
    BY <1>1, <1>2, SetInduction
  <2> QED
    BY <2>1
<1> DEFINE R(f) == f = [n \in 0 .. Len(seq) |->
                          IF n = 0 THEN <<>>
                          ELSE IF n \in at THEN Append(f[n - 1], seq[n]) ELSE f[n - 1]]
<1>4. \A f : R(f) <=> IsPick(f, seq, at, Len(seq))
  BY DEF IsPick, PickStep
<1>5. Picked(seq, at) = (CHOOSE f : R(f))[Len(seq)]
  BY DEF Picked
<1> HIDE DEF R
<1>6. R(CHOOSE f : R(f))
  BY <1>3, <1>4
<1> QED
  BY <1>4, <1>5, <1>6

(* The entries come from the positions, and the last one last. *)
From(e, seq, at, n) == \E i \in 1 .. n : i \in at /\ e = seq[i]

PickedFrom(p, seq, at) ==
  /\ IsSeq(p)
  /\ \A k \in 1 .. Len(p) : From(p[k], seq, at, Len(seq))
  /\ Len(seq) # 0 /\ Len(seq) \in at =>
       /\ Len(p) # 0 /\ p[Len(p)] = seq[Len(seq)]
       /\ \A k \in 1 .. Len(p) - 1 : From(p[k], seq, at, Len(seq) - 1)

LEMMA PickedIs ==
  ASSUME NEW seq, IsSeq(seq), NEW at PROVE PickedFrom(Picked(seq, at), seq, at)
<1>1. PICK m \in Nat : m = Len(seq)
  BY SeqIs
<1>2. PICK f : IsPick(f, seq, at, m) /\ Picked(seq, at) = f[m]
  BY <1>1, PickExists
<1>3. /\ f[0] = <<>>
      /\ \A n \in 1 .. m : f[n] = PickStep(seq, at, f[n - 1], n)
  BY <1>2 DEF IsPick
<1> DEFINE P(n) == IsSeq(f[n]) /\ \A k \in 1 .. Len(f[n]) : From(f[n][k], seq, at, n)
           T == {n \in Nat : n <= m => P(n)}
<1>4. P(0)
  <2>1. \A k \in 1 .. 0 : FALSE
    OBVIOUS
  <2> QED
    BY <1>3, <2>1, EmptyIs
<1>5. ASSUME NEW n \in Nat, n < m, P(n)
      PROVE  /\ P(n + 1)
             /\ n + 1 \in at => Appended(f[n + 1], f[n], seq[n + 1])
  <2>1. n + 1 \in 1 .. m /\ (n + 1) - 1 = n
    BY <1>5
  <2>2. PICK q : q = f[n]
    OBVIOUS
  <2>3. PICK r : r = f[n + 1]
    OBVIOUS
  <2>4. r = PickStep(seq, at, q, n + 1)
    BY <1>3, <2>1, <2>2, <2>3
  <2>5. IsSeq(q) /\ \A k \in 1 .. Len(q) : From(q[k], seq, at, n)
    BY <1>5, <2>2
  <2>6. \A e : From(e, seq, at, n) => From(e, seq, at, n + 1)
    BY DEF From
  <2>7. CASE n + 1 \in at
    <3>1. Appended(Append(q, seq[n + 1]), q, seq[n + 1])
      BY <2>5, AppendIs, Zenon
    <3>2. r = Append(q, seq[n + 1])
      BY <2>4, <2>7 DEF PickStep
    <3>3. Appended(r, q, seq[n + 1])
      BY <3>1, <3>2
    <3>4. PICK l \in Nat : l = Len(q)
      BY <2>5, SeqIs
    <3>5. From(seq[n + 1], seq, at, n + 1)
      BY <2>1, <2>7 DEF From
    <3>6. ASSUME NEW k \in 1 .. l + 1 PROVE From(r[k], seq, at, n + 1)
      <4>1. CASE k = l + 1
        BY <3>3, <3>4, <3>5, <4>1 DEF Appended
      <4>2. CASE k \in 1 .. l
        <5>1. r[k] = q[k] /\ From(q[k], seq, at, n)
          BY <2>5, <3>3, <3>4, <4>2 DEF Appended
        <5> QED
          BY <2>6, <5>1
      <4> QED
        BY <4>1, <4>2
    <3>7. IsSeq(r) /\ Len(r) = l + 1
      BY <3>3, <3>4 DEF Appended
    <3> QED
      BY <2>2, <2>3, <3>3, <3>6, <3>7
  <2>8. CASE n + 1 \notin at
    <3>1. r = q
      BY <2>4, <2>8 DEF PickStep
    <3> QED
      BY <2>3, <2>5, <2>6, <2>8, <3>1
  <2> QED
    BY <2>7, <2>8
<1>6. \A n \in Nat : n <= m => P(n)
  <2>1. 0 \in T
    BY <1>4
  <2>2. ASSUME NEW n \in Nat, n \in T PROVE n + 1 \in T
    <3>1. n + 1 <= m => n < m /\ n <= m
      BY <1>1
    <3> HIDE DEF P
    <3> QED
      BY <1>5, <2>2, <3>1
  <2> HIDE DEF T
  <2>3. Nat \subseteq T
    BY <2>1, <2>2, SetInduction
  <2> QED
    BY <2>3 DEF T
<1>7. P(m)
  BY <1>6
<1>8. ASSUME m # 0, m \in at
      PROVE  /\ Len(f[m]) # 0 /\ f[m][Len(f[m])] = seq[m]
             /\ \A k \in 1 .. Len(f[m]) - 1 : From(f[m][k], seq, at, m - 1)
  <2>1. m - 1 \in Nat /\ m - 1 < m /\ m - 1 <= m /\ (m - 1) + 1 = m
    BY <1>8
  <2>2. P(m - 1)
    BY <1>6, <2>1
  <2> HIDE DEF P
  <2>3. Appended(f[m], f[m - 1], seq[m])
    BY <1>5, <1>8, <2>1, <2>2
  <2>4. PICK l \in Nat : l = Len(f[m - 1])
    BY <2>2, SeqIs DEF P
  <2>5. Len(f[m]) = l + 1 /\ f[m][l + 1] = seq[m] /\ \A k \in 1 .. l : f[m][k] = f[m - 1][k]
    BY <2>3, <2>4 DEF Appended
  <2>6. \A k \in 1 .. l : From(f[m - 1][k], seq, at, m - 1)
    BY <2>2, <2>4 DEF P
  <2>7. (l + 1) - 1 = l /\ l + 1 # 0
    OBVIOUS
  <2> QED
    BY <2>5, <2>6, <2>7
<1>9. PICK p : p = f[m]
  OBVIOUS
<1>10. PickedFrom(p, seq, at)
  <2>1. IsSeq(p) /\ \A k \in 1 .. Len(p) : From(p[k], seq, at, m)
    BY <1>7, <1>9
  <2>2. m # 0 /\ m \in at => /\ Len(p) # 0 /\ p[Len(p)] = seq[m]
                             /\ \A k \in 1 .. Len(p) - 1 : From(p[k], seq, at, m - 1)
    BY <1>8, <1>9
  <2> QED
    BY <1>1, <2>1, <2>2 DEF PickedFrom
<1> QED
  BY <1>2, <1>9, <1>10

-----------------------------------------------------------------------------
(* Every position of the room vector is that of a room. *)
LEMMA RoomAtIs ==
  ASSUME TypeOK, NEW k \in 1 .. Cardinality(rooms) PROVE RoomAt(k) \in rooms
<1>1. PICK c \in Nat : c = Cardinality(rooms)
  <2>1. rooms \subseteq 1 .. nextRoom - 1 /\ nextRoom \in Nat
    BY DEF TypeOK, RoomId
  <2>2. IsFiniteSet(1 .. nextRoom - 1)
    BY <2>1, FS_Interval
  <2> QED
    BY <2>1, <2>2, FS_Subset, FS_CardinalityType
<1>2. \A r \in rooms : r \in Int
  BY DEF TypeOK, RoomId
<1>3. PICK f : f = [r \in rooms |-> Cardinality(Before(r)) + 1]
  OBVIOUS
<1>4. ASSUME NEW r \in rooms PROVE f[r] \in 1 .. c /\ f[r] = Cardinality(Before(r)) + 1
  BY <1>1, <1>3, BeforeFacts
<1>5. f \in Injection(rooms, 1 .. c)
  <2>1. ASSUME NEW r \in rooms, NEW q \in rooms, f[r] = f[q] PROVE r = q
    <3>1. Cardinality(Before(r)) \in Nat /\ Cardinality(Before(q)) \in Nat
      BY BeforeFacts
    <3>2. Cardinality(Before(r)) = Cardinality(Before(q))
      BY <1>4, <2>1, <3>1
    <3>3. ~(q < r) /\ ~(r < q)
      BY <3>1, <3>2, BeforeFacts
    <3> QED
      BY <1>2, <3>3
  <2> QED
    BY <1>3, <1>4, <2>1 DEF Injection, IsInjective
<1>6. IsFiniteSet(1 .. c) /\ Cardinality(1 .. c) = c
  BY FS_Interval
<1>7. f \in Surjection(rooms, 1 .. c)
  BY <1>1, <1>5, <1>6, FS_Injection
<1>8. PICK r \in rooms : f[r] = k
  BY <1>1, <1>7 DEF Surjection
<1> QED
  BY <1>4, <1>8, RoomAtPosition

LEMMA ListData ==
  ASSUME TypeOK, NEW page \in Nat PROVE GoodData("ROOM_LIST", GetRoomList(page))
<1>1. PICK count : count = Cardinality(rooms)
  OBVIOUS
<1>2. count \in Nat
  <2>1. rooms \subseteq 1 .. nextRoom - 1 /\ nextRoom \in Nat
    BY DEF TypeOK, RoomId
  <2>2. IsFiniteSet(1 .. nextRoom - 1)
    BY <2>1, FS_Interval
  <2> QED
    BY <1>1, <2>1, <2>2, FS_Subset, FS_CardinalityType
<1>3. PICK size \in Nat \ {0} : size = ROOM_CNT_PER_PAGE
  BY BoundAssumption
<1>4. PICK end : end = IF page * size > count THEN count ELSE page * size
  OBVIOUS
<1>5. page * size \in Nat
  BY Product
<1>6. PICK start : start = IF end < size THEN 0 ELSE end - size
  OBVIOUS
<1>7. end \in Nat /\ end <= count /\ start \in Nat
  BY <1>2, <1>4, <1>5, <1>6
<1>8. PICK d : d = GetRoomList(page)
  OBVIOUS
<1>0. \A r \in rooms : r \in Nat
  BY DEF TypeOK, RoomId
<1>9. d = [i \in 1 .. size |-> IF start + i <= end
             THEN <<RoomAt(start + i), Len(players[RoomAt(start + i)])>> ELSE <<0, 0>>]
  BY <1>1, <1>3, <1>4, <1>6, <1>8 DEF GetRoomList, PageStart
<1>10. ASSUME NEW i \in DOMAIN d PROVE d[i][1] \in Nat
  <2>1. i \in 1 .. size
    BY <1>9
  <2>2. CASE start + i <= end
    <3>1. start + i \in 1 .. count
      BY <1>2, <1>7, <2>1, <2>2
    <3>2. RoomAt(start + i) \in rooms
      BY <1>1, <3>1, RoomAtIs
    <3>3. RoomAt(start + i) \in Nat
      BY <1>0, <3>2
    <3>4. d[i] = <<RoomAt(start + i), Len(players[RoomAt(start + i)])>>
      BY <1>9, <2>1, <2>2
    <3> QED
      BY <3>3, <3>4
  <2>3. CASE ~(start + i <= end)
    <3>1. d[i] = <<0, 0>>
      BY <1>9, <2>1, <2>3
    <3> QED
      BY <3>1
  <2> QED
    BY <2>2, <2>3
<1> QED
  BY <1>8, <1>10 DEF GoodData

-----------------------------------------------------------------------------
(* The messages of a handler: notifications, and the response last. *)
Spoken(m, rq) ==
  /\ IsSeq(m) /\ Len(m) # 0
  /\ \A i \in 1 .. Len(m) - 1 : m[i].reply = FALSE /\ m[i].id \in NoteIds
  /\ m[Len(m)].reply = TRUE /\ m[Len(m)].to = rq.session /\ m[Len(m)].id = rq.id
  /\ GoodData(rq.id, m[Len(m)].data)

IsNotes(n) == IsSeq(n) /\ \A i \in 1 .. Len(n) : n[i].reply = FALSE /\ n[i].id \in NoteIds

LEMMA OneIs == ASSUME NEW e PROVE IsSeq(<<e>>) /\ Len(<<e>>) = 1 /\ <<e>>[1] = e
<1>1. <<e>> \in Seq({e})
  OBVIOUS
<1> QED
  BY <1>1, SeqOf

LEMMA SpokenAlone ==
  ASSUME NEW rq, NEW d, GoodData(rq.id, d), NEW m, m = Response(rq, d)
  PROVE  Spoken(m, rq)
<1>1. PICK e : e = [to |-> rq.session, id |-> rq.id, reply |-> TRUE, data |-> d]
  OBVIOUS
<1>2. m = <<e>>
  BY <1>1 DEF Response
<1>3. IsSeq(m) /\ Len(m) = 1 /\ m[1] = e
  BY <1>2, OneIs
<1>4. e.reply = TRUE /\ e.to = rq.session /\ e.id = rq.id /\ e.data = d
  BY <1>1
<1>5. \A i \in 1 .. 1 - 1 : FALSE
  OBVIOUS
<1> QED
  BY <1>3, <1>4, <1>5 DEF Spoken

LEMMA SpokenAfter ==
  ASSUME NEW rq, NEW d, GoodData(rq.id, d), NEW n, IsNotes(n), NEW m, m = n \o Response(rq, d)
  PROVE  Spoken(m, rq)
<1>1. PICK e : e = [to |-> rq.session, id |-> rq.id, reply |-> TRUE, data |-> d]
  OBVIOUS
<1>2. PICK o : o = <<e>>
  OBVIOUS
<1>3. IsSeq(o) /\ Len(o) = 1 /\ o[1] = e
  BY <1>2, OneIs
<1>4. Joined(n \o o, n, o)
  BY <1>3, CatIs DEF IsNotes
<1>5. m = n \o o
  BY <1>1, <1>2 DEF Response
<1>6. Joined(m, n, o)
  BY <1>4, <1>5
<1>7. PICK l \in Nat : l = Len(n)
  BY SeqIs DEF IsNotes
<1>8. IsSeq(m) /\ Len(m) = l + 1 /\ (\A i \in 1 .. l : m[i] = n[i]) /\ m[l + 1] = e
  BY <1>3, <1>6, <1>7 DEF Joined
<1>9. \A i \in 1 .. (l + 1) - 1 : i \in 1 .. l
  OBVIOUS
<1>10. \A i \in 1 .. l : m[i].reply = FALSE /\ m[i].id \in NoteIds
  BY <1>7, <1>8 DEF IsNotes
<1>11. e.reply = TRUE /\ e.to = rq.session /\ e.id = rq.id /\ e.data = d
  BY <1>1
<1> QED
  BY <1>8, <1>9, <1>10, <1>11 DEF Spoken

LEMMA NotesOf ==
  ASSUME NEW l \in Nat, NEW n, n = [i \in 1 .. l |-> n[i]],
         \A i \in 1 .. l : n[i].reply = FALSE /\ n[i].id \in NoteIds
  PROVE  IsNotes(n)
<1> DEFINE T == {n[i] : i \in 1 .. l}
<1>1. \A i \in 1 .. l : n[i] \in T
  OBVIOUS
<1> HIDE DEF T
<1>2. n \in Seq(T) /\ Len(n) = l
  BY <1>1
<1>3. IsSeq(n)
  BY <1>2, SeqOf
<1> QED
  BY <1>2, <1>3 DEF IsNotes

LEMMA OthersNotes ==
  ASSUME NEW r, IsSeq(players[r]), NEW s, NEW id \in NoteIds, NEW d
  PROVE  IsNotes(NotifyOthers(r, s, id, d))
<1>1. PICK o : o = Picked(players[r], {i \in DOMAIN players[r] : players[r][i] # s})
  OBVIOUS
<1>2. IsSeq(o)
  BY <1>1, PickedIs DEF PickedFrom
<1>3. PICK l \in Nat : l = Len(o)
  BY <1>2, SeqIs
<1>4. PICK n : n = NotifyOthers(r, s, id, d)
  OBVIOUS
<1>5. n = [i \in 1 .. l |-> [to |-> o[i], id |-> id, reply |-> FALSE, data |-> d]]
  BY <1>1, <1>3, <1>4 DEF NotifyOthers, Notify
<1>6. n = [i \in 1 .. l |-> n[i]] /\ \A i \in 1 .. l : n[i].reply = FALSE /\ n[i].id \in NoteIds
  BY <1>5
<1> QED
  BY <1>4, <1>6, NotesOf

LEMMA IntroNotes ==
  ASSUME NEW r, Len(players[r]) \in Nat, NEW s
  PROVE  IsNotes(Introductions(r, s))
<1>1. PICK l \in Nat : l = 2 * Len(players[r])
  OBVIOUS
<1>2. PICK n : n = Introductions(r, s)
  OBVIOUS
<1>3. n = [i \in 1 .. l |-> n[i]]
  BY <1>1, <1>2 DEF Introductions
<1>4. ASSUME NEW i \in 1 .. l PROVE n[i].reply = FALSE /\ n[i].id \in NoteIds
  <2>1. PICK p : p = players[r][(i + 1) \div 2]
    OBVIOUS
  <2>2. n[i] = IF i % 2 = 1 THEN Notify(p, "ROOM_ENTER", <<s>>) ELSE Notify(s, "ROOM_ENTER", <<p>>)
    BY <1>1, <1>2, <2>1 DEF Introductions
  <2>3. CASE n[i] = Notify(p, "ROOM_ENTER", <<s>>)
    BY <2>3 DEF Notify, NoteIds
  <2>4. CASE n[i] = Notify(s, "ROOM_ENTER", <<p>>)
    BY <2>4 DEF Notify, NoteIds
  <2> QED
    BY <2>2, <2>3, <2>4
<1> QED
  BY <1>2, <1>3, <1>4, NotesOf

(* Only the rooms of those who enter and leave change. *)
Moved(ro2, ro, rq) ==
  /\ \A s \in Session : s # rq.session => ro2[s] = ro[s]
  /\ ro2[rq.session] =
       IF rq.id = "ROOM_LEAVE" THEN 0
       ELSE IF rq.id = "ROOM_ENTER" /\ ro2[rq.session] = rq.arg THEN rq.arg
       ELSE ro[rq.session]

Handles == Served /\ Spoken(sent', req) /\ Moved(roomOf', roomOf, req)

LEMMA ServeIs ==
  ASSUME IInv, PacketThread
  PROVE  /\ up /\ queue # <<>> /\ req \in Request /\ req = Head(queue)
         /\ Handles \/ (Fault /\ req.id \in {"GAME_START", "GAME_STOP"})
<1>1. TypeOK /\ PlayerIsInItsRoom
  BY DEF IInv
<1>2. up /\ queue # <<>>
  BY DEF PacketThread, ReqLogin, ReqRoomCreate, ReqRoomList, ReqRoomCanEnter, ReqRoomEnter,
         ReqRoomLeave, ReqGameStart, ReqGameStop, ReqGameInput, ReqFallingBlock, Serving
<1>3. req \in Request /\ req = Head(queue)
  <2>1. queue \in Seq(Request)
    BY <1>1 DEF TypeOK, Request
  <2> QED
    BY <1>2, <2>1, QueueFacts
<1>4. PICK rq : rq = req
  OBVIOUS
<1>5. rq.session \in Session /\ rq.arg \in Nat /\ rq.id \in ReqId
  BY <1>3, <1>4 DEF Request
<1>6. \A id, d : id \notin {"ROOM_CREATE", "ROOM_LIST"} => GoodData(id, d)
  BY DEF GoodData
<1>7. ASSUME rq.id \notin {"ROOM_LEAVE", "ROOM_ENTER"}, roomOf' = roomOf
      PROVE  Moved(roomOf', roomOf, rq)
  BY <1>7 DEF Moved
<1>8. \A r \in rooms : IsSeq(players[r]) /\ Len(players[r]) \in Nat
  BY <1>1, RoomFacts, SeqOf, SeqIs
<1>9. CASE ReqLogin
  <2>1. rq.id = "LOGIN" /\ Served /\ roomOf' = roomOf /\ sent' = Response(rq, <<SUCCESS, rq.session>>)
    BY <1>4, <1>9 DEF ReqLogin, Serving, playerVars
  <2>2. Spoken(sent', rq)
    BY <1>6, <2>1, SpokenAlone
  <2> QED
    BY <1>2, <1>3, <1>4, <1>7, <2>1, <2>2 DEF Handles
<1>10. CASE ReqRoomCreate
  <2>1. rq.id = "ROOM_CREATE" /\ Served /\ roomOf' = roomOf /\ sent' = Response(rq, <<FAILED, nextRoom>>)
    BY <1>4, <1>10 DEF ReqRoomCreate, Serving, playerVars
  <2>2. nextRoom \in Nat
    BY <1>1 DEF TypeOK
  <2>3. GoodData("ROOM_CREATE", <<FAILED, nextRoom>>)
    BY <2>2 DEF GoodData
  <2>4. Spoken(sent', rq)
    BY <2>1, <2>3, SpokenAlone
  <2> QED
    BY <1>2, <1>3, <1>4, <1>7, <2>1, <2>4 DEF Handles
<1>11. CASE ReqRoomList
  <2>1. rq.id = "ROOM_LIST" /\ Served /\ roomOf' = roomOf /\ sent' = Response(rq, GetRoomList(rq.arg))
    BY <1>4, <1>11 DEF ReqRoomList, Serving, playerVars
  <2>2. Spoken(sent', rq)
    BY <1>1, <1>5, <2>1, ListData, SpokenAlone
  <2> QED
    BY <1>2, <1>3, <1>4, <1>7, <2>1, <2>2 DEF Handles
<1>12. CASE ReqRoomCanEnter
  <2>1. PICK d : rq.id = "ROOM_CAN_ENTER" /\ Served /\ roomOf' = roomOf /\ sent' = Response(rq, d)
    BY <1>4, <1>12 DEF ReqRoomCanEnter, Serving, playerVars
  <2>2. Spoken(sent', rq)
    BY <1>6, <2>1, SpokenAlone
  <2> QED
    BY <1>2, <1>3, <1>4, <1>7, <2>1, <2>2 DEF Handles
<1>13. CASE ReqRoomEnter
  <2>1. rq.id = "ROOM_ENTER" /\ Served
    BY <1>4, <1>13 DEF ReqRoomEnter, Serving
  <2>2. CASE /\ roomOf' = roomOf
             /\ \E d : sent' = Response(rq, d)
    <3>1. Spoken(sent', rq)
      BY <1>6, <2>1, <2>2, SpokenAlone
    <3>2. Moved(roomOf', roomOf, rq)
      BY <2>1, <2>2 DEF Moved
    <3> QED
      BY <1>2, <1>3, <1>4, <2>1, <3>1, <3>2 DEF Handles
  <2>3. CASE /\ rq.arg \in rooms /\ roomOf' = [roomOf EXCEPT ![rq.session] = rq.arg]
             /\ \E d : sent' = Introductions(rq.arg, rq.session) \o Response(rq, d)
    <3>1. IsNotes(Introductions(rq.arg, rq.session))
      BY <1>8, <2>3, IntroNotes
    <3>2. Spoken(sent', rq)
      BY <1>6, <2>1, <2>3, <3>1, SpokenAfter
    <3>3. roomOf \in [Session -> Nat]
      BY <1>1 DEF TypeOK
    <3>4. Moved(roomOf', roomOf, rq)
      BY <1>5, <2>1, <2>3, <3>3 DEF Moved
    <3> QED
      BY <1>2, <1>3, <1>4, <2>1, <3>2, <3>4 DEF Handles
  <2> QED
    BY <1>4, <1>13, <2>2, <2>3 DEF ReqRoomEnter, AddPlayer
<1>14. CASE ReqRoomLeave
  <2>1. rq.id = "ROOM_LEAVE" /\ Served /\ sent' = Response(rq, <<FAILED>>)
    BY <1>4, <1>14 DEF ReqRoomLeave, Serving
  <2>2. Spoken(sent', rq)
    BY <1>6, <2>1, SpokenAlone
  <2>3. roomOf \in [Session -> Nat]
    BY <1>1 DEF TypeOK
  <2>4. \/ roomOf[rq.session] \notin rooms /\ roomOf' = roomOf
        \/ /\ roomOf[rq.session] \in rooms
           /\ roomOf' = IF rq.session \in Members(roomOf[rq.session])
                        THEN [roomOf EXCEPT ![rq.session] = 0] ELSE roomOf
    BY <1>4, <1>14 DEF ReqRoomLeave
  <2>5. Moved(roomOf', roomOf, rq)
    BY <1>1, <1>5, <2>1, <2>3, <2>4 DEF Moved, PlayerIsInItsRoom
  <2> QED
    BY <1>2, <1>3, <1>4, <2>1, <2>2, <2>5 DEF Handles
<1>15. CASE ReqGameStart
  <2>1. rq.id = "GAME_START"
    BY <1>4, <1>15 DEF ReqGameStart, Serving
  <2>2. CASE Fault
    BY <1>2, <1>3, <1>4, <2>1, <2>2
  <2>3. CASE ~Fault
    <3>1. roomOf[rq.session] \in rooms /\ Served /\ roomOf' = roomOf
      BY <1>4, <1>15, <2>3 DEF ReqGameStart
    <3>2. PICK d : sent' = NotifyOthers(roomOf[rq.session], rq.session, "GAME_START", d) \o Response(rq, d)
      BY <1>4, <1>15, <2>3 DEF ReqGameStart
    <3>3. IsNotes(NotifyOthers(roomOf[rq.session], rq.session, "GAME_START", d))
      BY <1>8, <3>1, OthersNotes DEF NoteIds
    <3>4. Spoken(sent', rq)
      BY <1>6, <2>1, <3>2, <3>3, SpokenAfter
    <3> QED
      BY <1>2, <1>3, <1>4, <1>7, <2>1, <3>1, <3>4 DEF Handles
  <2> QED
    BY <2>2, <2>3
<1>16. CASE ReqGameStop
  <2>1. rq.id = "GAME_STOP"
    BY <1>4, <1>16 DEF ReqGameStop, Serving
  <2>2. CASE Fault
    BY <1>2, <1>3, <1>4, <2>1, <2>2
  <2>3. CASE ~Fault
    <3>1. roomOf[rq.session] \in rooms /\ Served /\ roomOf' = roomOf
      BY <1>4, <1>16, <2>3 DEF ReqGameStop, playerVars
    <3>2. PICK d : sent' = NotifyOthers(roomOf[rq.session], rq.session, "GAME_STOP", d) \o Response(rq, d)
      BY <1>4, <1>16, <2>3 DEF ReqGameStop
    <3>3. IsNotes(NotifyOthers(roomOf[rq.session], rq.session, "GAME_STOP", d))
      BY <1>8, <3>1, OthersNotes DEF NoteIds
    <3>4. Spoken(sent', rq)
      BY <1>6, <2>1, <3>2, <3>3, SpokenAfter
    <3> QED
      BY <1>2, <1>3, <1>4, <1>7, <2>1, <3>1, <3>4 DEF Handles
  <2> QED
    BY <2>2, <2>3
<1>17. CASE ReqGameInput
  <2>1. rq.id = "GAME_INPUT" /\ Served /\ roomOf' = roomOf
    BY <1>4, <1>17 DEF ReqGameInput, Serving, playerVars
  <2>2. PICK n : /\ sent' = n \o Response(rq, <<FAILED>>)
                 /\ n = IF roomOf[rq.session] \in rooms
                        THEN AddKeyInput(roomOf[rq.session], rq.session, rq.arg) ELSE <<>>
    BY <1>4, <1>17 DEF ReqGameInput
  <2>3. \/ n = <<>>
        \/ /\ roomOf[rq.session] \in rooms
           /\ n = NotifyOthers(roomOf[rq.session], rq.session, "GAME_INPUT", <<rq.arg>>)
    BY <2>2 DEF AddKeyInput
  <2>4. IsNotes(<<>>)
    <3>1. \A i \in 1 .. 0 : FALSE
      OBVIOUS
    <3> QED
      BY <3>1, EmptyIs DEF IsNotes
  <2>5. IsNotes(n)
    BY <1>8, <2>3, <2>4, OthersNotes DEF NoteIds
  <2>6. Spoken(sent', rq)
    BY <1>6, <2>1, <2>2, <2>5, SpokenAfter
  <2> QED
    BY <1>2, <1>3, <1>4, <1>7, <2>1, <2>6 DEF Handles
<1>18. CASE ReqFallingBlock
  <2>1. rq.id = "FALLING_BLOCK" /\ Served /\ roomOf' = roomOf
    BY <1>4, <1>18 DEF ReqFallingBlock, Serving
  <2>2. PICK d : sent' = Response(rq, d)
    BY <1>4, <1>18 DEF ReqFallingBlock
  <2>3. Spoken(sent', rq)
    BY <1>6, <2>1, <2>2, SpokenAlone
  <2> QED
    BY <1>2, <1>3, <1>4, <1>7, <2>1, <2>3 DEF Handles
<1> QED
  BY <1>9, <1>10, <1>11, <1>12, <1>13, <1>14, <1>15, <1>16, <1>17, <1>18 DEF PacketThread

-----------------------------------------------------------------------------
(* With numbers: a requests are answered, n on the wire and m in the queue. *)
InStep(c, ws, q, s, ro, a, n, m) ==
  /\ a \in Nat /\ n \in Nat /\ m \in Nat /\ Len(c.stack) = (a + n) + m
  /\ Good(c, a, a + n, ro)
  /\ \E w : WiredAs(c.stack, a, n, ws, w)
  /\ \E g : WaitsAs(c.stack, a + n, m, s, q, g)

LEMMA SettledAs ==
  ASSUME NEW c, NEW ws, NEW q, NEW s, NEW ro, Settled(c, ws, q, s, ro)
  PROVE  WireOK(ws) /\ \E a, n, m : InStep(c, ws, q, s, ro, a, n, m)
<1>1. PICK a, v : Good(c, a, v, ro) /\ Linked(c.stack, a, v, ws, s, q)
  BY DEF Settled
<1>2. IsSeq(c.stack) /\ a \in 0 .. v /\ v \in 0 .. Len(c.stack)
  BY <1>1 DEF Good, Mid, IsClient
<1>3. PICK l \in Nat : l = Len(c.stack)
  BY <1>2, SeqIs
<1>4. a \in Nat /\ v \in Nat /\ a <= v /\ v <= l
  BY <1>2, <1>3
<1>5. PICK n \in Nat, m \in Nat : n = v - a /\ m = l - v
  BY <1>4
<1>6. v = a + n /\ l = (a + n) + m
  BY <1>4, <1>5
<1>7. \E w : WiredAs(c.stack, a, n, ws, w)
  BY <1>1, <1>5, WiredIs DEF Linked
<1>8. \E g : WaitsAs(c.stack, v, m, s, q, g)
  BY <1>1, <1>3, <1>5, WaitsIs DEF Linked
<1>9. InStep(c, ws, q, s, ro, a, n, m)
  BY <1>1, <1>3, <1>4, <1>6, <1>7, <1>8 DEF InStep
<1> QED
  BY <1>9 DEF Settled

LEMMA SettledBy ==
  ASSUME NEW c, NEW ws, NEW q, NEW s, NEW ro, WireOK(ws),
         NEW a, NEW n, NEW m, InStep(c, ws, q, s, ro, a, n, m)
  PROVE  Settled(c, ws, q, s, ro)
<1>1. PICK v : v = a + n
  OBVIOUS
<1>2. PICK l : l = Len(c.stack)
  OBVIOUS
<1>3. a \in Nat /\ n \in Nat /\ m \in Nat /\ l = (a + n) + m
  BY <1>2 DEF InStep
<1>4. n = v - a /\ m = l - v /\ a \in 0 .. l /\ v \in 0 .. l
  BY <1>1, <1>3
<1>5. Wired(c.stack, a, v, ws)
  BY <1>4, WiredIs DEF InStep
<1>6. Waits(c.stack, v, s, q)
  BY <1>1, <1>2, <1>4, WaitsIs DEF InStep
<1>7. Good(c, a, v, ro)
  BY <1>1 DEF InStep
<1> QED
  BY <1>2, <1>4, <1>5, <1>6, <1>7 DEF Settled, Linked

-----------------------------------------------------------------------------
(* What a handled request sends to the client s. *)
SentTo(p, s, rq) ==
  /\ IsSeq(p)
  /\ \A i \in 1 .. Len(p) - 1 : p[i].reply = FALSE /\ p[i].id \in NoteIds
  /\ s # rq.session => Len(p) = 0 \/ (p[Len(p)].reply = FALSE /\ p[Len(p)].id \in NoteIds)
  /\ s = rq.session => /\ Len(p) # 0 /\ p[Len(p)].reply = TRUE /\ p[Len(p)].id = rq.id
                       /\ GoodData(rq.id, p[Len(p)].data)

LEMMA SentIs ==
  ASSUME NEW mm, NEW rq, Spoken(mm, rq), NEW s, NEW at, at = {i \in DOMAIN mm : mm[i].to = s},
         NEW p, p = Picked(mm, at)
  PROVE  SentTo(p, s, rq)
<1>1. IsSeq(mm)
  BY DEF Spoken
<1>2. PICK l \in Nat \ {0} : l = Len(mm)
  BY <1>1, SeqIs DEF Spoken
<1>3. DOMAIN mm = 1 .. l
  BY <1>1, <1>2, SeqIs
<1>4. PickedFrom(p, mm, at)
  BY <1>1, PickedIs
<1>5. PICK k \in Nat : k = Len(p)
  BY <1>4, SeqIs DEF PickedFrom
<1>6. \A i \in 1 .. l - 1 : mm[i].reply = FALSE /\ mm[i].id \in NoteIds
  BY <1>2 DEF Spoken
<1>7. ASSUME NEW e, From(e, mm, at, l - 1) PROVE e.reply = FALSE /\ e.id \in NoteIds
  BY <1>6, <1>7 DEF From
<1>8. CASE s = rq.session
  <2>1. l \in at /\ l # 0
    BY <1>2, <1>3, <1>8 DEF Spoken
  <2>2. k # 0 /\ p[k] = mm[l] /\ \A i \in 1 .. k - 1 : From(p[i], mm, at, l - 1)
    BY <1>2, <1>4, <1>5, <2>1 DEF PickedFrom
  <2>3. mm[l].reply = TRUE /\ mm[l].id = rq.id /\ GoodData(rq.id, mm[l].data)
    BY <1>2 DEF Spoken
  <2> QED
    BY <1>4, <1>5, <1>7, <1>8, <2>2, <2>3 DEF SentTo, PickedFrom
<1>9. CASE s # rq.session
  <2>1. l \notin at
    BY <1>2, <1>9 DEF Spoken
  <2>2. \A i \in 1 .. l : i \in at => i \in 1 .. l - 1
    BY <2>1
  <2>3. \A e : From(e, mm, at, l) => From(e, mm, at, l - 1)
    BY <2>2 DEF From
  <2>4. \A i \in 1 .. k : From(p[i], mm, at, l)
    BY <1>2, <1>4, <1>5 DEF PickedFrom
  <2>5. \A i \in 1 .. k : p[i].reply = FALSE /\ p[i].id \in NoteIds
    BY <1>7, <2>3, <2>4
  <2>6. (\A i \in 1 .. k - 1 : i \in 1 .. k) /\ (k # 0 => k \in 1 .. k)
    OBVIOUS
  <2> QED
    BY <1>4, <1>5, <1>9, <2>5, <2>6 DEF SentTo, PickedFrom
<1> QED
  BY <1>8, <1>9

LEMMA JoinedOK ==
  ASSUME NEW ws, WireOK(ws), NEW s, NEW rq, NEW p, SentTo(p, s, rq), NEW t, Joined(t, ws, p)
  PROVE  WireOK(t)
<1>1. PICK m \in Nat, l \in Nat : m = Len(ws) /\ l = Len(p)
  BY SeqIs DEF WireOK, SentTo
<1>2. /\ IsSeq(t) /\ Len(t) = m + l /\ \A i \in 1 .. m : t[i] = ws[i]
      /\ \A i \in 1 .. l : t[m + i] = p[i]
  BY <1>1 DEF Joined
<1>3. \A i \in 1 .. m + l : i \in 1 .. m \/ (i - m \in 1 .. l /\ m + (i - m) = i)
  OBVIOUS
<1> DEFINE Ok(e) == e.reply \in BOOLEAN /\ (~e.reply => e.id \in NoteIds)
<1>4. \A i \in 1 .. m : Ok(ws[i])
  BY <1>1 DEF WireOK
<1>5. ASSUME NEW i \in 1 .. l PROVE Ok(p[i])
  <2>1. i \in 1 .. l - 1 \/ (i = l /\ l # 0)
    OBVIOUS
  <2>2. CASE i \in 1 .. l - 1
    BY <1>1, <2>2 DEF SentTo
  <2>3. CASE i = l /\ l # 0
    BY <1>1, <2>3 DEF SentTo
  <2> QED
    BY <2>1, <2>2, <2>3
<1>6. ASSUME NEW i \in 1 .. m + l PROVE Ok(t[i])
  <2>1. CASE i \in 1 .. m
    <3>1. t[i] = ws[i]
      BY <1>2, <2>1
    <3> QED
      BY <1>4, <2>1, <3>1
  <2>2. CASE i - m \in 1 .. l /\ m + (i - m) = i
    <3>1. t[i] = p[i - m]
      BY <1>2, <2>2
    <3> QED
      BY <1>5, <2>2, <3>1
  <2> QED
    BY <1>3, <2>1, <2>2
<1> QED
  BY <1>2, <1>6 DEF WireOK

-----------------------------------------------------------------------------
(* The server handles the next request of c. *)
MovedTo(ro2, ro, e) ==
  ro2 = IF e.id = "ROOM_LEAVE" THEN 0
        ELSE IF e.id = "ROOM_ENTER" /\ ro2 = e.arg THEN e.arg ELSE ro

Reseated(r, c, ro) == r = [c EXCEPT !.seated = @ \/ ro # 0]

LEMMA EnterLast ==
  ASSUME NEW c, NEW a, NEW v, NEW ro, Mid(c, a, v, ro), NEW i \in Line(c), Nth(c, i).id = "ROOM_ENTER"
  PROVE  i = Size(c) /\ c.wait = "ROOM_ENTER"
<1>1. IsEntry(Nth(c, i)) /\ SyncLast(c)
  BY DEF Mid, IsClient
<1>2. Nth(c, i).sync
  BY <1>1 DEF IsEntry, PlainIds
<1> QED
  BY <1>1, <1>2 DEF SyncLast

LEMMA ServePlace ==
  ASSUME NEW c, NEW a, NEW v \in Nat, NEW ro, Good(c, a, v, ro), v < Len(c.stack),
         NEW e0, e0 = c.stack[v + 1], NEW ro2, MovedTo(ro2, ro, e0),
         NEW r, Reseated(r, c, ro2), NEW v2, v2 = v + 1
  PROVE  Good(r, a, v2, ro2) /\ r.stack = c.stack
<1>0. Mid(c, a, v, ro) /\ IsClient(c) /\ IsSeq(c.stack) /\ IsSeq(c.sendQueue)
  BY DEF Good, Mid, IsClient
<1>1. PICK x \in BOOLEAN : x = (c.seated \/ ro2 # 0)
  BY <1>0 DEF IsClient
<1>2. r = [c EXCEPT !.seated = x]
  BY <1>1 DEF Reseated
<1>3. c = [k \in ClientFields |-> c[k]]
  BY <1>0 DEF IsClient
<1>4. /\ r = [k \in ClientFields |-> r[k]] /\ SameLine(r, c) /\ r.seated = x
      /\ r.scene = c.scene /\ r.room = c.room /\ r.next = c.next /\ r.wait = c.wait
      /\ r.notes = c.notes /\ r.list = c.list /\ r.fault = c.fault
  BY <1>2, <1>3 DEF ClientFields, SameLine
<1>5. IsClient(r)
  BY <1>0, <1>4, SameIs DEF IsClient
<1>6. Size(r) = Size(c) /\ Line(r) = Line(c) /\ \A i : Nth(r, i) = Nth(c, i)
  BY <1>4, SameNth
<1>7. PICK l \in Nat : l = Len(c.stack)
  BY <1>0, SeqIs
<1>8. v + 1 \in 1 .. l /\ v + 1 \in Line(c) /\ Nth(c, v + 1) = c.stack[v + 1]
  <2>1. v + 1 \in 1 .. l
    BY <1>7
  <2> QED
    BY <1>0, <1>7, <2>1, LineFacts
<1>9. PICK e : e = Nth(c, v + 1)
  OBVIOUS
<1>10. MovedTo(ro2, ro, e)
  BY <1>8, <1>9
<1>11. \A i \in Line(c) : Nth(c, i).id = "ROOM_ENTER" => i = Size(c) /\ c.wait = "ROOM_ENTER"
  BY <1>0, EnterLast
<1>12. AnswersOK(r, a) /\ SyncLast(r) /\ OneClick(r)
  BY <1>0, <1>4, <1>6 DEF Mid, AnswersOK, SyncLast, OneClick
<1>13. r.next = NoScene \/ Leaving(r, ro2) \/ Created(r)
  <2>1. CASE c.next = NoScene
    BY <1>4, <2>1
  <2>2. CASE Leaving(c, ro)
    <3>1. e.id # "ROOM_LEAVE" /\ ro = 0 /\ c.wait = "none"
      BY <1>8, <1>9, <2>2 DEF Leaving, NoClicks, Clicks
    <3>2. e.id # "ROOM_ENTER"
      BY <1>8, <1>9, <1>11, <3>1
    <3>3. ro2 = 0
      BY <1>10, <3>1, <3>2 DEF MovedTo
    <3> QED
      BY <1>4, <1>6, <2>2, <3>3 DEF Leaving, NoClicks
  <2>3. CASE Created(c)
    BY <1>4, <1>6, <2>3 DEF Created
  <2> QED
    BY <1>0, <2>1, <2>2, <2>3 DEF Mid
<1>14. Place(c, v, ro) /\ OneClick(c)
  BY <1>0 DEF Mid
<1>15. ASSUME c.scene = "lobby" PROVE ro2 = 0
  BY <1>8, <1>9, <1>10, <1>14, <1>15 DEF Place, MovedTo
<1>16. ASSUME c.scene = "game" PROVE ro2 \in {0, c.room}
  BY <1>8, <1>9, <1>10, <1>14, <1>16 DEF Place, MovedTo
<1>17. ASSUME c.scene = "game", NEW i \in Line(c), Nth(c, i).id = "ROOM_ENTER"
       PROVE  Nth(c, i).arg = c.room /\ (i > v + 1 => ro2 = 0 /\ ~x)
  <2>1. Nth(c, i).arg = c.room /\ (i > v => ro = 0 /\ ~c.seated)
    BY <1>14, <1>17 DEF Place
  <2>2. ASSUME i > v + 1 PROVE ro2 = 0 /\ ~x
    <3>1. i \in Nat /\ i > v /\ i # v + 1
      BY <2>2 DEF Line
    <3>2. e.id # "ROOM_ENTER"
      BY <1>8, <1>9, <1>11, <1>17, <3>1
    <3>3. ro2 = 0
      BY <1>10, <2>1, <3>1, <3>2 DEF MovedTo
    <3> QED
      BY <1>1, <2>1, <3>1, <3>3
  <2> QED
    BY <2>1, <2>2
<1>18. ASSUME c.scene = "game", NEW i \in 1 .. v + 1, Nth(c, i).id = "ROOM_LEAVE" PROVE ro2 = 0
  <2>1. i \in Line(c)
    <3>1. i \in 1 .. l
      BY <1>8, <1>18
    <3> QED
      BY <1>0, <1>7, <3>1, LineFacts
  <2>2. c.wait = "none"
    BY <1>14, <1>18, <2>1 DEF OneClick, Clicks
  <2>3. e.id # "ROOM_ENTER"
    BY <1>8, <1>9, <1>11, <2>2
  <2>4. CASE i = v + 1
    BY <1>9, <1>10, <1>18, <2>4 DEF MovedTo
  <2>5. CASE i \in 1 .. v
    <3>1. ro = 0
      BY <1>14, <1>18, <2>5 DEF Place
    <3> QED
      BY <1>10, <2>3, <3>1 DEF MovedTo
  <2> QED
    BY <2>4, <2>5
<1>19. ASSUME c.scene = "game", c.next # 0, \A i \in 1 .. v + 1 : Nth(c, i).id # "ROOM_LEAVE", x
       PROVE  ro2 # 0
  <2>1. SUFFICES ASSUME ro2 = 0 PROVE FALSE
    OBVIOUS
  <2>2. c.seated
    BY <1>1, <1>19, <2>1
  <2>3. ro # 0
    <3>1. \A i \in 1 .. v : i \in 1 .. v + 1
      OBVIOUS
    <3>2. \A i \in 1 .. v : Nth(c, i).id # "ROOM_LEAVE"
      BY <1>19, <3>1
    <3> QED
      BY <1>14, <1>19, <2>2, <3>2 DEF Place
  <2>4. v + 1 > v
    OBVIOUS
  <2>5. e.id # "ROOM_ENTER"
    BY <1>8, <1>9, <1>14, <1>19, <2>2, <2>4 DEF Place
  <2>6. e.id # "ROOM_LEAVE"
    <3>1. v + 1 \in 1 .. v + 1
      OBVIOUS
    <3> QED
      BY <1>9, <1>19, <3>1
  <2> QED
    BY <1>10, <2>1, <2>3, <2>5, <2>6 DEF MovedTo
<1>20. Place(r, v + 1, ro2)
  <2>1. ro2 # 0 => x
    BY <1>1
  <2>2. c.scene = "lobby" => \A i \in Line(c) : Nth(c, i).id # "ROOM_ENTER"
    BY <1>14 DEF Place
  <2>3. ro2 # 0 => r.seated
    BY <1>4, <2>1
  <2>4. r.scene = "lobby" => ro2 = 0 /\ \A i \in Line(r) : Nth(r, i).id # "ROOM_ENTER"
    BY <1>4, <1>6, <1>15, <2>2
  <2>5. r.scene = "game" =>
         /\ ro2 \in {0, r.room}
         /\ \A i \in Line(r) : Nth(r, i).id = "ROOM_ENTER" =>
              Nth(r, i).arg = r.room /\ (i > v + 1 => ro2 = 0 /\ ~r.seated)
    BY <1>4, <1>6, <1>16, <1>17
  <2>6. r.scene = "game" => \A i \in 1 .. v + 1 : Nth(r, i).id = "ROOM_LEAVE" => ro2 = 0
    BY <1>4, <1>6, <1>18
  <2>7. r.scene = "game" => (r.next # 0 /\ (\A i \in 1 .. v + 1 : Nth(r, i).id # "ROOM_LEAVE")
                               => (r.seated => ro2 # 0))
    BY <1>4, <1>6, <1>19
  <2> QED
    BY <2>3, <2>4, <2>5, <2>6, <2>7 DEF Place
<1>21. a \in 0 .. v + 1 /\ v + 1 \in 0 .. Len(r.stack)
  <2>1. a \in 0 .. v
    BY <1>0 DEF Mid
  <2>2. r.stack = c.stack
    BY <1>4 DEF SameLine
  <2> QED
    BY <1>7, <1>8, <2>1, <2>2
<1>22. r.wait \in {"LOGIN", "ROOM_CREATE", "ROOM_CAN_ENTER"} => r.scene = "lobby"
  BY <1>0, <1>4 DEF Mid
<1>23. r.fault = "none" => r.next = NoScene
  BY <1>4 DEF Good
<1> QED
  BY <1>4, <1>5, <1>12, <1>13, <1>20, <1>21, <1>22, <1>23 DEF Good, Mid, SameLine

(* Or a request of another client. *)
LEMMA OtherPlace ==
  ASSUME NEW c, NEW a, NEW v, NEW ro, Good(c, a, v, ro), NEW r, Reseated(r, c, ro)
  PROVE  r = c
<1>1. ro # 0 => c.seated
  BY DEF Good, Mid, Place
<1>2. c.seated \in BOOLEAN /\ c = [k \in ClientFields |-> c[k]]
  BY DEF Good, Mid, IsClient
<1>3. (c.seated \/ ro # 0) = c.seated
  BY <1>1, <1>2
<1> QED
  BY <1>2, <1>3 DEF ClientFields, Reseated

LEMMA ServeClient ==
  ASSUME NEW c, NEW ws, NEW q, NEW s, NEW ro, Settled(c, ws, q, s, ro),
         IsSeq(q), NEW q2, Beheaded(q2, q), NEW rq, rq = q[1],
         NEW p, SentTo(p, s, rq), NEW ws2, Joined(ws2, ws, p),
         NEW ro2, IF s = rq.session THEN MovedTo(ro2, ro, rq) ELSE ro2 = ro,
         NEW r, Reseated(r, c, ro2)
  PROVE  Settled(r, ws2, q2, s, ro2)
<1>1. WireOK(ws) /\ IsSeq(ws)
  BY SettledAs DEF WireOK
<1>2. PICK a, n, m : InStep(c, ws, q, s, ro, a, n, m)
  BY SettledAs
<1>3. a \in Nat /\ n \in Nat /\ m \in Nat /\ Len(c.stack) = (a + n) + m /\ Good(c, a, a + n, ro)
  BY <1>2 DEF InStep
<1>4. PICK w : WiredAs(c.stack, a, n, ws, w)
  BY <1>2 DEF InStep
<1>5. PICK g : WaitsAs(c.stack, a + n, m, s, q, g)
  BY <1>2 DEF InStep
<1>6. PICK v \in Nat : v = a + n
  BY <1>3
<1>7. WireOK(ws2)
  BY <1>1, JoinedOK
<1>8. IsSeq(p) /\ \A i \in 1 .. Len(p) - 1 : ~p[i].reply
  BY DEF SentTo
<1>9. CASE s # rq.session
  <2>1. r = c /\ ro2 = ro
    BY <1>3, <1>9, OtherPlace
  <2>2. \E x : WaitsAs(c.stack, v, m, s, q2, x)
    BY <1>3, <1>5, <1>6, <1>9, WaitTail
  <2>3. Len(p) = 0 \/ ~p[Len(p)].reply
    BY <1>9 DEF SentTo
  <2>4. \E x : WiredAs(c.stack, a, n, ws2, x)
    BY <1>1, <1>3, <1>4, <1>8, <2>3, WireMore
  <2>5. InStep(r, ws2, q2, s, ro2, a, n, m)
    BY <1>3, <1>6, <2>1, <2>2, <2>4 DEF InStep
  <2> QED
    BY <1>7, <2>5, SettledBy
<1>10. CASE s = rq.session
  <2>1. /\ m # 0 /\ rq.id = c.stack[v + 1].id /\ rq.arg = c.stack[v + 1].arg
        /\ \E x : WaitsAs(c.stack, v + 1, m - 1, s, q2, x)
    BY <1>3, <1>5, <1>6, <1>10, WaitTail
  <2>0. PICK e : e = c.stack[v + 1]
    OBVIOUS
  <2>2. MovedTo(ro2, ro, e)
    BY <1>10, <2>0, <2>1 DEF MovedTo
  <2>3. PICK m2 \in Nat : m2 = m - 1
    BY <1>3, <2>1
  <2>4. /\ v < Len(c.stack) /\ Len(c.stack) = (a + (n + 1)) + m2 /\ v + 1 = a + (n + 1)
        /\ n + 1 \in Nat
    <3>1. PICK l : l = Len(c.stack)
      OBVIOUS
    <3>2. l = (a + n) + m
      BY <1>3, <3>1
    <3>3. v < l /\ l = (a + (n + 1)) + m2 /\ v + 1 = a + (n + 1) /\ n + 1 \in Nat
      BY <1>3, <1>6, <2>1, <2>3, <3>2
    <3> QED
      BY <3>1, <3>3
  <2>5. Good(r, a, v + 1, ro2) /\ r.stack = c.stack
    <3>1. Good(c, a, v, ro)
      BY <1>3, <1>6
    <3>2. v < Len(c.stack)
      BY <2>4
    <3> QED
      BY <1>6, <2>0, <2>2, <3>1, <3>2, ServePlace
  <2>6. /\ Len(p) # 0 /\ p[Len(p)].reply
        /\ p[Len(p)].id = c.stack[a + (n + 1)].id /\ GoodData(p[Len(p)].id, p[Len(p)].data)
    <3>1. Len(p) # 0 /\ p[Len(p)].reply = TRUE /\ p[Len(p)].id = rq.id /\ GoodData(rq.id, p[Len(p)].data)
      BY <1>10 DEF SentTo
    <3> QED
      BY <2>1, <2>4, <3>1
  <2>7. \E x : WiredAs(c.stack, a, n + 1, ws2, x)
    BY <1>1, <1>3, <1>4, <1>8, <2>6, WireMore
  <2>8. InStep(r, ws2, q2, s, ro2, a, n + 1, m2)
    <3>1. \E x : WaitsAs(r.stack, a + (n + 1), m2, s, q2, x)
      BY <2>1, <2>3, <2>4, <2>5
    <3>2. \E x : WiredAs(r.stack, a, n + 1, ws2, x)
      BY <2>5, <2>7
    <3>3. Good(r, a, a + (n + 1), ro2) /\ Len(r.stack) = (a + (n + 1)) + m2
      BY <2>4, <2>5
    <3> QED
      BY <1>3, <2>4, <3>1, <3>2, <3>3 DEF InStep
  <2> QED
    BY <1>7, <2>8, SettledBy
<1> QED
  BY <1>9, <1>10

-----------------------------------------------------------------------------
(* The network threads of a client move requests and add answers. *)
SameRequests(r, c) ==
  /\ Size(r) = Size(c)
  /\ \A i \in Line(c) : /\ Nth(r, i).id = Nth(c, i).id /\ Nth(r, i).arg = Nth(c, i).arg
                        /\ Nth(r, i).sync = Nth(c, i).sync

LEMMA SameKeeps ==
  ASSUME NEW c, NEW a, NEW v, NEW ro, Good(c, a, v, ro),
         NEW r, IsClient(r), SamePlace(r, c), r.fault = c.fault, SameRequests(r, c),
         NEW a2, a2 \in 0 .. v, AnswersOK(r, a2), v \in 0 .. Len(r.stack)
  PROVE  Good(r, a2, v, ro)
<1>1. Mid(c, a, v, ro) /\ IsSeq(c.stack) /\ IsSeq(c.sendQueue)
  BY DEF Good, Mid, IsClient
<1>2. Line(r) = Line(c) /\ Size(r) = Size(c)
  BY DEF Line, SameRequests
<1>3. \A i \in 1 .. v : i \in Line(c)
  <2>1. PICK l \in Nat : l = Len(c.stack)
    BY <1>1, SeqIs
  <2>2. v \in 0 .. l /\ \A i \in 1 .. l : i \in Line(c)
    BY <1>1, <2>1, LineFacts DEF Mid
  <2> QED
    BY <2>2
<1>4. SyncLast(r)
  <2>1. SyncLast(c)
    BY <1>1 DEF Mid
  <2> QED
    BY <1>2, <2>1 DEF SyncLast, SameRequests, SamePlace
<1>5. OneClick(r)
  <2>1. OneClick(c)
    BY <1>1 DEF Mid
  <2> QED
    BY <1>2, <2>1 DEF OneClick, SameRequests, SamePlace
<1>6. r.next = NoScene \/ Leaving(r, ro) \/ Created(r)
  <2>1. c.next = NoScene \/ Leaving(c, ro) \/ Created(c)
    BY <1>1 DEF Mid
  <2> QED
    BY <1>2, <2>1 DEF Leaving, NoClicks, Created, SameRequests, SamePlace
<1>7. Place(r, v, ro)
  <2>1. Place(c, v, ro)
    BY <1>1 DEF Mid
  <2> QED
    BY <1>2, <1>3, <2>1 DEF Place, SameRequests, SamePlace
<1>8. /\ r.wait \in {"LOGIN", "ROOM_CREATE", "ROOM_CAN_ENTER"} => r.scene = "lobby"
      /\ r.fault = "none" => r.next = NoScene
  BY <1>1 DEF Mid, Good, SamePlace
<1> QED
  BY <1>4, <1>5, <1>6, <1>7, <1>8 DEF Good, Mid

LEMMA WiredSame ==
  ASSUME NEW st, NEW a, NEW n, NEW ws, NEW st2, \A k \in 1 .. n : st2[a + k].id = st[a + k].id,
         \E w : WiredAs(st, a, n, ws, w)
  PROVE  \E w : WiredAs(st2, a, n, ws, w)
  BY DEF WiredAs

LEMMA WaitsSame ==
  ASSUME NEW st, NEW v, NEW n, NEW s, NEW q, NEW st2,
         \A k \in 1 .. n : st2[v + k].id = st[v + k].id /\ st2[v + k].arg = st[v + k].arg,
         \E g : WaitsAs(st, v, n, s, q, g)
  PROVE  \E g : WaitsAs(st2, v, n, s, q, g)
  BY DEF WaitsAs

(* SendThread. *)
Transmitted(r, c, sq, st) == r = [c EXCEPT !.sendQueue = sq, !.stack = st]

LEMMA TransmitLine ==
  ASSUME NEW c, IsClient(c), NEW sq, Beheaded(sq, c.sendQueue),
         NEW st, Appended(st, c.stack, c.sendQueue[1]), NEW r, Transmitted(r, c, sq, st)
  PROVE  /\ IsClient(r) /\ SamePlace(r, c) /\ r.fault = c.fault /\ r.stack = st
         /\ Size(r) = Size(c) /\ \A i \in Line(c) : Nth(r, i) = Nth(c, i)
<1>1. c = [k \in ClientFields |-> c[k]]
  BY DEF IsClient
<1>2. /\ r = [k \in ClientFields |-> r[k]]
      /\ SamePlace(r, c) /\ r.stack = st /\ r.notes = c.notes /\ r.fault = c.fault
      /\ r.list = c.list /\ r.sendQueue = sq
  BY <1>1 DEF ClientFields, SamePlace, Transmitted
<1>3. IsSeq(c.stack) /\ IsSeq(c.sendQueue) /\ IsSeq(c.notes)
  BY DEF IsClient
<1>4. PICK n \in Nat, m \in Nat : n = Len(c.stack) /\ m + 1 = Len(c.sendQueue)
  <2>1. Len(c.sendQueue) \in Nat \ {0} /\ Len(c.stack) \in Nat
    BY <1>3, SeqIs DEF Beheaded
  <2>2. Len(c.sendQueue) - 1 \in Nat /\ (Len(c.sendQueue) - 1) + 1 = Len(c.sendQueue)
    BY <2>1
  <2> QED
    BY <2>1, <2>2
<1>5. PICK e : e = c.sendQueue[1]
  OBVIOUS
<1>6. IsSeq(st) /\ Len(st) = n + 1 /\ st[n + 1] = e /\ \A i \in 1 .. n : st[i] = c.stack[i]
  BY <1>4, <1>5 DEF Appended
<1>7. IsSeq(sq) /\ Len(sq) = m /\ \A i \in 1 .. m : sq[i] = c.sendQueue[i + 1]
  <2>1. IsSeq(sq) /\ Len(sq) = (m + 1) - 1
    BY <1>4 DEF Beheaded
  <2>2. Len(sq) = m
    BY <2>1
  <2> QED
    BY <2>1, <2>2 DEF Beheaded
<1>8. /\ Size(c) = n + (m + 1)
      /\ \A i : i \in Line(c) <=> i \in Nat /\ 1 <= i /\ i <= n + (m + 1)
      /\ \A i \in 1 .. n : Nth(c, i) = c.stack[i]
      /\ \A i \in 1 .. m + 1 : Nth(c, n + i) = c.sendQueue[i]
  BY <1>3, <1>4, LineFacts
<1>9. /\ Size(r) = (n + 1) + m
      /\ \A i : i \in Line(r) <=> i \in Nat /\ 1 <= i /\ i <= (n + 1) + m
      /\ \A i \in 1 .. n + 1 : Nth(r, i) = st[i]
      /\ \A i \in 1 .. m : Nth(r, (n + 1) + i) = sq[i]
  <2>1. IsSeq(r.stack) /\ IsSeq(r.sendQueue) /\ Len(r.stack) = n + 1 /\ Len(r.sendQueue) = m
    BY <1>2, <1>6, <1>7
  <2>2. /\ Size(r) = (n + 1) + m
        /\ \A i : i \in Line(r) <=> i \in Nat /\ 1 <= i /\ i <= Size(r)
        /\ \A i \in 1 .. n + 1 : Nth(r, i) = r.stack[i]
        /\ \A i \in 1 .. m : Nth(r, (n + 1) + i) = r.sendQueue[i]
    BY <2>1, LineFacts
  <2> QED
    BY <1>2, <2>2
<1>10. Size(r) = Size(c) /\ \A i : i \in Line(r) <=> i \in Line(c)
  BY <1>8, <1>9
<1>11. ASSUME NEW i \in Line(c) PROVE Nth(r, i) = Nth(c, i)
  <2>1. i \in Nat /\ 1 <= i /\ i <= n + (m + 1)
    BY <1>8
  <2>2. CASE i \in 1 .. n
    <3>1. i \in 1 .. n + 1
      BY <2>2
    <3> QED
      BY <1>6, <1>8, <1>9, <2>2, <3>1
  <2>3. CASE i = n + 1
    <3>1. Nth(c, n + 1) = e
      <4>1. 1 \in 1 .. m + 1
        OBVIOUS
      <4> QED
        BY <1>5, <1>8, <4>1
    <3>2. Nth(r, n + 1) = e
      <4>1. n + 1 \in 1 .. n + 1
        OBVIOUS
      <4> QED
        BY <1>6, <1>9, <4>1
    <3> QED
      BY <2>3, <3>1, <3>2
  <2>4. CASE i > n + 1
    <3>1. PICK k \in 1 .. m : i = (n + 1) + k
      <4>1. i - (n + 1) \in 1 .. m /\ i = (n + 1) + (i - (n + 1))
        BY <2>1, <2>4
      <4> QED
        BY <4>1
    <3>2. k + 1 \in 1 .. m + 1 /\ i = n + (k + 1)
      BY <3>1
    <3>3. Nth(c, n + (k + 1)) = c.sendQueue[k + 1]
      BY <1>8, <3>2
    <3>4. Nth(r, (n + 1) + k) = c.sendQueue[k + 1]
      BY <1>7, <1>9
    <3> QED
      BY <3>1, <3>2, <3>3, <3>4
  <2> QED
    BY <2>1, <2>2, <2>3, <2>4
<1>12. \A i \in Line(r) : IsEntry(Nth(r, i))
  BY <1>10, <1>11 DEF IsClient
<1>13. IsClient(r)
  BY <1>2, <1>3, <1>6, <1>7, <1>12 DEF IsClient, SamePlace
<1> QED
  BY <1>2, <1>10, <1>11, <1>13

LEMMA TransmitClient ==
  ASSUME NEW c, NEW ws, NEW q, NEW s, NEW ro, Settled(c, ws, q, s, ro), IsSeq(q),
         NEW sq, Beheaded(sq, c.sendQueue), NEW e, e = c.sendQueue[1],
         NEW st, Appended(st, c.stack, e), NEW r, Transmitted(r, c, sq, st),
         NEW x, x.session = s, x.id = e.id, x.arg = e.arg, NEW q2, Appended(q2, q, x)
  PROVE  Settled(r, ws, q2, s, ro)
<1>1. WireOK(ws)
  BY SettledAs
<1>2. PICK a, n, m : InStep(c, ws, q, s, ro, a, n, m)
  BY SettledAs
<1>3. a \in Nat /\ n \in Nat /\ m \in Nat /\ Len(c.stack) = (a + n) + m /\ Good(c, a, a + n, ro)
  BY <1>2 DEF InStep
<1>4. PICK l : l = Len(c.stack)
  OBVIOUS
<1>5. PICK v : v = a + n
  OBVIOUS
<1>6. v \in Nat /\ l \in Nat /\ l = v + m /\ Good(c, a, v, ro) /\ a \in 0 .. v
  BY <1>3, <1>4, <1>5
<1>7. IsClient(c) /\ AnswersOK(c, a)
  BY <1>6 DEF Good, Mid
<1>8. /\ IsClient(r) /\ SamePlace(r, c) /\ r.fault = c.fault /\ r.stack = st
      /\ Size(r) = Size(c) /\ \A i \in Line(c) : Nth(r, i) = Nth(c, i)
  BY <1>7, TransmitLine
<1>9. Len(st) = l + 1 /\ st[l + 1] = e /\ \A i \in 1 .. l : st[i] = c.stack[i]
  BY <1>4 DEF Appended
<1>10. Good(r, a, v, ro)
  <2>1. SameRequests(r, c)
    BY <1>8 DEF SameRequests
  <2>2. AnswersOK(r, a)
    <3>1. Line(r) = Line(c)
      BY <1>8 DEF Line
    <3> QED
      BY <1>7, <1>8, <3>1 DEF AnswersOK
  <2>3. v \in 0 .. Len(r.stack)
    <3>1. Len(r.stack) = l + 1
      BY <1>8, <1>9
    <3>2. v \in 0 .. l + 1
      BY <1>3, <1>6
    <3> QED
      BY <3>1, <3>2
  <2> QED
    BY <1>6, <1>8, <2>1, <2>2, <2>3, SameKeeps
<1>11. \E w : WiredAs(st, a, n, ws, w)
  <2>1. \A k \in 1 .. n : a + k \in 1 .. l
    BY <1>3, <1>5, <1>6
  <2>2. \A k \in 1 .. n : st[a + k].id = c.stack[a + k].id
    BY <1>9, <2>1
  <2>3. \E w : WiredAs(c.stack, a, n, ws, w)
    BY <1>2 DEF InStep
  <2> QED
    BY <2>2, <2>3, WiredSame
<1>12. \E g : WaitsAs(st, v, m + 1, s, q2, g)
  <2>1. \A k \in 1 .. m : v + k \in 1 .. l
    BY <1>3, <1>6
  <2>2. \A k \in 1 .. m : st[v + k].id = c.stack[v + k].id /\ st[v + k].arg = c.stack[v + k].arg
    BY <1>9, <2>1
  <2>3. \E g : WaitsAs(c.stack, v, m, s, q, g)
    BY <1>2, <1>5 DEF InStep
  <2>4. PICK g : WaitsAs(st, v, m, s, q, g)
    BY <2>2, <2>3, WaitsSame
  <2>5. v + (m + 1) = l + 1
    BY <1>3, <1>6
  <2>6. x.id = st[v + (m + 1)].id /\ x.arg = st[v + (m + 1)].arg
    BY <1>9, <2>5
  <2> QED
    BY <1>3, <1>6, <2>4, <2>6, WaitMore
<1>13. InStep(r, ws, q2, s, ro, a, n, m + 1)
  <2>1. Len(r.stack) = (a + n) + (m + 1) /\ m + 1 \in Nat
    <3>1. Len(r.stack) = l + 1
      BY <1>8, <1>9
    <3>2. l + 1 = (a + n) + (m + 1) /\ m + 1 \in Nat
      BY <1>3, <1>5, <1>6
    <3> QED
      BY <3>1, <3>2
  <2> QED
    BY <1>3, <1>5, <1>8, <1>10, <1>11, <1>12, <2>1 DEF InStep
<1> QED
  BY <1>1, <1>13, SettledBy

LEMMA TransmitOther ==
  ASSUME NEW c, NEW ws, NEW q, NEW s, NEW ro, Settled(c, ws, q, s, ro), IsSeq(q),
         NEW x, x.session # s, NEW q2, Appended(q2, q, x)
  PROVE  Settled(c, ws, q2, s, ro)
<1>1. WireOK(ws)
  BY SettledAs
<1>2. PICK a, n, m : InStep(c, ws, q, s, ro, a, n, m)
  BY SettledAs
<1>3. a \in Nat /\ n \in Nat /\ m \in Nat /\ Len(c.stack) = (a + n) + m /\ Good(c, a, a + n, ro)
  BY <1>2 DEF InStep
<1>4. PICK v \in Nat : v = a + n
  BY <1>3
<1>5. PICK g : WaitsAs(c.stack, v, m, s, q, g)
  BY <1>2, <1>4 DEF InStep
<1>6. \E g2 : WaitsAs(c.stack, v, m, s, q2, g2)
  BY <1>3, <1>4, <1>5, WaitMore
<1>7. InStep(c, ws, q2, s, ro, a, n, m)
  BY <1>2, <1>4, <1>6 DEF InStep
<1> QED
  BY <1>1, <1>7, SettledBy

-----------------------------------------------------------------------------
(* RecvThread: an answer goes to the oldest request without one. *)
LEMMA FirstOpenIs ==
  ASSUME NEW st, IsSeq(st), NEW a \in Nat, a < Len(st),
         \A i \in 1 .. Len(st) : st[i].ans = <<>> <=> i > a
  PROVE  FirstOpen(st) = a + 1
<1>1. PICK l \in Nat : l = Len(st)
  BY SeqIs
<1>2. DOMAIN st = 1 .. l
  BY <1>1, SeqIs
<1> DEFINE At(i) == st[i].ans = <<>> /\ \A j \in 1 .. i - 1 : st[j].ans # <<>>
<1>3. \A i \in 1 .. l : st[i].ans = <<>> <=> i > a
  BY <1>1
<1>4. a + 1 \in 1 .. l
  BY <1>1
<1>5. At(a + 1)
  <2>1. \A j \in 1 .. (a + 1) - 1 : j \in 1 .. l /\ ~(j > a)
    BY <1>1
  <2>2. a + 1 > a
    OBVIOUS
  <2> QED
    BY <1>3, <1>4, <2>1, <2>2
<1>6. ASSUME NEW i \in 1 .. l, At(i) PROVE i = a + 1
  <2>1. i > a
    BY <1>3, <1>6
  <2>2. ASSUME i > a + 1 PROVE FALSE
    <3>1. a + 1 \in 1 .. i - 1
      BY <2>2
    <3>2. st[a + 1].ans # <<>>
      BY <1>6, <3>1
    <3> QED
      BY <1>5, <3>2
  <2> QED
    BY <2>1, <2>2
<1>7. FirstOpen(st) = CHOOSE i \in 1 .. l : At(i)
  BY <1>2 DEF FirstOpen
<1> HIDE DEF At
<1> QED
  BY <1>4, <1>5, <1>6, <1>7, Zenon

Restacked(r, c, st) == r = [c EXCEPT !.stack = st]
AnsweredWith(e2, e, d) == e2 = [e EXCEPT !.ans = <<d>>]

LEMMA AnsweredEntry ==
  ASSUME NEW e, IsEntry(e), NEW d, NEW e2, AnsweredWith(e2, e, d)
  PROVE  /\ IsEntry(e2) /\ e2.id = e.id /\ e2.arg = e.arg /\ e2.sync = e.sync
         /\ e2.ans # <<>> /\ e2.ans[1] = d
<1>1. e = [k \in EntryFields |-> e[k]]
  BY DEF IsEntry
<1>2. PICK x : x = <<d>>
  OBVIOUS
<1>3. x # <<>> /\ x[1] = d
  BY <1>2
<1>4. e2 = [e EXCEPT !.ans = x]
  BY <1>2 DEF AnsweredWith
<1>5. /\ e2 = [k \in EntryFields |-> e2[k]] /\ e2.id = e.id /\ e2.arg = e.arg /\ e2.sync = e.sync
      /\ e2.ans = x
  BY <1>1, <1>4 DEF EntryFields
<1> QED
  BY <1>3, <1>5 DEF IsEntry

LEMMA AnswerLine ==
  ASSUME NEW c, IsClient(c), NEW i \in 1 .. Len(c.stack), NEW e2, IsEntry(e2),
         NEW st, Replaced(st, c.stack, i, e2), NEW r, Restacked(r, c, st)
  PROVE  /\ IsClient(r) /\ SamePlace(r, c) /\ r.fault = c.fault /\ r.stack = st
         /\ Size(r) = Size(c) /\ i \in Line(c) /\ Nth(r, i) = e2 /\ Nth(c, i) = c.stack[i]
         /\ \A j \in Line(c) : j # i => Nth(r, j) = Nth(c, j)
<1>1. c = [k \in ClientFields |-> c[k]]
  BY DEF IsClient
<1>2. /\ r = [k \in ClientFields |-> r[k]]
      /\ SamePlace(r, c) /\ r.stack = st /\ r.notes = c.notes /\ r.fault = c.fault
      /\ r.list = c.list /\ r.sendQueue = c.sendQueue
  BY <1>1 DEF ClientFields, SamePlace, Restacked
<1>3. IsSeq(c.stack) /\ IsSeq(c.sendQueue) /\ IsSeq(c.notes)
  BY DEF IsClient
<1>4. PICK n \in Nat, m \in Nat : n = Len(c.stack) /\ m = Len(c.sendQueue)
  BY <1>3, SeqIs
<1>5. i \in 1 .. n
  BY <1>4
<1>6. IsSeq(st) /\ Len(st) = n /\ st[i] = e2 /\ \A j \in 1 .. n : j # i => st[j] = c.stack[j]
  BY <1>4 DEF Replaced
<1>7. /\ Size(c) = n + m
      /\ \A j : j \in Line(c) <=> j \in Nat /\ 1 <= j /\ j <= Size(c)
      /\ \A j \in 1 .. n : j \in Line(c) /\ Nth(c, j) = c.stack[j]
      /\ \A j \in 1 .. m : Nth(c, n + j) = c.sendQueue[j]
      /\ \A j \in Line(c) : j \in 1 .. n \/ \E k \in 1 .. m : j = n + k
  BY <1>3, <1>4, LineFacts
<1>8. /\ Size(r) = n + m
      /\ \A j : j \in Line(r) <=> j \in Nat /\ 1 <= j /\ j <= Size(r)
      /\ \A j \in 1 .. n : Nth(r, j) = st[j]
      /\ \A j \in 1 .. m : Nth(r, n + j) = c.sendQueue[j]
  <2>1. IsSeq(r.stack) /\ IsSeq(r.sendQueue) /\ Len(r.stack) = n /\ Len(r.sendQueue) = m
    BY <1>2, <1>3, <1>4, <1>6
  <2>2. /\ Size(r) = n + m
        /\ \A j : j \in Line(r) <=> j \in Nat /\ 1 <= j /\ j <= Size(r)
        /\ \A j \in 1 .. n : Nth(r, j) = r.stack[j]
        /\ \A j \in 1 .. m : Nth(r, n + j) = r.sendQueue[j]
    BY <2>1, LineFacts
  <2> QED
    BY <1>2, <2>2
<1>9. Size(r) = Size(c) /\ \A j : j \in Line(r) <=> j \in Line(c)
  BY <1>7, <1>8
<1>10. i \in Line(c) /\ Nth(r, i) = e2 /\ Nth(c, i) = c.stack[i]
  BY <1>5, <1>6, <1>7, <1>8
<1>11. ASSUME NEW j \in Line(c), j # i PROVE Nth(r, j) = Nth(c, j)
  <2>1. CASE j \in 1 .. n
    BY <1>6, <1>7, <1>8, <1>11, <2>1
  <2>2. ASSUME NEW k \in 1 .. m, j = n + k PROVE Nth(r, j) = Nth(c, j)
    BY <1>7, <1>8, <2>2
  <2> QED
    BY <1>7, <2>1, <2>2
<1>12. \A j \in Line(r) : IsEntry(Nth(r, j))
  BY <1>9, <1>10, <1>11 DEF IsClient
<1>13. IsClient(r)
  BY <1>2, <1>3, <1>6, <1>12 DEF IsClient, SamePlace
<1> QED
  BY <1>2, <1>9, <1>10, <1>11, <1>13

LEMMA TailOK ==
  ASSUME NEW ws, WireOK(ws), NEW t, Beheaded(t, ws) PROVE WireOK(t)
<1>1. PICK k \in Nat : k = Len(t) /\ k + 1 = Len(ws)
  <2>1. Len(ws) \in Nat \ {0} /\ Len(t) = Len(ws) - 1
    BY DEF Beheaded
  <2>2. Len(ws) - 1 \in Nat /\ (Len(ws) - 1) + 1 = Len(ws)
    BY <2>1
  <2> QED
    BY <2>1, <2>2
<1>2. \A j \in 1 .. k : j + 1 \in 1 .. k + 1 /\ t[j] = ws[j + 1]
  BY <1>1 DEF Beheaded
<1> QED
  BY <1>1, <1>2 DEF WireOK, Beheaded

(* A reply on the wire has a request to go to. *)
LEMMA OpenExists ==
  ASSUME NEW c, NEW ws, NEW q, NEW s, NEW ro, Settled(c, ws, q, s, ro),
         NEW t, Beheaded(t, ws), ws[1].reply, NEW i, i = FirstOpen(c.stack)
  PROVE  i \in 1 .. Len(c.stack)
<1>1. IsSeq(ws)
  BY SettledAs DEF WireOK
<1>2. PICK a, n, m : InStep(c, ws, q, s, ro, a, n, m)
  BY SettledAs
<1>3. PICK l : l = Len(c.stack)
  OBVIOUS
<1>4. a \in Nat /\ n \in Nat /\ m \in Nat /\ l = (a + n) + m /\ Good(c, a, a + n, ro)
  BY <1>2, <1>3 DEF InStep
<1>5. PICK w : WiredAs(c.stack, a, n, ws, w)
  BY <1>2 DEF InStep
<1>6. n # 0
  BY <1>1, <1>4, <1>5, WireTail
<1>7. a < l /\ a + 1 \in 1 .. l
  BY <1>4, <1>6
<1>8. AnswersOK(c, a) /\ IsSeq(c.stack) /\ IsSeq(c.sendQueue)
  BY <1>4 DEF Good, Mid, IsClient
<1>9. \A j \in 1 .. l : j \in Line(c) /\ Nth(c, j) = c.stack[j]
  BY <1>3, <1>8, LineFacts
<1>10. \A j \in 1 .. l : c.stack[j].ans = <<>> <=> j > a
  BY <1>8, <1>9 DEF AnswersOK
<1> QED
  BY <1>3, <1>4, <1>7, <1>8, <1>10, FirstOpenIs

LEMMA DeliverReply ==
  ASSUME NEW c, NEW ws, NEW q, NEW s, NEW ro, Settled(c, ws, q, s, ro),
         NEW t, Beheaded(t, ws), ws[1].reply,
         NEW i, i = FirstOpen(c.stack), NEW e2, AnsweredWith(e2, c.stack[i], ws[1].data),
         NEW st, Replaced(st, c.stack, i, e2), NEW r, Restacked(r, c, st)
  PROVE  Settled(r, t, q, s, ro)
<1>1. WireOK(ws) /\ IsSeq(ws)
  BY SettledAs DEF WireOK
<1>2. PICK a, n, m : InStep(c, ws, q, s, ro, a, n, m)
  BY SettledAs
<1>3. a \in Nat /\ n \in Nat /\ m \in Nat /\ Len(c.stack) = (a + n) + m /\ Good(c, a, a + n, ro)
  BY <1>2 DEF InStep
<1>4. PICK l : l = Len(c.stack)
  OBVIOUS
<1>5. PICK v : v = a + n
  OBVIOUS
<1>6. v \in Nat /\ l \in Nat /\ l = v + m /\ Good(c, a, v, ro)
  BY <1>3, <1>4, <1>5
<1>7. PICK w : WiredAs(c.stack, a, n, ws, w)
  BY <1>2 DEF InStep
<1>8. /\ n # 0 /\ ws[1].id = c.stack[a + 1].id /\ GoodData(ws[1].id, ws[1].data)
      /\ \E x : WiredAs(c.stack, a + 1, n - 1, t, x)
  BY <1>1, <1>3, <1>7, WireTail
<1>9. PICK n2 \in Nat : n2 = n - 1
  BY <1>3, <1>8
<1>10. v = (a + 1) + n2 /\ a + 1 \in Nat /\ a + 1 \in 1 .. l /\ a + 1 \in 0 .. v /\ v \in 0 .. l /\ a < l
  BY <1>3, <1>5, <1>6, <1>8, <1>9
<1>11. IsClient(c) /\ AnswersOK(c, a) /\ IsSeq(c.stack) /\ IsSeq(c.sendQueue)
  BY <1>6 DEF Good, Mid, IsClient
<1>12. \A j \in 1 .. l : j \in Line(c) /\ Nth(c, j) = c.stack[j]
  BY <1>4, <1>11, LineFacts
<1>13. i = a + 1
  <2>1. \A j \in 1 .. l : c.stack[j].ans = <<>> <=> j > a
    BY <1>11, <1>12 DEF AnswersOK
  <2> QED
    BY <1>3, <1>4, <1>10, <1>11, <2>1, FirstOpenIs
<1>14. PICK e : e = c.stack[i]
  OBVIOUS
<1>15. PICK d : d = ws[1].data
  OBVIOUS
<1>16. IsEntry(e)
  BY <1>10, <1>11, <1>12, <1>13, <1>14 DEF IsClient
<1>17. /\ IsEntry(e2) /\ e2.id = e.id /\ e2.arg = e.arg /\ e2.sync = e.sync
       /\ e2.ans # <<>> /\ e2.ans[1] = d
  BY <1>14, <1>15, <1>16, AnsweredEntry
<1>18. i \in 1 .. Len(c.stack)
  BY <1>4, <1>10, <1>13
<1>19. /\ IsClient(r) /\ SamePlace(r, c) /\ r.fault = c.fault /\ r.stack = st
       /\ Size(r) = Size(c) /\ i \in Line(c) /\ Nth(r, i) = e2 /\ Nth(c, i) = c.stack[i]
       /\ \A j \in Line(c) : j # i => Nth(r, j) = Nth(c, j)
  BY <1>11, <1>17, <1>18, AnswerLine
<1>20. SameRequests(r, c)
  BY <1>14, <1>17, <1>19 DEF SameRequests
<1>21. AnswersOK(r, a + 1)
  <2>1. Line(r) = Line(c)
    BY <1>19 DEF Line
  <2>2. ASSUME NEW j \in Line(c)
        PROVE  /\ Nth(r, j).ans = <<>> <=> j > a + 1
               /\ j <= a + 1 => GoodData(Nth(r, j).id, Nth(r, j).ans[1])
    <3>1. j \in Nat
      BY DEF Line
    <3>2. CASE j = i
      <4>1. Nth(r, j) = e2 /\ ~(j > a + 1)
        BY <1>3, <1>13, <1>19, <3>1, <3>2
      <4>2. GoodData(e2.id, e2.ans[1])
        BY <1>8, <1>13, <1>14, <1>15, <1>17
      <4> QED
        BY <1>17, <4>1, <4>2
    <3>3. CASE j # i
      <4>1. Nth(r, j) = Nth(c, j) /\ (j > a <=> j > a + 1) /\ (j <= a + 1 => j <= a)
        BY <1>3, <1>13, <1>19, <3>1, <3>3
      <4> QED
        BY <1>11, <4>1 DEF AnswersOK
    <3> QED
      BY <3>2, <3>3
  <2> QED
    BY <2>1, <2>2 DEF AnswersOK
<1>22. Len(st) = l /\ \A j \in 1 .. l : st[j].id = c.stack[j].id /\ st[j].arg = c.stack[j].arg
  <2>1. Len(st) = l /\ st[i] = e2 /\ \A j \in 1 .. l : j # i => st[j] = c.stack[j]
    BY <1>4 DEF Replaced
  <2> QED
    BY <1>14, <1>17, <2>1
<1>23. Good(r, a + 1, v, ro)
  <2>1. v \in 0 .. Len(r.stack)
    BY <1>10, <1>19, <1>22
  <2> QED
    BY <1>6, <1>10, <1>19, <1>20, <1>21, <2>1, SameKeeps
<1>24. \E x : WiredAs(st, a + 1, n2, t, x)
  <2>1. \A k \in 1 .. n2 : (a + 1) + k \in 1 .. l
    BY <1>3, <1>6, <1>10
  <2>2. \A k \in 1 .. n2 : st[(a + 1) + k].id = c.stack[(a + 1) + k].id
    BY <1>22, <2>1
  <2> QED
    BY <1>8, <1>9, <2>2, WiredSame
<1>25. \E g : WaitsAs(st, v, m, s, q, g)
  <2>1. \A k \in 1 .. m : v + k \in 1 .. l
    BY <1>3, <1>6
  <2>2. \A k \in 1 .. m : st[v + k].id = c.stack[v + k].id /\ st[v + k].arg = c.stack[v + k].arg
    BY <1>22, <2>1
  <2>3. \E g : WaitsAs(c.stack, v, m, s, q, g)
    BY <1>2, <1>5 DEF InStep
  <2> QED
    BY <2>2, <2>3, WaitsSame
<1>26. InStep(r, t, q, s, ro, a + 1, n2, m)
  <2>1. Len(r.stack) = ((a + 1) + n2) + m
    BY <1>6, <1>10, <1>19, <1>22
  <2> QED
    BY <1>3, <1>10, <1>19, <1>23, <1>24, <1>25, <2>1 DEF InStep
<1>27. WireOK(t)
  BY <1>1, TailOK
<1> QED
  BY <1>26, <1>27, SettledBy

Noted(r, c, ns) == r = [c EXCEPT !.notes = ns]

(* A notification goes to the end of its queue. *)
LEMMA DeliverNote ==
  ASSUME NEW c, NEW ws, NEW q, NEW s, NEW ro, Settled(c, ws, q, s, ro),
         NEW t, Beheaded(t, ws), ~ws[1].reply,
         NEW x, x.id = ws[1].id, NEW ns, Appended(ns, c.notes, x), NEW r, Noted(r, c, ns)
  PROVE  Settled(r, t, q, s, ro)
<1>1. WireOK(ws) /\ IsSeq(ws)
  BY SettledAs DEF WireOK
<1>2. PICK a, n, m : InStep(c, ws, q, s, ro, a, n, m)
  BY SettledAs
<1>3. a \in Nat /\ n \in Nat /\ Good(c, a, a + n, ro) /\ IsClient(c) /\ Mid(c, a, a + n, ro)
  BY <1>2 DEF InStep, Good, Mid
<1>4. PICK w : WiredAs(c.stack, a, n, ws, w)
  BY <1>2 DEF InStep
<1>5. \E y : WiredAs(c.stack, a, n, t, y)
  BY <1>1, <1>3, <1>4, WireTail
<1>6. x.id \in NoteIds
  <2>1. 1 \in 1 .. Len(ws)
    BY DEF Beheaded
  <2> QED
    BY <1>1, <2>1 DEF WireOK
<1>7. c = [k \in ClientFields |-> c[k]]
  BY <1>3 DEF IsClient
<1>8. /\ r = [k \in ClientFields |-> r[k]] /\ SameLine(r, c) /\ SamePlace(r, c)
      /\ r.notes = ns /\ r.list = c.list /\ r.fault = c.fault
  BY <1>7 DEF ClientFields, SameLine, SamePlace, Noted
<1>9. IsSeq(ns) /\ \A i \in 1 .. Len(ns) : ns[i].id \in NoteIds
  <2>1. PICK k \in Nat : k = Len(c.notes)
    BY <1>3, SeqIs DEF IsClient
  <2>2. IsSeq(ns) /\ Len(ns) = k + 1 /\ ns[k + 1] = x /\ \A i \in 1 .. k : ns[i] = c.notes[i]
    BY <2>1 DEF Appended
  <2>3. \A i \in 1 .. k : c.notes[i].id \in NoteIds
    BY <1>3, <2>1 DEF IsClient
  <2>4. \A i \in 1 .. k + 1 : i \in 1 .. k \/ i = k + 1
    OBVIOUS
  <2> QED
    BY <1>6, <2>2, <2>3, <2>4
<1>10. IsClient(r)
  BY <1>3, <1>8, <1>9, SameIs DEF IsClient, SamePlace
<1>11. Good(r, a, a + n, ro)
  <2>1. PICK v : v = a + n
    OBVIOUS
  <2>2. Mid(r, a, v, ro)
    BY <1>3, <1>8, <1>10, <2>1, MidSame
  <2> QED
    BY <1>3, <1>8, <2>1, <2>2 DEF Good, SamePlace
<1>12. InStep(r, t, q, s, ro, a, n, m)
  BY <1>2, <1>5, <1>8, <1>11 DEF InStep, SameLine
<1>13. WireOK(t)
  BY <1>1, TailOK
<1> QED
  BY <1>12, <1>13, SettledBy

(* A frame of the client. *)
LEMMA FrameClient ==
  ASSUME NEW c, NEW ws, NEW q, NEW s, NEW ro, Settled(c, ws, q, s, ro), NEW r,
         \A a, v : Good(c, a, v, ro) => Framed(r, c, a, v, ro)
  PROVE  Settled(r, ws, q, s, ro)
<1>1. PICK a, v : Good(c, a, v, ro) /\ Linked(c.stack, a, v, ws, s, q)
  BY DEF Settled
<1>2. IsSeq(c.stack)
  BY <1>1 DEF Good, Mid, IsClient
<1>3. PICK a2, v2 : Good(r, a2, v2, ro) /\ Follows(r, c, a, v, a2, v2)
  BY <1>1 DEF Framed
<1>4. Linked(r.stack, a2, v2, ws, s, q)
  BY <1>1, <1>2, <1>3, LinkFollows
<1>5. a2 \in 0 .. Len(r.stack) /\ v2 \in 0 .. Len(r.stack)
  <2>1. a2 \in 0 .. v2 /\ v2 \in 0 .. Len(r.stack) /\ IsSeq(r.stack)
    BY <1>3 DEF Good, Mid, IsClient
  <2>2. PICK l \in Nat : l = Len(r.stack)
    BY <2>1, SeqIs
  <2>3. a2 \in 0 .. l
    BY <2>1, <2>2
  <2> QED
    BY <2>1, <2>2, <2>3
<1> QED
  BY <1>3, <1>4, <1>5 DEF Settled

-----------------------------------------------------------------------------
(* The steps of the composition. *)
LEMMA QueueSeq == ASSUME TypeOK PROVE IsSeq(queue)
<1>1. queue \in Seq(Request)
  BY DEF TypeOK, Request
<1> QED
  BY <1>1, SeqOf

LEMMA ServeKeeps == ASSUME SceneInv, Serve PROVE SceneInv'
<1>1. IInv /\ TypeOK /\ PacketThread
  BY DEF SceneInv, Serve, IInv
<1>2. IInv'
  BY <1>1, NextIInv DEF AnyNext
<1>3. /\ up /\ queue # <<>> /\ req \in Request /\ req = Head(queue)
      /\ Handles \/ (Fault /\ req.id \in {"GAME_START", "GAME_STOP"})
  BY <1>1, ServeIs
<1>4. PICK p : p = [s \in Session |-> Picked(sent', {i \in DOMAIN sent' : sent'[i].to = s})]
  OBVIOUS
<1>5. wire' = [s \in Session |-> wire[s] \o p[s]]
  BY <1>4 DEF Serve
<1>6. client' = [s \in Session |-> [client[s] EXCEPT !.seated = @ \/ roomOf'[s] # 0]]
  BY DEF Serve
<1>7. client' = [s \in Session |-> client'[s]] /\ wire' = [s \in Session |-> wire'[s]]
  BY <1>5, <1>6
<1>8. ASSUME NEW s \in Session
      PROVE  /\ p[s] = Picked(sent', {i \in DOMAIN sent' : sent'[i].to = s})
             /\ wire'[s] = wire[s] \o p[s] /\ Reseated(client'[s], client[s], roomOf'[s])
  BY <1>4, <1>5, <1>6 DEF Reseated
<1>9. ASSUME NEW s \in Session PROVE Settled(client[s], wire[s], queue, s, roomOf[s]) /\ IsSeq(wire[s])
  BY SettledAs DEF SceneInv, WireOK
<1>10. IsSeq(queue)
  BY <1>1, QueueSeq
<1>11. CASE Handles
  <2>1. Beheaded(queue', queue)
    <3>1. queue' = Tail(queue)
      BY <1>11 DEF Handles, Served, DequeRecvPacket
    <3>2. Beheaded(Tail(queue), queue)
      BY <1>3, <1>10, TailIs
    <3> QED
      BY <3>1, <3>2
  <2>2. req = queue[1]
    BY <1>3, <2>1 DEF Beheaded
  <2>3. DownInv'
    BY <1>3, <1>11 DEF Handles, Served, DownInv
  <2>4. ASSUME NEW s \in Session
        PROVE  Settled(client'[s], wire'[s], queue', s, roomOf'[s])
    <3>1. PICK at : at = {i \in DOMAIN sent' : sent'[i].to = s}
      OBVIOUS
    <3>2. SentTo(p[s], s, req)
      <4>1. Spoken(sent', req) /\ p[s] = Picked(sent', at)
        BY <1>8, <1>11, <3>1 DEF Handles
      <4> QED
        BY <3>1, <4>1, SentIs
    <3>3. Joined(wire'[s], wire[s], p[s])
      <4>1. Joined(wire[s] \o p[s], wire[s], p[s])
        BY <1>9, <3>2, CatIs DEF SentTo
      <4> QED
        BY <1>8, <4>1
    <3>4. IF s = req.session THEN MovedTo(roomOf'[s], roomOf[s], req) ELSE roomOf'[s] = roomOf[s]
      BY <1>11 DEF Handles, Moved, MovedTo
    <3>5. PICK rq, ps, r, ws2, q2, ro2 :
            /\ rq = req /\ ps = p[s] /\ r = client'[s] /\ ws2 = wire'[s] /\ q2 = queue'
            /\ ro2 = roomOf'[s]
      OBVIOUS
    <3>6. PICK c, ws, ro : c = client[s] /\ ws = wire[s] /\ ro = roomOf[s]
      OBVIOUS
    <3>7. Settled(c, ws, queue, s, ro) /\ Beheaded(q2, queue) /\ rq = queue[1]
      BY <1>9, <2>1, <2>2, <3>5, <3>6
    <3>8. SentTo(ps, s, rq) /\ Joined(ws2, ws, ps)
      BY <3>2, <3>3, <3>5, <3>6
    <3>9. (IF s = rq.session THEN MovedTo(ro2, ro, rq) ELSE ro2 = ro) /\ Reseated(r, c, ro2)
      BY <1>8, <3>4, <3>5, <3>6
    <3>10. Settled(r, ws2, q2, s, ro2)
      BY <1>10, <3>7, <3>8, <3>9, ServeClient
    <3> QED
      BY <3>5, <3>10
  <2> QED
    BY <1>2, <1>7, <2>3, <2>4 DEF SceneInv
<1>12. CASE Fault /\ req.id \in {"GAME_START", "GAME_STOP"}
  <2>1. queue' = queue /\ roomOf' = roomOf /\ sent' = <<>>
    BY <1>12 DEF Fault, playerVars
  <2>2. DownInv'
    BY <1>3, <1>12, <2>1 DEF DownInv
  <2>3. ASSUME NEW s \in Session
        PROVE  client'[s] = client[s] /\ wire'[s] = wire[s]
    <3>1. PICK at : at = {i \in DOMAIN sent' : sent'[i].to = s}
      OBVIOUS
    <3>2. p[s] = Picked(<<>>, at)
      BY <1>8, <2>1, <3>1
    <3>3. PickedFrom(p[s], <<>>, at)
      BY <3>2, EmptyIs, PickedIs
    <3>4. \A e : ~From(e, <<>>, at, 0)
      BY DEF From
    <3>5. PICK k \in Nat : k = Len(p[s])
      BY <3>3, SeqIs DEF PickedFrom
    <3>6. \A i \in 1 .. k : FALSE
      BY <3>3, <3>4, <3>5, EmptyIs DEF PickedFrom
    <3>7. k = 0
      <4>1. k # 0 => 1 \in 1 .. k
        OBVIOUS
      <4> QED
        BY <3>6, <4>1
    <3>8. p[s] = <<>>
      BY <3>3, <3>5, <3>7, SeqIs DEF PickedFrom
    <3>9. wire'[s] = wire[s]
      <4>1. PICK S : wire[s] \in Seq(S)
        BY <1>9 DEF IsSeq
      <4>2. wire[s] \o <<>> = wire[s]
        BY <4>1, ConcatEmptySeq
      <4> QED
        BY <1>8, <3>8, <4>2
    <3>10. PICK a, v : Good(client[s], a, v, roomOf[s])
      BY <1>9 DEF Settled
    <3>11. client'[s] = client[s]
      BY <1>8, <2>1, <3>10, OtherPlace
    <3> QED
      BY <3>9, <3>11
  <2>4. ASSUME NEW s \in Session
        PROVE  Settled(client'[s], wire'[s], queue', s, roomOf'[s])
    BY <1>9, <2>1, <2>3
  <2> QED
    BY <1>2, <1>7, <2>2, <2>4 DEF SceneInv
<1> QED
  BY <1>3, <1>11, <1>12

(* The client s alone changes. *)
LEMMA OneClient ==
  ASSUME NEW s \in Session, client = [t \in Session |-> client[t]],
         NEW r, client' = [client EXCEPT ![s] = r]
  PROVE  /\ client' = [t \in Session |-> client'[t]] /\ client'[s] = r
         /\ \A t \in Session : t # s => client'[t] = client[t]
  OBVIOUS

LEMMA FramesKeep ==
  ASSUME Patient, SceneInv, NEW s \in Session, Frame(s) \/ User(s) \/ Poll(s) PROVE SceneInv'
<1>1. UNCHANGED <<vars, wire>> /\ \E r : client' = [client EXCEPT ![s] = r]
  <2>1. CASE \E after : FrameWith(s, after)
    BY <2>1 DEF FrameWith
  <2>2. CASE Poll(s)
    BY <2>2 DEF Poll
  <2>3. Frame(s) \/ User(s) => \E after : FrameWith(s, after)
    BY DEF Frame, User, ClickRoom, ClickStart, ClickLeave, Refresh, Play
  <2> QED
    BY <2>1, <2>2, <2>3
<1>2. client = [t \in Session |-> client[t]] /\ wire = [t \in Session |-> wire[t]] /\ IInv /\ DownInv
  BY DEF SceneInv
<1>3. /\ client' = [t \in Session |-> client'[t]]
      /\ \A t \in Session : t # s => client'[t] = client[t]
  BY <1>1, <1>2, OneClient
<1>4. IInv'
  BY <1>1, <1>2, NextIInv
<1>5. queue' = queue /\ roomOf' = roomOf /\ up' = up /\ wire' = wire
  BY <1>1 DEF vars, playerVars
<1>6. DownInv'
  BY <1>2, <1>5 DEF DownInv
<1>7. ASSUME NEW t \in Session PROVE Settled(client'[t], wire'[t], queue', t, roomOf'[t])
  <2>1. Settled(client[t], wire[t], queue, t, roomOf[t])
    BY DEF SceneInv
  <2>2. CASE t # s
    BY <1>3, <1>5, <2>1, <2>2
  <2>3. CASE t = s
    <3>1. PICK c, ws, ro, r : c = client[s] /\ ws = wire[s] /\ ro = roomOf[s] /\ r = client'[s]
      OBVIOUS
    <3>2. ASSUME NEW a, NEW v, Good(c, a, v, ro) PROVE Framed(r, c, a, v, ro)
      BY <1>2, <3>1, <3>2, FrameKeeps, PollKeeps
    <3>3. Settled(r, ws, queue, s, ro)
      BY <2>1, <2>3, <3>1, <3>2, FrameClient
    <3> QED
      BY <1>5, <2>3, <3>1, <3>3
  <2> QED
    BY <2>2, <2>3
<1> QED
  BY <1>2, <1>3, <1>4, <1>5, <1>6, <1>7 DEF SceneInv

LEMMA ConnectKeeps == ASSUME SceneInv, NEW s \in Session, Connect(s) PROVE SceneInv'
<1>1. IInv'
  BY NextIInv DEF SceneInv, Connect, AnyNext
<1>2. queue' = queue /\ roomOf' = roomOf /\ up' = up /\ wire' = wire /\ client' = client
  BY DEF Connect, OnConnect, playerVars, sceneVars
<1> QED
  BY <1>1, <1>2 DEF SceneInv, DownInv

LEMMA TransmitKeeps == ASSUME SceneInv, NEW s \in Session, Transmit(s) PROVE SceneInv'
<1>1. client = [t \in Session |-> client[t]] /\ wire = [t \in Session |-> wire[t]] /\ IInv /\ TypeOK
  BY DEF SceneInv, IInv
<1>2. PICK c : c = client[s]
  OBVIOUS
<1>3. PICK e : e = Head(c.sendQueue)
  OBVIOUS
<1>4. c.sendQueue # <<>> /\ OnReceive(s, e) /\ wire' = wire
  BY <1>2, <1>3 DEF Transmit
<1>5. PICK sq, st : sq = Tail(c.sendQueue) /\ st = Append(c.stack, e)
  OBVIOUS
<1>6. Settled(c, wire[s], queue, s, roomOf[s])
  BY <1>2 DEF SceneInv
<1>7. PICK a, v : Good(c, a, v, roomOf[s])
  BY <1>6 DEF Settled
<1>8. IsClient(c) /\ IsSeq(c.stack) /\ IsSeq(c.sendQueue)
  BY <1>7 DEF Good, Mid, IsClient
<1>9. Beheaded(sq, c.sendQueue)
  BY <1>4, <1>5, <1>8, TailIs
<1>10. e = c.sendQueue[1]
  BY <1>3, <1>9 DEF Beheaded
<1>11. Appended(st, c.stack, e)
  BY <1>5, <1>8, AppendIs
<1>12. client' = [client EXCEPT ![s] = [c EXCEPT !.sendQueue = sq, !.stack = st]]
  <2>1. client' = [client EXCEPT ![s].sendQueue = Tail(@), ![s].stack = Append(@, e)]
    BY <1>2, <1>3 DEF Transmit
  <2>2. client' = [client EXCEPT ![s] = [[c EXCEPT !.sendQueue = sq] EXCEPT !.stack = st]]
    BY <1>1, <1>2, <1>5, <1>8, <2>1 DEF IsClient, ClientFields
  <2> QED
    BY <2>2
<1>13. PICK r : r = [c EXCEPT !.sendQueue = sq, !.stack = st]
  OBVIOUS
<1>14. /\ client' = [t \in Session |-> client'[t]] /\ client'[s] = r
       /\ \A t \in Session : t # s => client'[t] = client[t]
  BY <1>1, <1>12, <1>13, OneClient
<1>15. Transmitted(r, c, sq, st)
  BY <1>13 DEF Transmitted
<1>16. IsEntry(e)
  <2>1. PICK k \in Nat : k = Len(c.stack)
    BY <1>8, SeqIs
  <2>2. 1 \in 1 .. Len(c.sendQueue)
    BY <1>9 DEF Beheaded
  <2>3. Len(c.stack) + 1 \in Line(c) /\ Nth(c, Len(c.stack) + 1) = c.sendQueue[1]
    BY <1>8, <2>2, LineFacts
  <2> QED
    BY <1>8, <1>10, <2>3 DEF IsClient
<1>17. PICK x : x = [session |-> s, id |-> e.id, arg |-> e.arg]
  OBVIOUS
<1>18. x.session = s /\ x.id = e.id /\ x.arg = e.arg
  BY <1>17
<1>19. up /\ up' = up /\ roomOf' = roomOf /\ queue' = Append(queue, x)
  BY <1>4, <1>17 DEF OnReceive, playerVars
<1>20. IsSeq(queue)
  BY <1>1, QueueSeq
<1>21. PICK q2 : q2 = queue'
  OBVIOUS
<1>22. Appended(q2, queue, x)
  BY <1>19, <1>20, <1>21, AppendIs
<1>23. IInv'
  <2>1. PICK q : q = [id |-> e.id, arg |-> e.arg]
    OBVIOUS
  <2>2. q \in AnyRequest /\ q.id = e.id /\ q.arg = e.arg
    BY <1>16, <2>1 DEF AnyRequest, IsEntry, SyncIds, PlainIds, ReqId
  <2>3. OnReceive(s, q)
    BY <1>4, <2>2 DEF OnReceive
  <2> QED
    BY <1>1, <2>2, <2>3, NextIInv DEF AnyNext
<1>24. DownInv'
  BY <1>19 DEF DownInv
<1>25. ASSUME NEW t \in Session PROVE Settled(client'[t], wire'[t], queue', t, roomOf'[t])
  <2>1. CASE t = s
    <3>1. Settled(r, wire[s], q2, s, roomOf[s])
      BY <1>6, <1>9, <1>10, <1>11, <1>15, <1>18, <1>20, <1>22, TransmitClient
    <3> QED
      BY <1>4, <1>14, <1>19, <1>21, <2>1, <3>1
  <2>2. CASE t # s
    <3>1. PICK d, ws, ro : d = client[t] /\ ws = wire[t] /\ ro = roomOf[t]
      OBVIOUS
    <3>2. Settled(d, ws, queue, t, ro) /\ x.session # t
      BY <1>18, <2>2, <3>1 DEF SceneInv
    <3>3. Settled(d, ws, q2, t, ro)
      BY <1>20, <1>22, <3>2, TransmitOther
    <3> QED
      BY <1>4, <1>14, <1>19, <1>21, <2>2, <3>1, <3>3
  <2> QED
    BY <2>1, <2>2
<1> QED
  BY <1>1, <1>4, <1>14, <1>23, <1>24, <1>25 DEF SceneInv

LEMMA DeliverKeeps == ASSUME SceneInv, NEW s \in Session, Deliver(s) PROVE SceneInv'
<1>1. client = [t \in Session |-> client[t]] /\ wire = [t \in Session |-> wire[t]] /\ IInv /\ DownInv
  BY DEF SceneInv
<1>2. PICK c, ws : c = client[s] /\ ws = wire[s]
  OBVIOUS
<1>3. PICK m : m = Head(ws)
  OBVIOUS
<1>4. /\ ws # <<>> /\ wire' = [wire EXCEPT ![s] = Tail(ws)] /\ UNCHANGED vars
      /\ client' = IF m.reply
                   THEN [client EXCEPT ![s].stack[FirstOpen(c.stack)].ans = <<m.data>>]
                   ELSE [client EXCEPT ![s].notes = Append(@, [id |-> m.id, data |-> m.data])]
  BY <1>2, <1>3 DEF Deliver
<1>5. PICK ro : ro = roomOf[s]
  OBVIOUS
<1>6. Settled(c, ws, queue, s, ro)
  BY <1>2, <1>5 DEF SceneInv
<1>7. WireOK(ws) /\ IsSeq(ws)
  BY <1>6, SettledAs DEF WireOK
<1>8. PICK tl : tl = Tail(ws)
  OBVIOUS
<1>9. Beheaded(tl, ws)
  BY <1>4, <1>7, <1>8, TailIs
<1>10. m = ws[1]
  BY <1>3, <1>9 DEF Beheaded
<1>11. queue' = queue /\ roomOf' = roomOf /\ up' = up
  BY <1>4 DEF vars, playerVars
<1>12. IInv' /\ DownInv'
  BY <1>1, <1>4, <1>11, NextIInv DEF DownInv
<1>13. /\ wire' = [t \in Session |-> wire'[t]] /\ wire'[s] = tl
       /\ \A t \in Session : t # s => wire'[t] = wire[t]
  BY <1>1, <1>4, <1>8
<1>14. PICK a, v : Good(c, a, v, ro)
  BY <1>6 DEF Settled
<1>15. IsClient(c) /\ IsSeq(c.stack) /\ IsSeq(c.notes) /\ c = [k \in ClientFields |-> c[k]]
  BY <1>14 DEF Good, Mid, IsClient
<1>16. ASSUME NEW r, client' = [client EXCEPT ![s] = r], Settled(r, tl, queue, s, ro) PROVE SceneInv'
  <2>1. /\ client' = [t \in Session |-> client'[t]] /\ client'[s] = r
        /\ \A t \in Session : t # s => client'[t] = client[t]
    BY <1>1, <1>16, OneClient
  <2>2. ASSUME NEW t \in Session PROVE Settled(client'[t], wire'[t], queue', t, roomOf'[t])
    <3>1. CASE t = s
      BY <1>5, <1>11, <1>13, <1>16, <2>1, <3>1
    <3>2. CASE t # s
      <4>1. Settled(client[t], wire[t], queue, t, roomOf[t])
        BY DEF SceneInv
      <4> QED
        BY <1>11, <1>13, <2>1, <3>2, <4>1
    <3> QED
      BY <3>1, <3>2
  <2> QED
    BY <1>12, <1>13, <2>1, <2>2 DEF SceneInv
<1>17. CASE m.reply
  <2>1. PICK i : i = FirstOpen(c.stack)
    OBVIOUS
  <2>2. PICK e2 : AnsweredWith(e2, c.stack[i], ws[1].data)
    BY DEF AnsweredWith
  <2>3. PICK st : st = [c.stack EXCEPT ![i] = e2]
    OBVIOUS
  <2>4. PICK r : Restacked(r, c, st)
    BY DEF Restacked
  <2>5. client' = [client EXCEPT ![s] = r]
    <3>1. client' = [client EXCEPT ![s].stack[i].ans = <<m.data>>]
      BY <1>4, <1>17, <2>1
    <3>2. e2 = [c.stack[i] EXCEPT !.ans = <<m.data>>]
      BY <1>10, <2>2 DEF AnsweredWith
    <3>3. r = [c EXCEPT !.stack = [c.stack EXCEPT ![i] = e2]]
      BY <2>3, <2>4 DEF Restacked
    <3> QED
      BY <1>2, <3>1, <3>2, <3>3
  <2>6. i \in 1 .. Len(c.stack)
    <3>1. m.reply /\ ws[1].reply
      BY <1>10, <1>17
    <3> QED
      BY <1>6, <1>9, <2>1, <3>1, OpenExists
  <2>7. Replaced(st, c.stack, i, e2)
    BY <1>15, <2>3, <2>6, SetIs
  <2>8. ws[1].reply
    BY <1>10, <1>17
  <2>9. Settled(r, tl, queue, s, ro)
    BY <1>6, <1>9, <2>1, <2>2, <2>4, <2>7, <2>8, DeliverReply
  <2> QED
    BY <1>16, <2>5, <2>9
<1>18. CASE ~m.reply
  <2>1. PICK x : x = [id |-> m.id, data |-> m.data]
    OBVIOUS
  <2>2. PICK ns : ns = Append(c.notes, x)
    OBVIOUS
  <2>3. Appended(ns, c.notes, x)
    BY <1>15, <2>2, AppendIs
  <2>4. PICK r : Noted(r, c, ns)
    BY DEF Noted
  <2>5. client' = [client EXCEPT ![s] = r]
    BY <1>2, <1>4, <1>18, <2>1, <2>2, <2>4 DEF Noted
  <2>6. x.id = ws[1].id /\ ~ws[1].reply
    BY <1>10, <1>18, <2>1
  <2>7. Settled(r, tl, queue, s, ro)
    BY <1>6, <1>9, <2>3, <2>4, <2>6, DeliverNote
  <2> QED
    BY <1>16, <2>5, <2>7
<1> QED
  BY <1>17, <1>18

LEMMA SceneStart == ASSUME SceneInit PROVE SceneInv
<1>1. IInv /\ DownInv /\ queue = <<>> /\ \A s \in Session : roomOf[s] = 0
  BY InitIInv DEF SceneInit, Init, DownInv
<1>2. wire = [s \in Session |-> wire[s]] /\ \A s \in Session : wire[s] = <<>>
  BY DEF SceneInit
<1>3. PICK c : c = [session |-> 0, scene |-> "lobby", room |-> 0, next |-> NoScene, wait |-> "none",
                    list |-> <<>>, start |-> "null", mine |-> FALSE, enemy |-> FALSE, fault |-> "none",
                    sendQueue |-> <<>>, stack |-> <<>>, notes |-> <<>>, seated |-> FALSE]
  OBVIOUS
<1>4. PICK r : r = SendSync(c, "LOGIN", 0)
  OBVIOUS
<1>5. client = [s \in Session |-> r]
  BY <1>3, <1>4 DEF SceneInit
<1>6. /\ c = [k \in ClientFields |-> c[k]] /\ c.scene = "lobby" /\ c.next = NoScene /\ c.seated = FALSE
      /\ c.list = <<>> /\ c.sendQueue = <<>> /\ c.stack = <<>> /\ c.notes = <<>>
  BY <1>3 DEF ClientFields
<1>7. IsSeq(<<>>) /\ Len(<<>>) = 0 /\ DOMAIN <<>> = 1 .. 0
  BY EmptyIs, SeqIs
<1>8. \A i \in 1 .. 0 : FALSE
  OBVIOUS
<1>9. Line(c) = 1 .. 0
  <2>1. Len(c.stack) = 0 /\ Len(c.sendQueue) = 0
    BY <1>6, <1>7
  <2>2. PICK i \in Nat, j \in Nat : i = Len(c.stack) /\ j = Len(c.sendQueue) /\ i + j = 0
    BY <2>1
  <2>3. Size(c) = 0
    BY <2>2 DEF Size
  <2> QED
    BY <2>3 DEF Line
<1>10. IsClient(c)
  BY <1>6, <1>7, <1>8, <1>9 DEF IsClient
<1>11. Good(r, 0, 0, 0) /\ r.stack = <<>>
  <2>1. 0 \in 0 .. 0 /\ 0 \in 0 .. Len(c.stack)
    BY <1>6, <1>7
  <2>2. AnswersOK(c, 0) /\ (\A i \in Line(c) : ~Nth(c, i).sync) /\ NoClicks(c)
    BY <1>8, <1>9 DEF AnswersOK, NoClicks
  <2>3. "LOGIN" \in SyncIds /\ "LOGIN" # "ROOM_ENTER" /\ 0 \in Nat
    BY DEF SyncIds
  <2> QED
    BY <1>4, <1>6, <1>10, <2>1, <2>2, <2>3, AskKeeps
<1>12. WireOK(<<>>) /\ Replies(<<>>) = {} /\ \A s : Mine(<<>>, s) = {}
  BY <1>7, <1>8 DEF WireOK, Replies, Mine
<1>13. ASSUME NEW s \in Session PROVE Settled(r, <<>>, <<>>, s, 0)
  <2>1. \E w : WiredAs(<<>>, 0, 0, <<>>, w)
    BY <1>8, <1>12, NoneListed DEF WiredAs
  <2>2. \E g : WaitsAs(<<>>, 0, 0, s, <<>>, g)
    BY <1>8, <1>12, NoneListed DEF WaitsAs
  <2>3. 0 + 0 = 0 /\ 0 \in Nat
    OBVIOUS
  <2>4. InStep(r, <<>>, <<>>, s, 0, 0, 0, 0)
    BY <1>7, <1>11, <2>1, <2>2, <2>3 DEF InStep
  <2> QED
    BY <1>12, <2>4, SettledBy
<1>14. client = [s \in Session |-> client[s]] /\ \A s \in Session : client[s] = r
  BY <1>5
<1> QED
  BY <1>1, <1>2, <1>13, <1>14 DEF SceneInv

LEMMA SceneStep ==
  ASSUME Patient, SceneInv, [SceneNext]_<<vars, sceneVars>> PROVE SceneInv'
<1>1. CASE Serve
  BY <1>1, ServeKeeps
<1>2. ASSUME NEW s \in Session, Frame(s) \/ User(s) \/ Poll(s) PROVE SceneInv'
  BY <1>2, FramesKeep
<1>3. ASSUME NEW s \in Session, Connect(s) PROVE SceneInv'
  BY <1>3, ConnectKeeps
<1>4. ASSUME NEW s \in Session, Transmit(s) PROVE SceneInv'
  BY <1>4, TransmitKeeps
<1>5. ASSUME NEW s \in Session, Deliver(s) PROVE SceneInv'
  BY <1>5, DeliverKeeps
<1>6. CASE UNCHANGED <<vars, sceneVars>>
  <2>1. IInv'
    BY <1>6, NextIInv DEF SceneInv
  <2>2. queue' = queue /\ roomOf' = roomOf /\ up' = up /\ wire' = wire /\ client' = client
    BY <1>6 DEF vars, playerVars, sceneVars
  <2> QED
    BY <2>1, <2>2 DEF SceneInv, DownInv
<1> QED
  BY <1>1, <1>2, <1>3, <1>4, <1>5, <1>6 DEF SceneNext

(* The inductive invariant of the composition holds of every state it reaches. *)
THEOREM SceneInductive == ASSUME Patient PROVE SceneSpec => []SceneInv
  BY SceneStart, SceneStep, PTL DEF SceneSpec

(***************************************************************************)
(* Game::Update, the button handlers and the ten request handlers          *)
(* together, for any number of clients, rooms, requests under way and      *)
(* clicks of patient users: whenever a client has caught up with the       *)
(* server, its scene is what the server believes (SceneFollowsServer).     *)
(***************************************************************************)
THEOREM ScenesFollow == ASSUME Patient PROVE SceneSpec => []SceneFollowsServer
<1>1. SceneInv => SceneFollowsServer
  <2> SUFFICES ASSUME SceneInv, NEW s \in Session, Quiet(s)
               PROVE  IF client[s].scene = "lobby" THEN roomOf[s] = 0
                      ELSE roomOf[s] \in {0, client[s].room} /\ (client[s].seated => roomOf[s] # 0)
    BY DEF SceneFollowsServer
  <2>1. PICK c, ro : c = client[s] /\ ro = roomOf[s]
    OBVIOUS
  <2>2. PICK a, v : Good(c, a, v, ro)
    BY <2>1 DEF SceneInv, Settled
  <2>3. c.stack = <<>> /\ c.next = NoScene
    BY <2>1 DEF Quiet
  <2>4. v \in 0 .. Len(c.stack) /\ Place(c, v, ro) /\ c.scene \in {"lobby", "game"}
    BY <2>2 DEF Good, Mid, IsClient
  <2>5. v = 0
    BY <2>3, <2>4, EmptyIs
  <2>6. (\A i \in 1 .. v : FALSE) /\ c.next # 0
    BY <2>3, <2>5 DEF NoScene
  <2> QED
    BY <2>1, <2>4, <2>6 DEF Place
<1> QED
  BY <1>1, SceneInductive, PTL

(***************************************************************************)
(* The server's null dereference in ReqGameStart, seen from the clients of *)
(* this program: however many there are, the one that takes the server     *)
(* down is in a room's scene and was never seated in that room             *)
(* (ServerDiesOnlyUnseated), as its user clicks start once at a time and   *)
(* no client sends GAME_STOP.                                              *)
(***************************************************************************)
THEOREM OnlyUnseatedKills == ASSUME Patient PROVE SceneSpec => []ServerDiesOnlyUnseated
<1>1. SceneInv => ServerDiesOnlyUnseated
  <2> SUFFICES ASSUME SceneInv, ~up
               PROVE  client[Head(queue).session].scene = "game" /\ ~client[Head(queue).session].seated
    BY DEF ServerDiesOnlyUnseated
  <2>1. /\ queue # <<>> /\ roomOf[Head(queue).session] = 0 /\ IsSeq(queue) /\ TypeOK
        /\ Head(queue).id \in {"GAME_START", "GAME_STOP"}
    BY QueueSeq DEF SceneInv, IInv, FaultOnlyRoomless, DownInv
  <2>2. PICK tl : tl = Tail(queue)
    OBVIOUS
  <2>3. Beheaded(tl, queue)
    BY <2>1, <2>2, TailIs
  <2>4. PICK x : x = queue[1]
    OBVIOUS
  <2>5. x = Head(queue)
    BY <2>3, <2>4 DEF Beheaded
  <2>6. PICK s : s = x.session
    OBVIOUS
  <2>7. s \in Session
    <3>1. queue \in Seq(Request)
      BY <2>1 DEF TypeOK, Request
    <3>2. Head(queue) \in Request
      BY <2>1, <3>1, HeadTailProperties
    <3> QED
      BY <2>5, <2>6, <3>2 DEF Request
  <2>8. PICK c, ws : c = client[s] /\ ws = wire[s]
    OBVIOUS
  <2>9. roomOf[s] = 0 /\ Settled(c, ws, queue, s, 0)
    BY <2>1, <2>5, <2>6, <2>7, <2>8 DEF SceneInv
  <2>10. PICK a, n, m : InStep(c, ws, queue, s, 0, a, n, m)
    BY <2>9, SettledAs
  <2>11. PICK v : v = a + n
    OBVIOUS
  <2>12. PICK l : l = Len(c.stack)
    OBVIOUS
  <2>13. /\ a \in Nat /\ n \in Nat /\ m \in Nat /\ v \in Nat /\ l = v + m /\ Good(c, a, v, 0)
         /\ \E g : WaitsAs(c.stack, v, m, s, queue, g)
    BY <2>10, <2>11, <2>12 DEF InStep
  <2>14. m # 0 /\ x.id = c.stack[v + 1].id
    BY <2>1, <2>3, <2>4, <2>6, <2>13, WaitTail
  <2>15. v + 1 \in 1 .. l /\ \A i \in 1 .. v : i \in 1 .. l /\ i # v + 1
    BY <2>13, <2>14
  <2>16. /\ IsClient(c) /\ OneClick(c) /\ Place(c, v, 0) /\ IsSeq(c.stack) /\ IsSeq(c.sendQueue)
    BY <2>13 DEF Good, Mid, IsClient
  <2>17. \A i \in 1 .. l : i \in Line(c) /\ Nth(c, i) = c.stack[i]
    BY <2>12, <2>16, LineFacts
  <2>18. PICK e : e = Nth(c, v + 1)
    OBVIOUS
  <2>19. IsEntry(e) /\ e.id = x.id /\ v + 1 \in Line(c)
    BY <2>14, <2>15, <2>16, <2>17, <2>18 DEF IsClient
  <2>20. e.id \in Clicks
    BY <2>1, <2>5, <2>19 DEF IsEntry, SyncIds, PlainIds, Clicks
  <2>21. /\ c.scene = "game" /\ c.next = NoScene
         /\ \A j \in Line(c) : Nth(c, j).id \in Clicks => j = v + 1
    BY <2>16, <2>18, <2>19, <2>20 DEF OneClick
  <2>22. \A i \in 1 .. v : Nth(c, i).id # "ROOM_LEAVE"
    BY <2>15, <2>17, <2>21 DEF Clicks
  <2>23. c.next # 0
    BY <2>21 DEF NoScene
  <2>24. ~c.seated
    BY <2>16, <2>21, <2>22, <2>23 DEF Place
  <2> QED
    BY <2>5, <2>6, <2>8, <2>21, <2>24
<1> QED
  BY <1>1, SceneInductive, PTL

(***************************************************************************)
(* With the scenes, the button handlers and the wire between them and the  *)
(* request handlers the server is still a service of rooms: no delay of a  *)
(* packet, no repeated click and no scene that lags behind makes it take a *)
(* step a room service does not have.                                      *)
(***************************************************************************)
THEOREM ScenesUseRooms == ASSUME Patient PROVE SceneSpec => AsRooms!Safety
<1>1. SceneInit => AsRooms!Init
  BY RoomsAtStart DEF SceneInit
<1>2. ASSUME SceneInv, [SceneNext]_<<vars, sceneVars>> PROVE [AsRooms!Next]_(AsRooms!vars)
  <2>1. CASE Serve
    BY <1>2, <2>1, RoomStep DEF Serve, AnyNext, SceneInv
  <2>2. ASSUME NEW s \in Session, Connect(s) \/ Transmit(s) PROVE UNCHANGED AsRooms!vars
    <3>1. UNCHANGED <<up, nextRoom, rooms, roomOf, players, isPlaying>>
      BY <2>2 DEF Connect, Transmit, OnConnect, OnReceive, playerVars, roomVars
    <3> QED
      BY <3>1, RoomStutter
  <2>3. CASE UNCHANGED vars
    <3>1. UNCHANGED <<up, nextRoom, rooms, roomOf, players, isPlaying>>
      BY <2>3 DEF vars, playerVars, roomVars
    <3> QED
      BY <3>1, RoomStutter
  <2>4. ASSUME NEW s \in Session, Frame(s) \/ User(s) \/ Poll(s) PROVE UNCHANGED vars
    <3>1. Frame(s) \/ User(s) => \E after : FrameWith(s, after)
      BY DEF Frame, User, ClickRoom, ClickStart, ClickLeave, Refresh, Play
    <3>2. \/ \E after : FrameWith(s, after)
          \/ Poll(s)
      BY <2>4, <3>1
    <3> QED
      BY <3>2 DEF FrameWith, Poll
  <2>5. ASSUME NEW s \in Session, Deliver(s) PROVE UNCHANGED vars
    BY <2>5 DEF Deliver
  <2> QED
    BY <1>2, <2>1, <2>2, <2>3, <2>4, <2>5 DEF SceneNext
<1> QED
  BY <1>1, <1>2, SceneInductive, PTL DEF SceneSpec, AsRooms!Safety
=============================================================================
