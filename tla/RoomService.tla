---------------------------- MODULE RoomService -----------------------------
(***************************************************************************)
(* What the server promises of its rooms to the clients, without queue,    *)
(* packets and player lists: a room has a number nobody has had before and *)
(* a count of seats taken, closes with the departure that frees its last   *)
(* seat, and is playing or not by the word of a client that is in it.  A   *)
(* client that enters a room does not give up a seat it has in another.    *)
(***************************************************************************)
EXTENDS Integers

CONSTANTS Clients, Capacity

VARIABLES
  open, used,   \* the rooms, and the numbers rooms have had
  seats,        \* seats[r]: how many seats of an open room are taken
  at,           \* at[c]: the room client c is in, or 0
  playing,      \* the rooms with a game
  down          \* the service has crashed

vars == <<open, used, seats, at, playing, down>>

Init ==
  /\ open = {} /\ used = {} /\ playing = {}
  /\ seats = [r \in {} |-> 0]
  /\ at = [c \in Clients |-> 0]
  /\ down = FALSE

Open(r) ==
  /\ r \notin used
  /\ open' = open \cup {r}
  /\ used' = used \cup {r}
  /\ seats' = [q \in open' |-> IF q = r THEN 0 ELSE seats[q]]
  /\ UNCHANGED <<at, playing, down>>

Enter(c, r) ==
  /\ seats[r] < Capacity
  /\ at' = [at EXCEPT ![c] = r]
  /\ seats' = [seats EXCEPT ![r] = @ + 1]
  /\ UNCHANGED <<open, used, playing, down>>

Leave(c, r) ==
  /\ at[c] = r
  /\ at' = [at EXCEPT ![c] = 0]
  /\ open' = IF seats[r] = 1 THEN open \ {r} ELSE open
  /\ seats' = [q \in open' |-> IF q = r THEN seats[r] - 1 ELSE seats[q]]
  /\ playing' = playing \cap open'
  /\ UNCHANGED <<used, down>>

Start(c, r) ==
  /\ at[c] = r
  /\ playing' = playing \cup {r}
  /\ UNCHANGED <<open, used, seats, at, down>>

Stop(c, r) ==
  /\ at[c] = r
  /\ playing' = playing \ {r}
  /\ UNCHANGED <<open, used, seats, at, down>>

(* A client outside all rooms can bring the service down. *)
Crash(c) ==
  /\ at[c] = 0
  /\ down' = TRUE
  /\ UNCHANGED <<open, used, seats, at, playing>>

Next ==
  /\ ~down
  /\ \/ \E r \in Nat \ {0} : Open(r)
     \/ \E c \in Clients, r \in open : Enter(c, r) \/ Leave(c, r) \/ Start(c, r) \/ Stop(c, r)
     \/ \E c \in Clients : Crash(c)

Safety == Init /\ [][Next]_vars
=============================================================================
