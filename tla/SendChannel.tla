---------------------------- MODULE SendChannel -----------------------------
(***************************************************************************)
(* What the connection slots promise for the packets given to them: on     *)
(* each slot they leave once and in the order they were given, until the   *)
(* slot goes dead; a dead slot takes packets and never sends again.        *)
(***************************************************************************)
EXTENDS Integers, Sequences

CONSTANT Slots

VARIABLES
  submitted,  \* how many packets a slot was given; the n-th one is n
  pending,    \* the packets that have not left it
  delivered,  \* the packets that have
  dead        \* nothing will leave it any more

vars == <<submitted, pending, delivered, dead>>

Init ==
  /\ submitted = [i \in Slots |-> 0]
  /\ pending = [i \in Slots |-> <<>>]
  /\ delivered = [i \in Slots |-> <<>>]
  /\ dead = [i \in Slots |-> FALSE]

(* A slot can die with the first packet it is given. *)
Submit(i) ==
  /\ submitted' = [submitted EXCEPT ![i] = @ + 1]
  /\ pending' = [pending EXCEPT ![i] = Append(@, submitted[i] + 1)]
  /\ \/ UNCHANGED dead
     \/ pending[i] = <<>> /\ dead' = [dead EXCEPT ![i] = TRUE]
  /\ UNCHANGED delivered

(* It can die when it turns to the next one. *)
Deliver(i) ==
  /\ ~dead[i]
  /\ pending[i] # <<>>
  /\ pending' = [pending EXCEPT ![i] = Tail(@)]
  /\ delivered' = [delivered EXCEPT ![i] = Append(@, Head(pending[i]))]
  /\ \/ UNCHANGED dead
     \/ Tail(pending[i]) # <<>> /\ dead' = [dead EXCEPT ![i] = TRUE]
  /\ UNCHANGED submitted

(* One slot, or with the process all of them, can die at any time. *)
Die ==
  /\ dead' \in [Slots -> BOOLEAN]
  /\ \A i \in Slots : dead[i] => dead'[i]
  /\ UNCHANGED <<submitted, pending, delivered>>

Next == Die \/ \E i \in Slots : Submit(i) \/ Deliver(i)

Safety == Init /\ [][Next]_vars

(* A packet that is pending on a live slot does not stay for ever. *)
Spec == Safety /\ \A i \in Slots : WF_vars(Deliver(i))
=============================================================================
