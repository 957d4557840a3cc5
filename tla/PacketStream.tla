---------------------------- MODULE PacketStream ----------------------------
(***************************************************************************)
(* What the framing buffer of a connection promises to its reader: the     *)
(* packets the peer sent, each once, whole and in order, until the stream  *)
(* breaks.  What a broken stream delivers is not specified.                *)
(***************************************************************************)
EXTENDS Integers, Sequences

CONSTANT Packets

VARIABLES
  sent,    \* the packets the peer has sent
  out,     \* the packets delivered
  broken   \* bytes of the stream are missing

vars == <<sent, out, broken>>

Init ==
  /\ sent = <<>>
  /\ out = <<>>
  /\ broken = FALSE

Send ==
  /\ \E p \in Packets : sent' = Append(sent, p)
  /\ UNCHANGED <<out, broken>>

Deliver ==
  /\ ~broken
  /\ Len(out) < Len(sent)
  /\ out' = Append(out, sent[Len(out) + 1])
  /\ UNCHANGED <<sent, broken>>

Break ==
  /\ broken' = TRUE
  /\ UNCHANGED <<sent, out>>

DeliverAny ==
  /\ broken
  /\ UNCHANGED <<sent, broken>>

Next == Send \/ Deliver \/ Break \/ DeliverAny

Safety == Init /\ [][Next]_vars
=============================================================================
