------------------------------ MODULE RoundTrip ------------------------------
(***************************************************************************)
(* What a round-trip benchmark promises, whatever carries its messages:    *)
(* one message is under way at a time, each is answered once, after the    *)
(* server has it, and the time that the client prints for a message is     *)
(* that message's answer.  SharedMem keeps this over two rings and Sockets *)
(* over two streams of bytes, as long as the two sides are in step there.  *)
(***************************************************************************)
EXTENDS Naturals

VARIABLES request,  \* the message under way or with the server, or 0
          reply,    \* the message whose answer is under way, or 0
          last,     \* the answer printed last, or 0
          inStep    \* FALSE once a side is lost or the two have lost count

vars == <<request, reply, last, inStep>>

Init == request = 0 /\ reply = 0 /\ last = 0 /\ inStep \in BOOLEAN

Ask ==
  /\ request = 0 /\ reply = 0
  /\ request' = last + 1
  /\ UNCHANGED <<reply, last>>

Answer ==
  /\ request # 0
  /\ reply' = request
  /\ request' = 0
  /\ UNCHANGED last

Show ==
  /\ reply # 0
  /\ last' = reply
  /\ reply' = 0
  /\ UNCHANGED request

Next ==
  \/ inStep /\ inStep' /\ (Ask \/ Answer \/ Show)
  \/ inStep' = FALSE

Spec == Init /\ [][Next]_vars
=============================================================================
