----------------------------- MODULE BoundedFifo -----------------------------
(***************************************************************************)
(* What ArrayQueue promises: a first-in first-out queue of bounded length  *)
(* whose operations take effect at one instant.  res[c] is the answer the  *)
(* last operation of context c has produced.                               *)
(***************************************************************************)
EXTENDS Naturals, Sequences

CONSTANTS Contexts, Values, Capacity

VARIABLES q, res

NoAnswer == <<"none">>

Init == q = <<>> /\ res = [c \in Contexts |-> NoAnswer]

Push(c, v) ==
  \/ /\ Len(q) < Capacity
     /\ q' = Append(q, v)
     /\ res' = [res EXCEPT ![c] = <<"pushed", v>>]
  \/ /\ Len(q) = Capacity
     /\ res' = [res EXCEPT ![c] = <<"rejected", v>>]
     /\ UNCHANGED q

Pop(c) ==
  \/ /\ q # <<>>
     /\ q' = Tail(q)
     /\ res' = [res EXCEPT ![c] = <<"popped", Head(q)>>]
  \/ /\ q = <<>>
     /\ res' = [res EXCEPT ![c] = <<"nothing">>]
     /\ UNCHANGED q

IsEmpty(c) ==
  /\ res' = [res EXCEPT ![c] = IF q = <<>> THEN <<"empty">> ELSE <<"not empty">>]
  /\ UNCHANGED q

\* A new operation starts; the previous answer has been used.
Begin(c) == res' = [res EXCEPT ![c] = NoAnswer] /\ UNCHANGED q

Next == \E c \in Contexts :
          Begin(c) \/ Pop(c) \/ IsEmpty(c) \/ \E v \in Values : Push(c, v)

Spec == Init /\ [][Next]_<<q, res>>
=============================================================================
