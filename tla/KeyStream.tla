------------------------------ MODULE KeyStream ------------------------------
(***************************************************************************)
(* What the keyboard path promises its user: the scancodes the interrupt   *)
(* handler accepts are numbered 1, 2, 3, ...; the shell handles each of    *)
(* them exactly once, in that order, and never stops while one is waiting. *)
(* At most Capacity accepted scancodes wait besides the one in hand.       *)
(***************************************************************************)
EXTENDS Naturals

CONSTANTS Capacity, \* scancodes that may wait
          Limit     \* bound on the scancodes of one behaviour

VARIABLES accepted, \* number of the last scancode accepted
          handled   \* number of the last scancode handled

ksvars == <<accepted, handled>>

Init == accepted = 0 /\ handled = 0

Accept ==
  /\ accepted < Limit
  /\ accepted - handled <= Capacity
  /\ accepted' = accepted + 1
  /\ UNCHANGED handled

Handle ==
  /\ handled < accepted
  /\ handled' = handled + 1
  /\ UNCHANGED accepted

Next == Accept \/ Handle

Safety == Init /\ [][Next]_ksvars

Spec == Safety /\ WF_ksvars(Handle)
=============================================================================
