----------------------------- MODULE FrameStore -----------------------------
(***************************************************************************)
(* What the physical frame allocator promises: an allocation hands out an  *)
(* aligned power-of-two range of free frames and fails only when there is  *)
(* none; a deallocation makes exactly those frames free again.             *)
(***************************************************************************)
EXTENDS Naturals

CONSTANTS Usable, \* the frames that may be handed out
          Orders, \* block orders on offer
          Requests, \* orders callers ask for
          None

VARIABLES free, \* frames not handed out
          live, \* blocks <<first frame, order>> handed out
          refused \* the order the last call answered None to, if it did

Range(i, order) == i..i + 2^order - 1

\* Where a block can be taken from; nowhere, for an order not on offer.
Candidates(order) ==
  {i \in Usable : /\ order \in Orders
                  /\ i % 2^order = 0
                  /\ Range(i, order) \subseteq free}

Init == free = Usable /\ live = {} /\ refused = None

Allocate(order) ==
  \/ \E i \in Candidates(order) :
       /\ free' = free \ Range(i, order)
       /\ live' = live \cup {<<i, order>>}
       /\ refused' = None
  \/ /\ Candidates(order) = {}
     /\ refused' = order
     /\ UNCHANGED <<free, live>>

Deallocate(b) ==
  /\ live' = live \ {b}
  /\ free' = free \cup Range(b[1], b[2])
  /\ refused' = None

Next ==
  \/ \E order \in Requests : Allocate(order)
  \/ \E b \in live : Deallocate(b)

Spec == Init /\ [][Next]_<<free, live, refused>>
=============================================================================
