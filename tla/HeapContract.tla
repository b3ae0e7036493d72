---------------------------- MODULE HeapContract ----------------------------
(***************************************************************************)
(* What GlobalAlloc promises the kernel's code about the heap: a pointer   *)
(* is aligned as asked for, its words lie in the heap and belong to no     *)
(* other allocation until it is given back.  An allocation may be refused, *)
(* which changes nothing.                                                  *)
(***************************************************************************)
EXTENDS Naturals

CONSTANTS HEAP_SIZE, Sizes, Aligns

VARIABLE live \* allocations handed out: ptr, size and align

Words(l) == l.ptr..l.ptr + l.size - 1

Layouts == [ptr : 0..HEAP_SIZE - 1, size : Sizes, align : Aligns]

Allocate(l) ==
  /\ live' = live \cup {l}
  /\ l.ptr % l.align = 0
  /\ l.ptr + l.size <= HEAP_SIZE
  /\ \A m \in live : Words(l) \cap Words(m) = {}

Free(l) == live' = live \ {l}

Init == live = {}
Next == (\E l \in Layouts : Allocate(l)) \/ (\E l \in live : Free(l))
Spec == Init /\ [][Next]_live
=============================================================================
