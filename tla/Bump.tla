-------------------------------- MODULE Bump --------------------------------
(***************************************************************************)
(* The allocator of allocator/bump.rs: memory is handed out from one end   *)
(* and comes back only when nothing is allocated any more.                 *)
(***************************************************************************)
EXTENDS Naturals, FiniteSets

VARIABLES bump, \* heap_end, next and allocations
          live  \* allocations handed out: ptr, size and align

align_up(addr, align) == ((addr + align - 1) \div align) * align

Init ==
  /\ bump = [heap_end |-> 0, next |-> 0, allocations |-> 0]
  /\ live = {}

init(heap_size) ==
  /\ bump' = [bump EXCEPT !.heap_end = heap_size, !.next = 0]
  /\ UNCHANGED live

alloc(size, align) ==
  LET alloc_start == align_up(bump.next, align)
      alloc_end == alloc_start + size
  IN  IF alloc_end > bump.heap_end
        THEN UNCHANGED <<bump, live>>
        ELSE /\ bump' = [bump EXCEPT !.next = alloc_end, !.allocations = @ + 1]
             /\ live' = live \cup {[ptr |-> alloc_start, size |-> size, align |-> align]}

\* Mutant: the last allocation but one resets the heap.
dealloc_early(l) ==
  /\ bump' = [bump EXCEPT !.allocations = @ - 1,
                          !.next = IF bump.allocations <= 2 THEN 0 ELSE @]
  /\ live' = live \ {l}

dealloc(l) ==
  /\ bump' = [bump EXCEPT !.allocations = @ - 1,
                          !.next = IF bump.allocations = 1 THEN 0 ELSE @]
  /\ live' = live \ {l}
-----------------------------------------------------------------------------
(* Property *)

\* The counter agrees with what is handed out, everything handed out lies below
\* next and in the heap, and all memory is back once nothing is handed out.
CounterExact ==
  /\ bump.allocations = Cardinality(live)
  /\ \A l \in live : l.ptr + l.size <= bump.next
  /\ live = {} => bump.next = 0
  /\ bump.next <= bump.heap_end
=============================================================================
