---------------------------- MODULE HeapMapping ----------------------------
(***************************************************************************)
(* init_heap of allocator.rs: the pages of the heap, and the page of the   *)
(* sentinel after it, are mapped one by one to fresh frames before the     *)
(* allocator is initialised.  Page tables that are missing on the way take *)
(* frames too.  All pages of the heap share their tables: the heap does    *)
(* not cross a 2 MiB boundary.                                             *)
(***************************************************************************)
EXTENDS Naturals, TLC

CONSTANT PAGE_SIZE \* in words

VARIABLES frames,  \* what the frame allocator has: handed out, left
          missing, \* page tables still missing
          mapped,  \* the mapped pages and their frames, numbered as handed out
          status   \* of init_heap: "mapping", "done" or "failed"

Page(w) == w \div PAGE_SIZE

\* Mutant: the page of the sentinel is left out.
page_range_exclusive(heap_size) == Page(0)..Page(heap_size) - 1

page_range(heap_size) == Page(0)..Page(heap_size)

Take(n) == [handed |-> frames.handed + n, left |-> frames.left - n]

Init(left, tables) ==
  /\ frames = [handed |-> 0, left |-> left]
  /\ missing = tables
  /\ mapped = <<>>
  /\ status = "mapping"

\* The page the loop has reached.
NextPage(heap_size, page) ==
  /\ page \notin DOMAIN mapped
  /\ \A p \in page_range(heap_size) : p < page => p \in DOMAIN mapped

\* A frame for the page, then one for each missing table.
MapPage(heap_size) ==
  /\ status = "mapping"
  /\ frames.left >= 1 + missing
  /\ \E page \in page_range(heap_size) :
       NextPage(heap_size, page) /\ mapped' = mapped @@ (page :> frames.handed)
  /\ frames' = Take(1 + missing)
  /\ missing' = 0
  /\ UNCHANGED status

\* The frames run out; what was taken is not given back.
FrameAllocationFailed(heap_size) ==
  /\ status = "mapping"
  /\ \E page \in page_range(heap_size) : NextPage(heap_size, page)
  /\ frames.left < 1 + missing
  /\ status' = "failed"
  /\ frames' = Take(frames.left)
  /\ UNCHANGED <<missing, mapped>>

\* The loop ends; the allocator is initialised next.
Mapped(heap_size) ==
  /\ status = "mapping"
  /\ page_range(heap_size) \subseteq DOMAIN mapped
  /\ status' = "done"
  /\ UNCHANGED <<frames, missing, mapped>>
=============================================================================
