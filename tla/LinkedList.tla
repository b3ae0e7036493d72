----------------------------- MODULE LinkedList -----------------------------
(***************************************************************************)
(* The allocator of allocator/linked_list.rs: a list of free regions, kept *)
(* in the regions themselves, newest first.  An allocation takes the first *)
(* region that fits and gives its rear end back; regions never merge.      *)
(* Sizes and addresses are in words of 8 bytes, the alignment of a         *)
(* ListNode.                                                               *)
(***************************************************************************)
EXTENDS Naturals, Sequences, SequencesExt

VARIABLES regions, \* the free list: start_addr and size
          live,    \* allocations handed out: ptr, size and align
          lost     \* words in front of aligned allocations, in no region any more

LIST_NODE == 2     \* size_of::<ListNode>()

align_up(addr, align) == ((addr + align - 1) \div align) * align

ListNode(addr, size) == [start_addr |-> addr, size |-> size]
end_addr(region) == region.start_addr + region.size

\* What add_free_region asserts of a size; every address here is aligned.
CanHoldNode(size) == size >= LIST_NODE

add_free_region(list, addr, size) == <<ListNode(addr, size)>> \o list

\* Mutant: the size a layout is adjusted to may be too small for a node.
size_align_unpadded(size, align) == size

\* The size a layout is adjusted to: a multiple of the alignment that can hold
\* a ListNode when it is freed.
size_align(size, align) ==
  LET padded == align_up(size, align) IN IF padded < LIST_NODE THEN LIST_NODE ELSE padded

\* Mutant: the rear end may be too small for a node.
alloc_from_region_any(region, size, align) ==
  align_up(region.start_addr, align) + size <= end_addr(region)

\* A region serves a request if the rest of it is nothing or can hold a node.
alloc_from_region(region, size, align) ==
  LET alloc_end == align_up(region.start_addr, align) + size
  IN  /\ alloc_end <= end_addr(region)
      /\ alloc_end = end_addr(region) \/ CanHoldNode(end_addr(region) - alloc_end)

\* Indices of the regions that would do; the first is taken off the list.
find_region(size, align) ==
  {i \in DOMAIN regions : alloc_from_region(regions[i], size, align)}
-----------------------------------------------------------------------------
Init == regions = <<>> /\ live = {} /\ lost = {}

init(heap_size) ==
  /\ regions' = add_free_region(regions, 0, heap_size)
  /\ UNCHANGED <<live, lost>>

Refuse(size, align) ==
  /\ find_region(size_align(size, align), align) = {}
  /\ UNCHANGED <<regions, live, lost>>

Serve(size, align) ==
  LET need == size_align(size, align)
      found == find_region(need, align)
      i == Min(found)
      alloc_start == align_up(regions[i].start_addr, align)
      alloc_end == alloc_start + need
      excess_size == end_addr(regions[i]) - alloc_end
      rest == RemoveAt(regions, i)
  IN  /\ found # {}
      /\ regions' = IF excess_size > 0 THEN add_free_region(rest, alloc_end, excess_size)
                                       ELSE rest
      /\ live' = live \cup {[ptr |-> alloc_start, size |-> size, align |-> align]}
      /\ lost' = lost \cup regions[i].start_addr..alloc_start - 1

alloc(size, align) == Serve(size, align) \/ Refuse(size, align)

dealloc(l) ==
  /\ regions' = add_free_region(regions, l.ptr, size_align(l.size, l.align))
  /\ live' = live \ {l}
  /\ UNCHANGED lost
-----------------------------------------------------------------------------
(* Property *)

Region(l) == l.ptr..l.ptr + size_align(l.size, l.align) - 1
Free(i) == regions[i].start_addr..end_addr(regions[i]) - 1

\* Once initialised, every word of the heap is in one free region, in the part
\* of one allocation, or was lost to alignment; and every region can hold its
\* node, as add_free_region asserts.
RegionsTile(heap_size) ==
  /\ \A w \in 0..heap_size - 1 :
       LET free == {i \in DOMAIN regions : w \in Free(i)}
           used == {l \in live : w \in Region(l)}
       IN  Cardinality(free) + Cardinality(used) + (IF w \in lost THEN 1 ELSE 0) = 1
  /\ \A i \in DOMAIN regions : CanHoldNode(regions[i].size)
=============================================================================
