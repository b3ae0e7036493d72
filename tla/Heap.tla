-------------------------------- MODULE Heap --------------------------------
(***************************************************************************)
(* The kernel's heap from boot on: init_heap maps its pages, initialises   *)
(* the allocator behind Locked<A>, and alloc and dealloc calls follow, one *)
(* at a time under its lock.  The kernel is built with the TLSF allocator; *)
(* the other two offer the same interface.                                 *)
(***************************************************************************)
EXTENDS Tlsf, Sequences

CONSTANTS OTHER_HEAP_SIZE, \* of a build with one of the other allocators
          PAGE_SIZE,
          Left,      \* frames the machine may have left when init_heap runs
          Tables,    \* page tables that may be missing then
          OtherSizes, OtherAligns, \* of layouts asked of the other allocators
          MaxLive    \* allocations those hand out at a time

VARIABLES kind,     \* the allocator the kernel is built with
          regions, lost,                   \* of the linked list
          bump,                            \* of the bump allocator
          frames, missing, mapped, status  \* of init_heap

heap_vars == <<vars, kind, regions, lost, bump, frames, missing, mapped, status>>

LL == INSTANCE LinkedList
BP == INSTANCE Bump
HM == INSTANCE HeapMapping

heap_size == IF kind = "tlsf" THEN HEAP_SIZE ELSE OTHER_HEAP_SIZE

Idle(k) ==
  /\ k # "tlsf" => UNCHANGED <<t, heap_end, refused>>
  /\ k # "linked_list" => UNCHANGED <<regions, lost>>
  /\ k # "bump" => UNCHANGED bump

HeapInit ==
  /\ Init /\ LL!Init /\ BP!Init
  /\ kind \in {"tlsf", "linked_list", "bump"}
  /\ \E left \in Left, tables \in Tables : HM!Init(left, tables)

\* The loop of init_heap.
MapHeap ==
  /\ HM!MapPage(heap_size) \/ HM!FrameAllocationFailed(heap_size)
  /\ UNCHANGED <<vars, kind, regions, lost, bump>>

\* The end of init_heap.
InitAllocator ==
  /\ HM!Mapped(heap_size)
  /\ \/ kind = "tlsf" /\ init
     \/ kind = "linked_list" /\ LL!init(heap_size)
     \/ kind = "bump" /\ BP!init(heap_size)
  /\ Idle(kind) /\ UNCHANGED kind

\* Nothing is allocated while init_heap runs; after it has failed, the panic
\* message is asked for.
alloc ==
  /\ status # "mapping"
  /\ \/ /\ kind = "tlsf"
        /\ \E size \in Sizes, align \in Aligns : malloc(size, align)
     \/ /\ kind # "tlsf"
        /\ Cardinality(live) < MaxLive
        /\ \E size \in OtherSizes, align \in OtherAligns :
             \/ kind = "linked_list" /\ LL!alloc(size, align)
             \/ kind = "bump" /\ BP!alloc(size, align)
  /\ Idle(kind) /\ UNCHANGED <<kind, frames, missing, mapped, status>>

dealloc ==
  /\ \E l \in live :
       \/ kind = "tlsf" /\ free(l)
       \/ kind = "linked_list" /\ LL!dealloc(l)
       \/ kind = "bump" /\ BP!dealloc(l)
  /\ Idle(kind) /\ UNCHANGED <<kind, frames, missing, mapped, status>>

HeapNext == MapHeap \/ InitAllocator \/ alloc \/ dealloc

HeapSpec == HeapInit /\ [][HeapNext]_heap_vars
-----------------------------------------------------------------------------
(* Properties *)

\* The allocator is initialised, and memory handed out, only once every word it
\* may write, the sentinel header after the heap included, is in a mapped page
\* with a frame of its own; when frames run out it never is.
HeapMapped ==
  /\ \A p, q \in DOMAIN mapped : p # q => mapped[p] # mapped[q]
  /\ \A w \in Addresses : t.mem[w] # Junk => HM!Page(w) \in DOMAIN mapped
  /\ live # {} \/ heap_end # 0 \/ regions # <<>> \/ bump.heap_end # 0 =>
       status = "done" /\ \A w \in 0..heap_size - 1 : HM!Page(w) \in DOMAIN mapped

\* No word is lost or counted twice: TLSF's used blocks and its allocations
\* correspond, the linked list's regions and allocations tile the heap, and the
\* bump allocator counts what it handed out.
SpaceAccounted ==
  /\ kind = "tlsf" => AllocationsOwnBlocks
  /\ kind = "linked_list" /\ status = "done" => LL!RegionsTile(heap_size)
  /\ kind = "bump" => BP!CounterExact

Contract == INSTANCE HeapContract WITH
  Sizes <- Sizes \cup OtherSizes, Aligns <- Aligns \cup OtherAligns

\* Each allocator keeps what GlobalAlloc promises.
ImplementsHeapContract == Contract!Spec
=============================================================================
