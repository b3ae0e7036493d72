-------------------------------- MODULE Buddy --------------------------------
(***************************************************************************)
(* The physical frame allocator of memory/buddy.rs: free blocks of 2^order *)
(* frames in one doubly linked list per order, the links kept in the first *)
(* free frame of each block, and a bitmap of the free frames.  Frames are  *)
(* numbered from the first usable one (base_phys); the contents of a frame *)
(* an owner has had is Junk.                                               *)
(***************************************************************************)
EXTENDS Integers, Sequences, FiniteSets, SequencesExt

CONSTANTS Regions,            \* usable memory regions <<start, end>>, in frames
          MAX_ORDER,
          MAX_TRACKED_FRAMES,
          NULL_LINK,          \* usize::MAX, also None
          Junk                \* memory an owner has written to

ASSUME RegionAssumption ==
  /\ Len(Regions) > 0
  /\ \A i \in DOMAIN Regions : Regions[i][1] < Regions[i][2]
  /\ \A i, j \in DOMAIN Regions : i < j => Regions[i][2] <= Regions[j][1]

Base == Min({Regions[i][1] : i \in DOMAIN Regions})
LastEnd == Max({Regions[i][2] : i \in DOMAIN Regions})

total_frames == Min({LastEnd - Base, MAX_TRACKED_FRAMES})

Frames == 0..total_frames - 1
Orders == 0..MAX_ORDER
Requests == 0..MAX_ORDER + 1

\* The frames of a region, numbered from Base and cut at total_frames.
RegionStart(r) == r[1] - Base
RegionEnd(r) == Min({r[2] - Base, total_frames})
Usable == UNION {RegionStart(r)..RegionEnd(r) - 1 : r \in Range(Regions)}

VARIABLES a,               \* the allocator: free_lists, bitmap, next and prev links
          allocated_count, \* also MONITOR.allocated_frames
          live,            \* blocks <<frame, order>> handed out
          refused          \* the order the last call answered None to, if it did

vars == <<a, allocated_count, live, refused>>
-----------------------------------------------------------------------------
(* Bitmap and free lists *)

Block(idx, order) == idx..idx + 2^order - 1

is_aligned_for_order(idx, order) == idx % 2^order = 0

is_range_free(s, start, count) ==
  start + count <= total_frames /\ start..start + count - 1 \subseteq s.bitmap

mark_range_allocated(s, idx, order) == [s EXCEPT !.bitmap = @ \ Block(idx, order)]

SetNext(s, idx, to) == [s EXCEPT !.next[idx] = to]
SetPrev(s, idx, to) == IF idx = NULL_LINK THEN s ELSE [s EXCEPT !.prev[idx] = to]

\* Mutant: the old head keeps its prev link.
insert_free_one_way(s, idx, order) ==
  LET old == s.free_lists[order]
      s1 == [s EXCEPT !.bitmap = @ \cup Block(idx, order), !.free_lists[order] = idx]
  IN  SetPrev(SetNext(s1, idx, old), idx, NULL_LINK)

\* Push a block at the head of its list.
insert_free(s, idx, order) ==
  LET old == s.free_lists[order]
      s1 == [s EXCEPT !.bitmap = @ \cup Block(idx, order), !.free_lists[order] = idx]
  IN  SetPrev(SetPrev(SetNext(s1, idx, old), idx, NULL_LINK), old, idx)

\* Take the block at the head of a list; the list is not empty.
pop_free(s, order) ==
  LET idx == s.free_lists[order]
      s1 == [s EXCEPT !.free_lists[order] = s.next[idx]]
  IN  mark_range_allocated(SetPrev(s1, s.next[idx], NULL_LINK), idx, order)

\* Unlink a block from the list of its order; the bitmap is left alone.
remove_free(s, idx, order) ==
  LET next == s.next[idx]
      prev == s.prev[idx]
      s1 == IF prev # NULL_LINK THEN SetNext(s, prev, next)
                                ELSE [s EXCEPT !.free_lists[order] = next]
  IN  SetPrev(s1, next, prev)
-----------------------------------------------------------------------------
(* BuddyAllocator::new *)

floor_log2(x) == CHOOSE k \in 0..x : 2^k <= x /\ x < 2^(k + 1)

\* Mutant: the carving does not stop at the end of the region.
CarveOrderOverrun(pos, end) ==
  Max({k \in Orders : is_aligned_for_order(pos, k)})

\* The largest order that is aligned at pos and fits before end.
CarveOrder(pos, end) ==
  Max({k \in 0..Min({MAX_ORDER, floor_log2(end - pos)}) : is_aligned_for_order(pos, k)})

\* Carve one region: the loop body runs when p is the position it has reached.
CarveRegion(s, r) ==
  LET end == RegionEnd(r)
      Body(c, p) ==
        IF p # c.pos THEN c
        ELSE [s |-> IF p \in c.s.bitmap THEN insert_free(c.s, p, CarveOrder(p, end)) ELSE c.s,
              pos |-> p + 2^CarveOrder(p, end)]
      Positions == [i \in 1..end - RegionStart(r) |-> RegionStart(r) + i - 1]
  IN  FoldLeft(Body, [s |-> s, pos |-> RegionStart(r)], Positions).s

Empty == [free_lists |-> [o \in Orders |-> NULL_LINK],
          bitmap |-> Usable,
          next |-> [f \in Frames |-> Junk],
          prev |-> [f \in Frames |-> Junk]]

Init ==
  /\ a = FoldLeft(CarveRegion, Empty, Regions)
  /\ allocated_count = 0
  /\ live = {}
  /\ refused = NULL_LINK
-----------------------------------------------------------------------------
(* Allocation *)

\* Split a block of order from, just popped, down to order to: the upper half
\* goes back to the free lists each time.
Split(s, idx, from, to) ==
  LET down[k \in to..from] ==
        IF k = from THEN s ELSE insert_free(down[k + 1], idx + 2^k, k)
  IN  down[to]

\* The owner may write to every frame of its block.
Scribble(s, idx, order) ==
  [s EXCEPT !.next = [f \in Frames |-> IF f \in Block(idx, order) THEN Junk ELSE @[f]],
            !.prev = [f \in Frames |-> IF f \in Block(idx, order) THEN Junk ELSE @[f]]]

\* The lists that can serve a request; none for an order above MAX_ORDER.
NonEmptyOrders(order) == {k \in order..MAX_ORDER : a.free_lists[k] # NULL_LINK}

\* Mutant: the search stops one order short of MAX_ORDER.
allocate_frame_order_short(order) ==
  LET found == NonEmptyOrders(order) \ {MAX_ORDER}
  IN  IF found = {}
        THEN refused' = order /\ UNCHANGED <<a, allocated_count, live>>
        ELSE LET from == Min(found)
                 idx == a.free_lists[from]
             IN  /\ a' = Scribble(Split(pop_free(a, from), idx, from, order), idx, order)
                 /\ allocated_count' = allocated_count + 2^order
                 /\ live' = live \cup {<<idx, order>>}
                 /\ refused' = NULL_LINK

allocate_frame_order(order) ==
  LET found == NonEmptyOrders(order)
  IN  IF found = {}
        THEN refused' = order /\ UNCHANGED <<a, allocated_count, live>>
        ELSE LET from == Min(found)
                 idx == a.free_lists[from]
             IN  /\ a' = Scribble(Split(pop_free(a, from), idx, from, order), idx, order)
                 /\ allocated_count' = allocated_count + 2^order
                 /\ live' = live \cup {<<idx, order>>}
                 /\ refused' = NULL_LINK
-----------------------------------------------------------------------------
(* Deallocation *)

\* idx ^ (1 << order)
BuddyOf(idx, order) ==
  IF (idx \div 2^order) % 2 = 0 THEN idx + 2^order ELSE idx - 2^order

\* Mutant: only the first frame of the buddy is tested.
CanMergeFirstFrame(s, buddy, order) == buddy < total_frames /\ buddy \in s.bitmap

CanMerge(s, buddy, order) ==
  buddy < total_frames /\ is_range_free(s, buddy, 2^order)

\* Mutant: a freed block is never merged with its buddy.
CoalesceNever(s, idx, order) == [s |-> s, idx |-> idx, order |-> order]

\* Merge upward while the buddy is free.
Coalesce(s, idx, order) ==
  LET up[k \in order..MAX_ORDER] ==
        IF k = order THEN [s |-> s, idx |-> idx, order |-> order]
        ELSE LET c == up[k - 1]
                 buddy == BuddyOf(c.idx, c.order)
             IN  IF c.order < k - 1 \/ ~CanMerge(c.s, buddy, c.order) THEN c
                 ELSE [s |-> mark_range_allocated(remove_free(c.s, buddy, c.order), buddy, c.order),
                       idx |-> Min({c.idx, buddy}),
                       order |-> k]
  IN  up[MAX_ORDER]

\* Callers give back what they were given, with the order they asked for.
deallocate_frame_order(idx, order) ==
  LET c == Coalesce(a, idx, order)
  IN  /\ a' = insert_free(c.s, c.idx, c.order)
      /\ allocated_count' = allocated_count - 2^order
      /\ live' = live \ {<<idx, order>>}
      /\ refused' = NULL_LINK

Next ==
  \/ \E order \in Requests : allocate_frame_order(order)
  \/ \E b \in live : deallocate_frame_order(b[1], b[2])

Spec == Init /\ [][Next]_vars
-----------------------------------------------------------------------------
(* Properties *)

\* The n-th node of a free list, NULL_LINK past its end.
Nth(order) ==
  LET nth[n \in 0..total_frames] ==
        IF n = 0 THEN a.free_lists[order]
        ELSE LET f == nth[n - 1] IN IF f \in Frames THEN a.next[f] ELSE f
  IN  nth

ListOf(order) == Range(Nth(order)) \ {NULL_LINK}

FreeBlocks == UNION {ListOf(order) \X {order} : order \in Orders}

\* Every list is a proper doubly linked list that ends, and never runs through
\* memory that belongs to someone else.
ListsWellFormed ==
  \A order \in Orders :
    /\ Nth(order)[total_frames] = NULL_LINK
    /\ \A f \in ListOf(order) :
         /\ f \in Frames
         /\ a.next[f] # NULL_LINK => a.prev[a.next[f]] = f
         /\ f = a.free_lists[order] <=> a.prev[f] = NULL_LINK

\* The lists are proper, and the blocks on them are aligned, disjoint and cover exactly the frames
\* the bitmap calls free: no frame is on two lists, none is lost.
ListsMatchBitmap ==
  LET free == FreeBlocks IN
  /\ ListsWellFormed
  /\ \A b \in free : is_aligned_for_order(b[1], b[2])
  /\ \A b, c \in free : b # c => Block(b[1], b[2]) \cap Block(c[1], c[2]) = {}
  /\ UNION {Block(b[1], b[2]) : b \in free} = a.bitmap

\* Two owners never share a frame, and a frame in use is neither free nor
\* outside usable memory; every usable frame is accounted for, and
\* allocated_count is the number of those in use.
NoFrameSharedOrLost ==
  /\ \A b, c \in live : b # c => Block(b[1], b[2]) \cap Block(c[1], c[2]) = {}
  /\ UNION {Block(b[1], b[2]) : b \in live} = Usable \ a.bitmap
  /\ a.bitmap \subseteq Usable
  /\ allocated_count = Cardinality(Usable \ a.bitmap)

\* Coalescing is complete: no two free buddies are left side by side.
FullyCoalesced ==
  LET free == FreeBlocks IN
  \A b \in free : b[2] < MAX_ORDER => <<BuddyOf(b[1], b[2]), b[2]>> \notin free

\* The allocator never refuses a request that free memory could satisfy, and
\* hands out only aligned free ranges.
\* (FrameStore, with the bitmap as its set of free frames.)
Store == INSTANCE FrameStore WITH free <- a.bitmap, None <- NULL_LINK
ImplementsFrameStore == Store!Spec
=============================================================================
