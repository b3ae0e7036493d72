--------------------------------- MODULE Tlsf ---------------------------------
(***************************************************************************)
(* The kernel heap of allocator/tlsf.rs: blocks tile the heap, each starts *)
(* with a header (boundary tag), free blocks keep two list links after it, *)
(* and there is one list per size class with two levels of bitmaps.        *)
(*                                                                         *)
(* Memory is a function from addresses to words of 8 bytes: a header, a    *)
(* link and what an owner writes all live in the same words, so whatever   *)
(* overlaps in the heap overlaps here.  A word that no block uses any more *)
(* is Junk, like one an owner has written: nothing can be read from it.    *)
(* Every size and address the code computes is a multiple of 8, so         *)
(* counting in words loses nothing.                                        *)
(***************************************************************************)
EXTENDS Integers, FiniteSets, FiniteSetsExt, Functions

CONSTANTS HEAP_SIZE, MIN_BLOCK_SIZE, \* in words
          MIN_FL, FL_COUNT, SL_COUNT,
          Sizes, Aligns,             \* of the layouts callers ask for, in words
          NULL,                      \* None, and the null pointer
          Junk                       \* a word with no meaning to the allocator

HEADER_SIZE == 1
NODE_SIZE == 2                       \* FreeNode: prev, next

ASSUME SizeAssumption ==
  /\ MIN_BLOCK_SIZE >= HEADER_SIZE + NODE_SIZE
  /\ HEAP_SIZE >= MIN_BLOCK_SIZE
  /\ MIN_BLOCK_SIZE >= 2^MIN_FL

Addresses == 0..HEAP_SIZE            \* the sentinel header is at HEAP_SIZE
Classes == (0..FL_COUNT - 1) \X (0..SL_COUNT - 1)

VARIABLES t,        \* the allocator and the heap: mem, fl_bitmap, sl_bitmaps, free_lists
          heap_end, \* 0 until init
          live,     \* allocations handed out: ptr, size and align
          refused   \* block size the last call found nothing for, if it did

vars == <<t, heap_end, live, refused>>
-----------------------------------------------------------------------------
(* Memory and size classes *)

Forget(s, words) ==
  [s EXCEPT !.mem = [w \in Addresses |-> IF w \in words THEN Junk ELSE @[w]]]

floor_log2(x) == CHOOSE k \in 0..x : 2^k <= x /\ x < 2^(k + 1)

mapping(size) ==
  LET fl == floor_log2(size)
  IN  <<Min({Max({fl - MIN_FL, 0}), FL_COUNT - 1}),
        Min({((size - 2^fl) * SL_COUNT) \div 2^fl, SL_COUNT - 1})>>

align_up(addr, align) == ((addr + align - 1) \div align) * align

BlockHeader(prev_phys_size, size, free, prev_free) ==
  [prev_phys_size |-> prev_phys_size, size |-> size, free |-> free, prev_free |-> prev_free]
-----------------------------------------------------------------------------
(* Free lists *)

PrevOf(s, b) == s.mem[b + HEADER_SIZE]
NextOf(s, b) == s.mem[b + HEADER_SIZE + 1]
SetPrev(s, b, to) == IF b = NULL THEN s ELSE [s EXCEPT !.mem[b + HEADER_SIZE] = to]
SetNext(s, b, to) == IF b = NULL THEN s ELSE [s EXCEPT !.mem[b + HEADER_SIZE + 1] = to]

\* Push a block at the head of the list of its class.
insert(s, b, size) ==
  LET c == mapping(size)
      head == s.free_lists[c]
      s1 == SetPrev(SetNext(SetPrev(s, b, NULL), b, head), head, b)
  IN  [s1 EXCEPT !.free_lists[c] = b,
                 !.sl_bitmaps[c[1]] = @ \cup {c[2]},
                 !.fl_bitmap = @ \cup {c[1]}]

\* Mutant: emptying one second-level list clears the first-level bit as well.
remove_clears_fl(s, b) ==
  LET c == mapping(s.mem[b].size)
      prev == PrevOf(s, b)
      next == NextOf(s, b)
      s1 == SetNext(SetPrev(s, next, prev), prev, next)
  IN  IF prev # NULL THEN s1
      ELSE IF next # NULL THEN [s1 EXCEPT !.free_lists[c] = next]
      ELSE [s1 EXCEPT !.free_lists[c] = NULL,
                      !.sl_bitmaps[c[1]] = @ \ {c[2]},
                      !.fl_bitmap = @ \ {c[1]}]

\* Mutant: the node after the removed one keeps pointing back at it.
remove_one_way(s, b) ==
  LET c == mapping(s.mem[b].size)
      prev == PrevOf(s, b)
      next == NextOf(s, b)
      s1 == SetNext(s, prev, next)
      left == IF next = NULL THEN s.sl_bitmaps[c[1]] \ {c[2]} ELSE s.sl_bitmaps[c[1]]
  IN  IF prev # NULL THEN s1
      ELSE [s1 EXCEPT !.free_lists[c] = next,
                      !.sl_bitmaps[c[1]] = left,
                      !.fl_bitmap = IF left = {} THEN @ \ {c[1]} ELSE @]

\* Unlink a block; the bits of a list that becomes empty are cleared.
remove(s, b) ==
  LET c == mapping(s.mem[b].size)
      prev == PrevOf(s, b)
      next == NextOf(s, b)
      s1 == SetNext(SetPrev(s, next, prev), prev, next)
      left == IF next = NULL THEN s.sl_bitmaps[c[1]] \ {c[2]} ELSE s.sl_bitmaps[c[1]]
  IN  IF prev # NULL THEN s1
      ELSE [s1 EXCEPT !.free_lists[c] = next,
                      !.sl_bitmaps[c[1]] = left,
                      !.fl_bitmap = IF left = {} THEN @ \ {c[1]} ELSE @]

\* The class whose head block serves a request of class c, or NULL: first the
\* classes from c upward on its own level, whose head may be too small, then
\* the first non-empty class of a higher level.
find_block(s, c, needed) ==
  LET fits == {sl \in s.sl_bitmaps[c[1]] :
                 sl >= c[2] /\ s.mem[s.free_lists[<<c[1], sl>>]].size >= needed}
      higher == {fl \in s.fl_bitmap : fl > c[1]}
  IN  IF fits # {} THEN <<c[1], Min(fits)>>
      ELSE IF higher # {} THEN <<Min(higher), Min(s.sl_bitmaps[Min(higher)])>>
      ELSE NULL
-----------------------------------------------------------------------------
(* malloc *)

\* Mutant: the space for the header is forgotten.
TotalConsumedNoHeader(front_padding, size) == Max({front_padding + size, MIN_BLOCK_SIZE})

TotalConsumed(front_padding, size) ==
  Max({HEADER_SIZE + front_padding + size, MIN_BLOCK_SIZE})

\* Mutant: a remainder too small for a free block is split off.
SplitsOffHeader(block_size, total) == block_size >= total + HEADER_SIZE

Splits(block_size, total) == block_size >= total + MIN_BLOCK_SIZE

\* Mutant: the block after an unsplit allocation still thinks it is free.
TakeWholeStale(s, b) == [s EXCEPT !.mem[b].free = FALSE]

\* The unsplit block becomes used.
TakeWhole(s, b) ==
  [s EXCEPT !.mem[b].free = FALSE, !.mem[b + s.mem[b].size].prev_free = FALSE]

\* The first total words become the used block, the rest a free one.
TakeFront(s, b, total) ==
  LET rem == b + total
      rem_size == s.mem[b].size - total
      s1 == [s EXCEPT !.mem[b].size = total,
                      !.mem[b].free = FALSE,
                      !.mem[rem] = BlockHeader(total, rem_size, TRUE, FALSE),
                      !.mem[rem + rem_size].prev_phys_size = rem_size,
                      !.mem[rem + rem_size].prev_free = TRUE]
  IN  insert(s1, rem, rem_size)

\* b has just been taken off its list.  Answers the new heap and the pointer.
alloc_from(s, b, size, align) ==
  LET block_size == s.mem[b].size
      aligned_start == align_up(b + HEADER_SIZE, align)
      total == TotalConsumed(aligned_start - (b + HEADER_SIZE), size)
  IN  IF block_size < total
        THEN [s |-> insert([s EXCEPT !.mem[b].free = TRUE], b, block_size), ptr |-> NULL]
        ELSE [s |-> IF Splits(block_size, total) THEN TakeFront(s, b, total) ELSE TakeWhole(s, b),
              ptr |-> aligned_start]

\* The block size that covers the worst padding.
Needed(size, align) == Max({HEADER_SIZE + (align - HEADER_SIZE) + size, MIN_BLOCK_SIZE})

malloc(size, align) ==
  LET needed == Needed(size, align)
      c == find_block(t, mapping(needed), needed)
      b == t.free_lists[c]
      r == alloc_from(remove(t, b), b, size, align)
  IN  IF c = NULL
        THEN refused' = needed /\ UNCHANGED <<t, heap_end, live>>
      ELSE IF r.ptr = NULL
        THEN t' = r.s /\ refused' = needed /\ UNCHANGED <<heap_end, live>>
      ELSE /\ t' = Forget(r.s, b + HEADER_SIZE..b + r.s.mem[b].size - 1) \* the owner's now
           /\ live' = live \cup {[ptr |-> r.ptr, size |-> size, align |-> align]}
           /\ refused' = NULL
           /\ UNCHANGED heap_end
-----------------------------------------------------------------------------
(* free *)

\* Merge with the next block, if it is free.
ForwardCoalesce(s, b) ==
  LET next == b + s.mem[b].size
  IN  IF next < heap_end /\ s.mem[next].free
        THEN Forget([remove(s, next) EXCEPT !.mem[b].size = @ + s.mem[next].size],
                    next..next + NODE_SIZE)
        ELSE s

\* Merge with the previous block, if it is free.
BackwardCoalesce(s, b) ==
  LET h == s.mem[b]
      prev == b - h.prev_phys_size
  IN  IF h.prev_free
        THEN [s |-> Forget([remove(s, prev) EXCEPT !.mem[prev].size = h.size + h.prev_phys_size,
                                                   !.mem[prev].free = TRUE], {b}),
              b |-> prev]
        ELSE [s |-> s, b |-> b]

free(l) ==
  LET b == l.ptr - HEADER_SIZE
      c == BackwardCoalesce(ForwardCoalesce([t EXCEPT !.mem[b].free = TRUE], b), b)
      size == c.s.mem[c.b].size
      tagged == [c.s EXCEPT !.mem[c.b + size].prev_phys_size = size,
                            !.mem[c.b + size].prev_free = TRUE]
  IN  /\ t' = insert(tagged, c.b, size)
      /\ live' = live \ {l}
      /\ refused' = NULL
      /\ UNCHANGED heap_end
-----------------------------------------------------------------------------
Init ==
  /\ t = [mem |-> [w \in Addresses |-> Junk],
          fl_bitmap |-> {},
          sl_bitmaps |-> [fl \in 0..FL_COUNT - 1 |-> {}],
          free_lists |-> [c \in Classes |-> NULL]]
  /\ heap_end = 0
  /\ live = {}
  /\ refused = NULL

\* init_heap, once, some time during boot.
init ==
  /\ heap_end = 0
  /\ heap_end' = HEAP_SIZE
  /\ t' = insert([t EXCEPT !.mem[0] = BlockHeader(0, HEAP_SIZE, TRUE, FALSE),
                           !.mem[HEAP_SIZE] = BlockHeader(HEAP_SIZE, 0, FALSE, TRUE)],
                 0, HEAP_SIZE)
  /\ refused' = NULL
  /\ UNCHANGED live

Next ==
  \/ init
  \/ \E size \in Sizes, align \in Aligns : malloc(size, align)
  \/ \E l \in live : free(l)

Spec == Init /\ [][Next]_vars
-----------------------------------------------------------------------------
(* Properties *)

Header == [prev_phys_size : Addresses, size : Addresses, free : BOOLEAN, prev_free : BOOLEAN]

\* Addresses of the blocks, walked from the first header by size.
Blocks ==
  LET at[w \in Addresses] ==      \* blocks that start at or below w
        IF w = 0 THEN {0}
        ELSE LET below == at[w - 1]
                 last == Max(below)
             IN  IF last + t.mem[last].size = w THEN below \cup {w} ELSE below
  IN  IF heap_end = 0 THEN {} ELSE at[HEAP_SIZE - 1]

SizeOf(b) == t.mem[b].size
FreeBlocks == {b \in Blocks : t.mem[b].free}

\* The blocks tile the heap up to the sentinel and the boundary tags are right:
\* every header knows the size of the block before it and whether it is free, no
\* two free blocks are neighbours and none is too small for its list links.
BoundaryTags ==
  LET blocks == Blocks IN
  heap_end # 0 =>
    /\ Max(blocks) + SizeOf(Max(blocks)) = HEAP_SIZE
    /\ \A b \in blocks :
         LET next == t.mem[b + SizeOf(b)]
         IN  /\ t.mem[b] \in Header /\ SizeOf(b) >= MIN_BLOCK_SIZE
             /\ next.prev_phys_size = SizeOf(b)
             /\ next.prev_free = t.mem[b].free
             /\ ~(t.mem[b].free /\ next.free)

\* The nodes of a free list in order, NULL past the end.
Nth(c) ==
  LET nth[n \in 0..HEAP_SIZE \div MIN_BLOCK_SIZE] ==
        IF n = 0 THEN t.free_lists[c]
        ELSE LET b == nth[n - 1] IN IF b = NULL THEN NULL ELSE NextOf(t, b)
  IN  nth

ListOf(c) == Range(Nth(c)) \ {NULL}

\* The lists hold exactly the free blocks, each in the class of its size and
\* doubly linked, and the two bitmap levels say which lists are not empty.
ListsHoldFreeBlocks ==
  LET free_blocks == FreeBlocks IN
  /\ \A c \in Classes :
       /\ ListOf(c) = {b \in free_blocks : mapping(SizeOf(b)) = c}
       /\ \A b \in ListOf(c) :
            /\ NextOf(t, b) # NULL => PrevOf(t, NextOf(t, b)) = b
            /\ b = t.free_lists[c] <=> PrevOf(t, b) = NULL
       /\ c[2] \in t.sl_bitmaps[c[1]] <=> t.free_lists[c] # NULL
  /\ t.fl_bitmap = {fl \in 0..FL_COUNT - 1 : t.sl_bitmaps[fl] # {}}

\* Allocations and used blocks correspond one to one: each allocation lies,
\* aligned, inside a used block of its own, no used block is leaked, and the
\* allocator never writes to memory it has handed out.
AllocationsOwnBlocks ==
  LET used == Blocks \ FreeBlocks
      Owner(l) == {b \in used : b < l.ptr /\ l.ptr + l.size <= b + SizeOf(b)}
  IN  /\ \A l \in live : Cardinality(Owner(l)) = 1 /\ l.ptr % l.align = 0
      /\ \A l, m \in live : l # m => Owner(l) \cap Owner(m) = {}
      /\ UNION {Owner(l) : l \in live} = used
      /\ \A l \in live : \A w \in l.ptr..l.ptr + l.size - 1 : t.mem[w] = Junk

\* A refusal is justified: no free block is of a higher first-level class than
\* the request, so none is even twice as large as needed.
RefusalJustified ==
  refused # NULL => \A b \in FreeBlocks : SizeOf(b) < 2^(floor_log2(refused) + 1)

\* free is told only the pointer malloc answered: the header it finds right
\* before that pointer is the header of the block.
FreeFindsHeader == \A l \in live : l.ptr - HEADER_SIZE \in Blocks
=============================================================================
