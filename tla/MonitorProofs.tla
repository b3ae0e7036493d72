---------------------------- MODULE MonitorProofs ----------------------------
(***************************************************************************)
(* For every ring size, set of allocation sizes and number of events: the  *)
(* counters, the trace and the heap agree, a snapshot is coherent wherever *)
(* interrupts and a crash fall, and a dump prints the last events.         *)
(***************************************************************************)
EXTENDS Monitor, FiniteSetTheorems, SequenceTheorems, TLAPS

-----------------------------------------------------------------------------
(* Induction *)

\* Every set of naturals has a least element.
LEMMA LeastElement ==
  ASSUME NEW T, T \subseteq Nat, T # {}
  PROVE  \E x \in T : \A y \in T : x <= y
<1> DEFINE R == {ss \in Nat \X Nat : ss[1] < ss[2]}
<1>1. IsWellFoundedOn(R, Nat)
  BY NatLessThanWellFounded, Zenon DEF OpToRel
<1>2. \A x, y \in Nat : y < x => <<y, x>> \in R
  OBVIOUS
<1> HIDE DEF R
<1>3. PICK x \in T : \A y \in T : ~(<<y, x>> \in R)
  BY <1>1, WFMin, Zenon
<1>4. ASSUME NEW y \in T PROVE x <= y
  <2>1. x \in Nat /\ y \in Nat /\ ~(<<y, x>> \in R)
    BY <1>3
  <2>2. ~(y < x)
    BY <1>2, <2>1
  <2>3. QED
    BY <2>1, <2>2
<1>5. QED
  BY <1>4, Zenon

\* Induction, on the set of the numbers for which a claim holds.
LEMMA Induction ==
  ASSUME NEW S, 0 \in S, \A n \in Nat : n \in S => n + 1 \in S
  PROVE  \A n \in Nat : n \in S
<1> DEFINE T == Nat \ S
<1>1. SUFFICES ASSUME T # {} PROVE FALSE
  OBVIOUS
<1>2. PICK x \in T : \A y \in T : x <= y
  <2>1. T \subseteq Nat
    OBVIOUS
  <2> HIDE DEF T
  <2>2. QED
    BY <1>1, <2>1, LeastElement, Zenon
<1>3. x # 0
  OBVIOUS
<1>4. x - 1 \in Nat
  BY <1>3
<1>5. x - 1 \in S
  BY <1>2, <1>4
<1>6. QED
  BY <1>4, <1>5
-----------------------------------------------------------------------------
(* Sums *)

Chosen(s) == CHOOSE x \in s : TRUE

SumAt(f, sum, s) == IF s = {} THEN 0 ELSE f[Chosen(s)] + sum[s \ {Chosen(s)}]

IsSum(sum, f, S) == sum = [s \in SUBSET S |-> SumAt(f, sum, s)]

\* The recursion by which a sum over a finite set is defined has a solution.
LEMMA SumExists ==
  ASSUME NEW S, IsFiniteSet(S), NEW f
  PROVE  \E sum : IsSum(sum, f, S)
<1> DEFINE Small(n) == {s \in SUBSET S : Cardinality(s) <= n}
           Good(n) == \E sum : sum = [s \in Small(n) |-> SumAt(f, sum, s)]
           N == {n \in Nat : Good(n)}
<1>1. \A s \in SUBSET S : IsFiniteSet(s) /\ Cardinality(s) \in Nat /\ Cardinality(s) <= Cardinality(S)
  BY FS_Subset, FS_CardinalityType
<1>2. ASSUME NEW s \in SUBSET S, s # {}
      PROVE  s \ {Chosen(s)} \in SUBSET S /\ Cardinality(s \ {Chosen(s)}) = Cardinality(s) - 1
  <2>1. Chosen(s) \in s
    BY <1>2 DEF Chosen
  <2>2. QED
    BY <1>1, <2>1, FS_RemoveElement
<1>3. 0 \in N
  <2> DEFINE sum == [s \in Small(0) |-> 0]
  <2>1. ASSUME NEW s \in Small(0) PROVE s = {}
    BY <1>1, FS_EmptySet
  <2>2. \A s \in Small(0) : SumAt(f, sum, s) = 0
    BY <2>1 DEF SumAt
  <2>3. sum = [s \in Small(0) |-> SumAt(f, sum, s)]
    BY <2>2
  <2>4. QED
    BY <2>3, Zenon
<1>4. ASSUME NEW n \in Nat, n \in N PROVE n + 1 \in N
  <2>1. PICK sum : sum = [s \in Small(n) |-> SumAt(f, sum, s)]
    BY <1>4
  <2> DEFINE more == [s \in Small(n + 1) |-> IF s \in Small(n) THEN sum[s] ELSE SumAt(f, sum, s)]
  <2>2. ASSUME NEW s \in Small(n + 1) PROVE more[s] = SumAt(f, more, s)
    <3> DEFINE r == s \ {Chosen(s)}
    <3>1. s # {} => r \in Small(n) /\ r \in Small(n + 1)
      BY <1>1, <1>2
    <3>2. s # {} => more[r] = sum[r]
      BY <3>1
    <3>3. SumAt(f, more, s) = SumAt(f, sum, s)
      BY <3>2 DEF SumAt
    <3>4. s \in Small(n) => sum[s] = SumAt(f, sum, s)
      BY <2>1
    <3>5. QED
      BY <3>3, <3>4
  <2>3. more = [s \in Small(n + 1) |-> SumAt(f, more, s)]
    BY <2>2
  <2> HIDE DEF more, Small
  <2>4. Good(n + 1)
    BY <2>3
  <2>5. n + 1 \in Nat
    OBVIOUS
  <2>6. QED
    BY <2>4, <2>5, Zenon
<1>5. Cardinality(S) \in Nat
  BY FS_CardinalityType
<1>6. Cardinality(S) \in N
  <2> HIDE DEF N
  <2>1. QED
    BY <1>3, <1>4, <1>5, Induction
<1>7. Small(Cardinality(S)) = SUBSET S
  BY <1>1
<1>8. PICK sum : sum = [s \in Small(Cardinality(S)) |-> SumAt(f, sum, s)]
  BY <1>6, Zenon
<1>9. IsSum(sum, f, S)
  BY <1>7, <1>8 DEF IsSum
<1>10. QED
  BY <1>9

\* A sum is the recursion's value at the whole set.
LEMMA SumDef ==
  ASSUME NEW S, IsFiniteSet(S), NEW f, DOMAIN f = S
  PROVE  \E sum : IsSum(sum, f, S) /\ SumFunction(f) = sum[S]
<1>1. PICK sum : IsSum(sum, f, S)
  BY SumExists
<1> DEFINE it == CHOOSE any : IsSum(any, f, S)
<1>2. IsSum(it, f, S)
  BY <1>1, Zenon
<1>3. SumFunction(f) = it[S]
  BY DEF SumFunction, SumFunctionOnSet, FoldFunctionOnSet, MapThenFoldSet, SumAt, Chosen, IsSum
<1>4. QED
  BY <1>2, <1>3, Zenon

\* A sum of integers is an integer, and changing one summand changes it by as much.
LEMMA SumChange ==
  ASSUME NEW S, IsFiniteSet(S), NEW f \in [S -> Int], NEW g \in [S -> Int],
         NEW z \in S, \A x \in S : x # z => g[x] = f[x]
  PROVE  /\ SumFunction(f) \in Int
         /\ SumFunction(g) = SumFunction(f) + (g[z] - f[z])
<1>1. PICK F : IsSum(F, f, S) /\ SumFunction(f) = F[S]
  BY SumDef
<1>2. PICK G : IsSum(G, g, S) /\ SumFunction(g) = G[S]
  BY SumDef
<1> DEFINE d == g[z] - f[z]
           Good(s) == /\ F[s] \in Int /\ G[s] \in Int
                      /\ G[s] = F[s] + (IF z \in s THEN d ELSE 0)
           N == {n \in Nat : \A s \in SUBSET S : Cardinality(s) = n => Good(s)}
<1>3. d \in Int
  OBVIOUS
<1>4. \A s \in SUBSET S : IsFiniteSet(s) /\ Cardinality(s) \in Nat
  BY FS_Subset, FS_CardinalityType
<1>5. 0 \in N
  <2>1. ASSUME NEW s \in SUBSET S, Cardinality(s) = 0 PROVE Good(s)
    <3>1. s = {}
      BY <1>4, <2>1, FS_EmptySet
    <3>2. F[s] = SumAt(f, F, s) /\ G[s] = SumAt(g, G, s)
      BY <1>1, <1>2 DEF IsSum
    <3>3. F[s] = 0 /\ G[s] = 0
      BY <3>1, <3>2 DEF SumAt
    <3>4. QED
      BY <3>1, <3>3
  <2>2. QED
    BY <2>1
<1>6. ASSUME NEW n \in Nat, n \in N PROVE n + 1 \in N
  <2>1. ASSUME NEW s \in SUBSET S, Cardinality(s) = n + 1 PROVE Good(s)
    <3> DEFINE c == Chosen(s)
               r == s \ {c}
    <3>1. s # {}
      BY <2>1, FS_EmptySet
    <3>2. c \in s
      BY <3>1 DEF Chosen
    <3>3. r \in SUBSET S /\ Cardinality(r) = n
      <4>1. r \in SUBSET S
        OBVIOUS
      <4>2. Cardinality(r) = Cardinality(s) - 1
        BY <1>4, <3>2, FS_RemoveElement
      <4>3. QED
        BY <2>1, <4>1, <4>2
    <3>4. F[s] = SumAt(f, F, s) /\ G[s] = SumAt(g, G, s)
      BY <1>1, <1>2 DEF IsSum
    <3>5. F[s] = f[c] + F[r] /\ G[s] = g[c] + G[r]
      BY <3>1, <3>4 DEF SumAt
    <3>6. Good(r)
      BY <1>6, <3>3
    <3>7. f[c] \in Int /\ g[c] \in Int /\ f[z] \in Int /\ g[z] \in Int /\ (c # z => g[c] = f[c])
      BY <3>2
    <3>8. z \in s <=> c = z \/ z \in r
      BY <3>2
    <3>9. z \in r => c # z
      OBVIOUS
    <3> HIDE DEF c, r
    <3>10. CASE c = z
      BY <3>5, <3>6, <3>7, <3>8, <3>9, <3>10
    <3>11. CASE c # z
      BY <1>3, <3>5, <3>6, <3>7, <3>8, <3>11
    <3>12. QED
      BY <3>10, <3>11
  <2>2. QED
    BY <2>1
<1>7. Cardinality(S) \in N
  <2>1. Cardinality(S) \in Nat
    BY FS_CardinalityType
  <2> HIDE DEF N
  <2>2. QED
    BY <1>5, <1>6, <2>1, Induction
<1>8. Good(S)
  BY <1>7
<1>9. QED
  BY <1>1, <1>2, <1>8

\* A sum of zeros is zero.
LEMMA SumZero ==
  ASSUME NEW S, IsFiniteSet(S), NEW f, DOMAIN f = S, \A x \in S : f[x] = 0
  PROVE  SumFunction(f) = 0
<1>1. PICK F : IsSum(F, f, S) /\ SumFunction(f) = F[S]
  BY SumDef
<1> DEFINE N == {n \in Nat : \A s \in SUBSET S : Cardinality(s) = n => F[s] = 0}
<1>2. \A s \in SUBSET S : IsFiniteSet(s) /\ Cardinality(s) \in Nat
  BY FS_Subset, FS_CardinalityType
<1>3. 0 \in N
  <2>1. ASSUME NEW s \in SUBSET S, Cardinality(s) = 0 PROVE F[s] = 0
    <3>1. s = {}
      BY <1>2, <2>1, FS_EmptySet
    <3>2. F[s] = SumAt(f, F, s)
      BY <1>1 DEF IsSum
    <3>3. QED
      BY <3>1, <3>2 DEF SumAt
  <2>2. QED
    BY <2>1
<1>4. ASSUME NEW n \in Nat, n \in N PROVE n + 1 \in N
  <2>1. ASSUME NEW s \in SUBSET S, Cardinality(s) = n + 1 PROVE F[s] = 0
    <3> DEFINE c == Chosen(s)
               r == s \ {c}
    <3>1. s # {}
      BY <2>1, FS_EmptySet
    <3>2. c \in s
      BY <3>1 DEF Chosen
    <3>3. r \in SUBSET S /\ Cardinality(r) = n
      <4>1. r \in SUBSET S
        OBVIOUS
      <4>2. Cardinality(r) = Cardinality(s) - 1
        BY <1>2, <3>2, FS_RemoveElement
      <4>3. QED
        BY <2>1, <4>1, <4>2
    <3>4. F[s] = SumAt(f, F, s)
      BY <1>1 DEF IsSum
    <3>5. F[s] = f[c] + F[r]
      BY <3>1, <3>4 DEF SumAt
    <3>6. F[r] = 0 /\ f[c] = 0
      BY <1>4, <3>2, <3>3
    <3>7. QED
      BY <3>5, <3>6
  <2>2. QED
    BY <2>1
<1>5. Cardinality(S) \in N
  <2>1. Cardinality(S) \in Nat
    BY FS_CardinalityType
  <2> HIDE DEF N
  <2>2. QED
    BY <1>3, <1>4, <2>1, Induction
<1>6. QED
  BY <1>1, <1>5
-----------------------------------------------------------------------------
(* The ring *)

\* What / and % of usize compute.
LEMMA DivMod ==
  ASSUME NEW m \in Nat \ {0}, NEW a \in Nat
  PROVE  /\ a \div m \in Nat
         /\ a % m \in 0..m - 1
         /\ a = m * (a \div m) + (a % m)
  OBVIOUS

\* A positive multiple of m is at least m.
LEMMA PositiveMultiple ==
  ASSUME NEW m \in Nat \ {0}, NEW q \in Int, 0 < m * q
  PROVE  m * q >= m
  OBVIOUS

\* Two indices less than a lap apart fall on different slots.
LEMMA ModDistinct ==
  ASSUME NEW m \in Nat \ {0}, NEW a \in Nat, NEW b \in Nat, a < b, b < a + m
  PROVE  a % m # b % m
<1> DEFINE q == b \div m - a \div m
<1>1. SUFFICES ASSUME a % m = b % m PROVE FALSE
  OBVIOUS
<1>2. q \in Int /\ b - a = m * q
  BY <1>1, DivMod
<1> HIDE DEF q
<1>3. QED
  BY <1>2, PositiveMultiple
-----------------------------------------------------------------------------
(* Where the running code is *)

\* The operations of an allocation that hold the heap's lock, and all of them.
Held == {"alloc_count", "current_add", "peak", "record_alloc", "unlock"}
AllocOps == {"malloc"} \cup Held
FreeOps == {"free", "free_count", "current_sub", "record_free"}

\* Which operation may follow which, and with which the code may end.
Follows ==
  { <<"init", "sti">>,
    <<"malloc", "alloc_count">>, <<"alloc_count", "current_add">>, <<"current_add", "peak">>,
    <<"peak", "record_alloc">>, <<"record_alloc", "unlock">>, <<"unlock", "load_irqs">>,
    <<"load_irqs", "load_heap">>, <<"load_heap", "load_ticks">>, <<"load_ticks", "dump_last">>,
    <<"dump_last", "free">>,
    <<"free", "free_count">>, <<"free_count", "current_sub">>, <<"current_sub", "record_free">> }
Ends == {"sti", "unlock", "load_ticks", "dump_last", "record_free"}

Ops == {Do("init", 0), Do("sti", 0), Do("load_irqs", 0), Do("load_heap", 0),
        Do("load_ticks", 0), Do("dump_last", 0)}
       \cup {Do(op, size) : op \in AllocOps \cup FreeOps, size \in Sizes}

\* One operation after another, each of a call with the same size.
Link(a, b) ==
  /\ <<a.op, b.op>> \in Follows
  /\ b.op \in (AllocOps \cup FreeOps) \ {"malloc", "free"} => b.size = a.size

Code(c) ==
  /\ c \in Seq(Ops)
  /\ \A i \in 1..Len(c) - 1 : Link(c[i], c[i + 1])
  /\ c # <<>> => c[Len(c)].op \in Ends

\* The operation that comes next.
At == IF todo = <<>> THEN "end" ELSE Head(todo).op
-----------------------------------------------------------------------------
(* The invariant *)

\* The ring holds the last BUFFER_SIZE events at the places of their indices.
TraceInv ==
  /\ recorded \in Seq({"alloc", "free", "interrupt"})
  /\ write_idx = Len(recorded)
  /\ DOMAIN entries = 0..BUFFER_SIZE - 1
  /\ \A i \in 0..write_idx - 1 :
       i >= write_idx - BUFFER_SIZE => entries[i % BUFFER_SIZE] = recorded[i + 1]

TypeInv ==
  /\ live \in [Sizes -> Int] /\ mallocs \in Int /\ highest \in Int
  /\ heap \in [alloc_count : Int, free_count : Int, current_allocated : Int, peak_allocated : Int]
  /\ irqs \in [timer : Nat, keyboard : Nat]
  /\ irqs.timer = timer_ticks

\* The lock is held inside an allocation; after a crash there, for ever.
LockInv ==
  /\ At \in Held => locked
  /\ locked => At \in Held \/ (crashed /\ At = "malloc")

\* Where allocations are not yet counted, and where the peak lags behind.
CountInv ==
  /\ At = "alloc_count" => mallocs = heap.alloc_count + 1
  /\ At # "alloc_count" /\ ~(At = "malloc" /\ locked) => mallocs = heap.alloc_count
  /\ At # "peak" /\ ~(At = "malloc" /\ locked) =>
       heap.current_allocated <= heap.peak_allocated

\* What a snapshot has loaded so far, and that it is coherent.
SnapInv ==
  /\ At \in AllocOps \cup {"load_irqs"} => DOMAIN snap = {}
  /\ At = "load_heap" => DOMAIN snap = {"timer", "keyboard"}
  /\ At = "load_ticks" => DOMAIN snap = {"timer", "keyboard"} \cup DOMAIN heap
  /\ "timer" \in DOMAIN snap => snap.timer \in Nat /\ snap.timer <= timer_ticks
  /\ "alloc_count" \in DOMAIN snap =>
       /\ snap.current_allocated <= snap.peak_allocated
       /\ crashed => snap.alloc_count = mallocs
  /\ "timer_ticks" \in DOMAIN snap => snap.timer <= snap.timer_ticks

\* Until a crash: what the counters, the trace and the heap still owe each other.
ExactInv ==
  ~crashed =>
    /\ heap.alloc_count - heap.free_count =
         Number(live) - (IF At = "alloc_count" THEN 1 ELSE 0) + (IF At = "free_count" THEN 1 ELSE 0)
    /\ heap.current_allocated =
         InUse(live) - (IF At \in {"alloc_count", "current_add"} THEN Size ELSE 0)
                     + (IF At \in {"free_count", "current_sub"} THEN Size ELSE 0)
    /\ InUse(live) <= highest
    /\ At \notin {"alloc_count", "current_add", "peak"} => heap.peak_allocated = highest
    /\ At \in {"alloc_count", "current_add", "peak"} =>
         highest = IF heap.peak_allocated >= InUse(live) THEN heap.peak_allocated ELSE InUse(live)

EventInv ==
  ~crashed =>
    /\ Recorded("alloc") =
         heap.alloc_count - (IF At \in {"current_add", "peak", "record_alloc"} THEN 1 ELSE 0)
    /\ Recorded("free") =
         heap.free_count - (IF At \in {"current_sub", "record_free"} THEN 1 ELSE 0)
    /\ Recorded("interrupt") = timer_ticks
    /\ ~initialized => At = "init"

MonInv ==
  /\ Code(todo) /\ TraceInv /\ TypeInv /\ LockInv /\ CountInv /\ SnapInv
  /\ ExactInv /\ EventInv
-----------------------------------------------------------------------------
(* The trace *)

\* record keeps the ring in order and adds one event of its kind.
LEMMA RecordKeeps ==
  ASSUME TraceAssumption, TraceInv, NEW e \in {"alloc", "free", "interrupt"}, record(e)
  PROVE  /\ TraceInv'
         /\ \A x : Recorded(x)' = IF x = e THEN Recorded(x) + 1 ELSE Recorded(x)
         /\ \A x : Recorded(x) \in Nat
<1> DEFINE n == Len(recorded)
           Kinds == {"alloc", "free", "interrupt"}
<1>1. /\ recorded \in Seq(Kinds) /\ write_idx = n /\ n \in Nat
      /\ recorded' = Append(recorded, e) /\ write_idx' = n + 1
      /\ entries' = [entries EXCEPT ![n % BUFFER_SIZE] = e]
      /\ BUFFER_SIZE \in Nat \ {0}
  BY DEF TraceInv, record, Slot, TraceAssumption
<1>2. /\ recorded' \in Seq(Kinds) /\ Len(recorded') = n + 1
      /\ \A i \in 1..n : recorded'[i] = recorded[i]
      /\ recorded'[n + 1] = e
  BY <1>1, AppendProperties
<1>3. n % BUFFER_SIZE \in 0..BUFFER_SIZE - 1
  BY <1>1, DivMod, Zenon
<1>4. DOMAIN entries' = 0..BUFFER_SIZE - 1
  BY <1>1 DEF TraceInv
<1>5. ASSUME NEW i \in 0..n, i >= n + 1 - BUFFER_SIZE
      PROVE  entries'[i % BUFFER_SIZE] = recorded'[i + 1]
  <2>0. i \in Nat
    BY <1>1
  <2>1. i % BUFFER_SIZE \in 0..BUFFER_SIZE - 1 /\ i \in Nat
    BY <1>1, <2>0, DivMod, Zenon
  <2>2. CASE i = n
    BY <1>1, <1>2, <1>3, <2>2 DEF TraceInv
  <2>3. CASE i # n
    <3>1. i < n /\ n < i + BUFFER_SIZE /\ i \in 0..n - 1 /\ i >= n - BUFFER_SIZE /\ i + 1 \in 1..n
      BY <1>1, <1>5, <2>3
    <3>2. i % BUFFER_SIZE # n % BUFFER_SIZE
      BY <1>1, <2>1, <3>1, ModDistinct, Zenon
    <3>3. entries'[i % BUFFER_SIZE] = entries[i % BUFFER_SIZE]
      BY <1>1, <2>1, <3>2 DEF TraceInv
    <3>4. entries[i % BUFFER_SIZE] = recorded[i + 1]
      BY <1>1, <3>1 DEF TraceInv
    <3>5. QED
      BY <1>2, <3>1, <3>3, <3>4
  <2>4. QED
    BY <2>2, <2>3
<1>6. (n + 1) - 1 = n
  BY <1>1
<1>7. TraceInv'
  BY <1>1, <1>2, <1>4, <1>5, <1>6 DEF TraceInv
<1>8. ASSUME NEW x
      PROVE  /\ Recorded(x)' = IF x = e THEN Recorded(x) + 1 ELSE Recorded(x)
             /\ Recorded(x) \in Nat
  <2> DEFINE Old == {i \in DOMAIN recorded : recorded[i] = x}
             New == {i \in DOMAIN recorded' : recorded'[i] = x}
  <2>1. DOMAIN recorded = 1..n /\ DOMAIN recorded' = 1..n + 1
    BY <1>1, <1>2, LenProperties
  <2>2. IsFiniteSet(1..n)
    BY <1>1, FS_Interval
  <2>3. Old \in SUBSET (1..n)
    BY <2>1
  <2>4. IsFiniteSet(Old) /\ n + 1 \notin Old
    BY <1>1, <2>2, <2>3, FS_Subset
  <2>5. Cardinality(Old) \in Nat
    BY <2>4, FS_CardinalityType
  <2>6. New = IF x = e THEN Old \cup {n + 1} ELSE Old
    BY <1>1, <1>2, <2>1
  <2> HIDE DEF New, Old, n
  <2>7. Cardinality(New) = IF x = e THEN Cardinality(Old) + 1 ELSE Cardinality(Old)
    BY <2>4, <2>6, FS_AddElement
  <2>8. QED
    BY <2>5, <2>7 DEF Recorded, New, Old
<1>9. QED
  BY <1>7, <1>8

\* Only record writes the ring.
LEMMA TraceFrame ==
  ASSUME TraceInv, UNCHANGED <<entries, write_idx, recorded>>
  PROVE  TraceInv' /\ \A x : Recorded(x)' = Recorded(x)
  BY DEF TraceInv, Recorded

\* In the order of the indices the slots hold the last events.
LEMMA DumpIsLast ==
  ASSUME TraceAssumption, TraceInv, NEW n \in Requests, n <= BUFFER_SIZE, dump_last(n)
  PROVE  dump' = Last(n, recorded)
<1> DEFINE len == Len(recorded)
           start == Start(n)
           Kinds == {"alloc", "free", "interrupt"}
<1>1. /\ recorded \in Seq(Kinds) /\ write_idx = len /\ len \in Nat /\ n \in Nat
      /\ BUFFER_SIZE \in Nat \ {0}
      /\ \A i \in 1..len : recorded[i] \in Kinds
  BY DEF TraceInv, TraceAssumption
<1>2. start = IF len >= n THEN len - n ELSE 0
  BY <1>1 DEF Start
<1>3. dump' = [k \in 1..len - start |-> entries[(start + k - 1) % BUFFER_SIZE]]
  BY <1>1 DEF dump_last
<1>4. Last(n, recorded) = SubSeq(recorded, start + 1, len)
  BY <1>1, <1>2 DEF Last
<1> HIDE DEF start, len
<1>5. start \in Nat /\ start <= len /\ start >= len - BUFFER_SIZE
  BY <1>1, <1>2
<1>6. ASSUME NEW k \in 1..len - start
      PROVE  entries[(start + k - 1) % BUFFER_SIZE] = recorded[start + k]
  <2>1. /\ start + k - 1 \in 0..len - 1 /\ start + k - 1 >= len - BUFFER_SIZE
        /\ (start + k - 1) + 1 = start + k
    BY <1>1, <1>5
  <2>2. \A i \in 0..len - 1 : i >= len - BUFFER_SIZE => entries[i % BUFFER_SIZE] = recorded[i + 1]
    BY <1>1, Zenon DEF TraceInv
  <2>3. QED
    BY <2>1, <2>2
<1>7. dump' = [k \in 1..len - start |-> recorded[start + k]]
  BY <1>3, <1>6
<1>8. SubSeq(recorded, start + 1, len) = [k \in 1..len - start |-> recorded[start + k]]
  <2> DEFINE sub == SubSeq(recorded, start + 1, len)
  <2>1. \A i \in start + 1..len : recorded[i] \in Kinds
    BY <1>1, <1>5
  <2>2. start + 1 \in Int /\ len \in Int
    BY <1>1, <1>5
  <2>3. /\ sub \in Seq(Kinds)
        /\ Len(sub) = IF start + 1 <= len THEN len - (start + 1) + 1 ELSE 0
        /\ \A i \in 1..len - (start + 1) + 1 : sub[i] = recorded[start + 1 + i - 1]
    <3> HIDE DEF Kinds
    <3>1. QED
      BY <2>1, <2>2, SubSeqProperties
  <2>4. Len(sub) = len - start /\ len - (start + 1) + 1 = len - start
    BY <1>1, <1>5, <2>3
  <2>5. \A i \in 1..len - start : sub[i] = recorded[start + i]
    <3>1. ASSUME NEW i \in 1..len - start PROVE sub[i] = recorded[start + i]
      <4>1. start + 1 + i - 1 = start + i
        BY <1>1, <1>5
      <4>2. QED
        BY <2>3, <2>4, <4>1
    <3>2. QED
      BY <3>1, Zenon
  <2>6. sub = [k \in 1..Len(sub) |-> sub[k]]
    BY <2>3, LenProperties
  <2>7. QED
    BY <2>4, <2>5, <2>6, Zenon
<1>9. QED
  BY <1>4, <1>7, <1>8
-----------------------------------------------------------------------------
(* The control of the running code *)

\* Executing an operation leaves the rest of the code, which goes on with the
\* operation that follows it.
LEMMA ExecuteSteps ==
  ASSUME Code(todo), NEW op, Execute(op)
  PROVE  /\ Code(todo)' /\ At = op /\ Head(todo) \in Ops /\ Head(todo).op = op
         /\ \/ At' = "end" /\ op \in Ends
            \/ /\ <<op, At'>> \in Follows
               /\ At' \in (AllocOps \cup FreeOps) \ {"malloc", "free"} => Size' = Size
<1>1. todo \in Seq(Ops) /\ todo # <<>> /\ todo' = Tail(todo) /\ Head(todo).op = op
  BY DEF Code, Execute
<1>2. /\ Head(todo) \in Ops /\ todo' \in Seq(Ops) /\ Len(todo') = Len(todo) - 1
      /\ \A i \in 1..Len(todo') : todo'[i] = todo[i + 1]
  BY <1>1, HeadTailProperties
<1>3. Len(todo) \in Nat \ {0} /\ Head(todo) = todo[1]
  BY <1>1, EmptySeq
<1>4. At = op
  BY <1>1 DEF At
<1>5. ASSUME NEW i \in 1..Len(todo') - 1 PROVE Link(todo'[i], todo'[i + 1])
  <2>1. i \in 1..Len(todo') /\ i + 1 \in 1..Len(todo') /\ i + 1 \in 1..Len(todo) - 1
    BY <1>2, <1>3
  <2>2. todo'[i] = todo[i + 1] /\ todo'[i + 1] = todo[(i + 1) + 1]
    BY <1>2, <2>1
  <2>3. Link(todo[i + 1], todo[(i + 1) + 1])
    BY <2>1 DEF Code
  <2>4. QED
    BY <2>2, <2>3
<1>6. CASE todo' = <<>>
  <2>1. Len(todo) = 1
    BY <1>2, <1>3, <1>6
  <2>2. op \in Ends
    BY <1>1, <1>3, <2>1 DEF Code
  <2>3. At' = "end"
    BY <1>6 DEF At
  <2>4. Code(todo)'
    BY <1>2, <1>5, <1>6 DEF Code
  <2>5. QED
    BY <1>1, <1>2, <1>4, <2>2, <2>3, <2>4
<1>7. CASE todo' # <<>>
  <2>1. Len(todo') \in Nat \ {0} /\ Head(todo') = todo'[1]
    BY <1>2, <1>7, EmptySeq
  <2>2. 1 \in 1..Len(todo) - 1 /\ 1 \in 1..Len(todo') /\ Len(todo') \in 1..Len(todo')
        /\ Len(todo') + 1 = Len(todo)
    BY <1>2, <1>3, <2>1
  <2>3. Link(Head(todo), Head(todo'))
    BY <1>2, <1>3, <2>1, <2>2 DEF Code
  <2>4. At' = Head(todo').op
    BY <1>7 DEF At
  <2>5. <<op, At'>> \in Follows
    BY <1>1, <2>3, <2>4, Zenon DEF Link
  <2>6. At' \in (AllocOps \cup FreeOps) \ {"malloc", "free"} => Size' = Size
    BY <2>3, <2>4 DEF Link, Size
  <2>7. todo'[Len(todo')].op \in Ends
    BY <1>1, <1>2, <2>2 DEF Code
  <2>8. Code(todo)'
    BY <1>2, <1>5, <1>7, <2>7 DEF Code
  <2>9. QED
    BY <1>1, <1>2, <1>4, <2>5, <2>6, <2>8
<1>8. QED
  BY <1>6, <1>7

\* Code after code is code, if the second's first operation may follow the first's last.
LEMMA CodeAfterCode ==
  ASSUME NEW c, NEW d, Code(c), Code(d), c # <<>>, d # <<>>, Link(c[Len(c)], d[1])
  PROVE  Code(c \o d) /\ c \o d # <<>> /\ (c \o d)[1] = c[1] /\ (c \o d)[Len(c \o d)] = d[Len(d)]
<1> DEFINE e == c \o d
<1>1. c \in Seq(Ops) /\ d \in Seq(Ops) /\ Len(c) \in Nat \ {0} /\ Len(d) \in Nat \ {0}
  BY EmptySeq DEF Code
<1>2. /\ e \in Seq(Ops) /\ Len(e) = Len(c) + Len(d)
      /\ \A i \in 1..Len(c) + Len(d) : e[i] = IF i <= Len(c) THEN c[i] ELSE d[i - Len(c)]
  BY <1>1, ConcatProperties
<1> HIDE DEF e
<1>3. e[1] = c[1] /\ e[Len(e)] = d[Len(d)] /\ e # <<>>
  BY <1>1, <1>2
<1>4. ASSUME NEW i \in 1..Len(e) - 1 PROVE Link(e[i], e[i + 1])
  <2>1. i \in 1..Len(c) + Len(d) /\ i + 1 \in 1..Len(c) + Len(d)
    BY <1>1, <1>2
  <2>2. CASE i < Len(c)
    <3>1. i \in 1..Len(c) - 1 /\ i <= Len(c) /\ i + 1 <= Len(c)
      BY <1>1, <2>1, <2>2
    <3>2. QED
      BY <1>2, <2>1, <3>1 DEF Code
  <2>3. CASE i = Len(c)
    <3>1. ~(i + 1 <= Len(c)) /\ (i + 1) - Len(c) = 1
      BY <1>1, <2>3
    <3>2. QED
      BY <1>2, <2>1, <2>3, <3>1
  <2>4. CASE i > Len(c)
    <3> DEFINE j == i - Len(c)
    <3>1. /\ ~(i <= Len(c)) /\ ~(i + 1 <= Len(c)) /\ (i + 1) - Len(c) = j + 1
          /\ j \in 1..Len(d) - 1
      BY <1>1, <1>2, <2>1, <2>4
    <3> HIDE DEF j
    <3>2. e[i] = d[j] /\ e[i + 1] = d[j + 1]
      BY <1>2, <2>1, <3>1 DEF j
    <3>3. QED
      BY <3>1, <3>2 DEF Code
  <2>5. QED
    BY <1>1, <2>1, <2>2, <2>3, <2>4
<1>5. Code(e)
  BY <1>2, <1>3, <1>4 DEF Code
<1>6. QED
  BY <1>3, <1>5 DEF e

\* What the kernel executes is code.
LEMMA CodesAreCode ==
  ASSUME MonitorAssumption
  PROVE  /\ \A s \in Sizes : Code(alloc(s)) /\ alloc(s) # <<>> /\ Head(alloc(s)) = Do("malloc", s)
         /\ \A s \in Sizes : Code(dealloc(s)) /\ dealloc(s) # <<>> /\ Head(dealloc(s)) = Do("free", s)
         /\ Code(snapshot) /\ snapshot # <<>> /\ Head(snapshot) = Do("load_irqs", 0)
         /\ Code(<<Do("dump_last", 0)>>)
         /\ Code(panic) /\ panic # <<>> /\ Head(panic) = Do("malloc", Message)
         /\ Code(<<Do("init", 0), Do("sti", 0)>>)
<1>1. ASSUME NEW s \in Sizes
      PROVE  /\ Code(alloc(s)) /\ alloc(s) # <<>>
             /\ alloc(s)[1] = Do("malloc", s) /\ alloc(s)[Len(alloc(s))] = Do("unlock", s)
  <2>1. /\ alloc(s) \in Seq(Ops) /\ Len(alloc(s)) = 6
        /\ alloc(s)[1] = Do("malloc", s) /\ alloc(s)[2] = Do("alloc_count", s)
        /\ alloc(s)[3] = Do("current_add", s) /\ alloc(s)[4] = Do("peak", s)
        /\ alloc(s)[5] = Do("record_alloc", s) /\ alloc(s)[6] = Do("unlock", s)
    BY DEF alloc, Ops, AllocOps, Held, FreeOps
  <2>2. \A i \in 1..5 : Link(alloc(s)[i], alloc(s)[i + 1])
    BY <2>1 DEF Link, Follows, Do
  <2>3. alloc(s)[6].op \in Ends
    BY <2>1 DEF Ends, Do
  <2>4. \A i \in 1..Len(alloc(s)) - 1 : Link(alloc(s)[i], alloc(s)[i + 1])
    BY <2>1, <2>2
  <2>5. Code(alloc(s))
    BY <2>1, <2>3, <2>4 DEF Code
  <2>6. alloc(s) # <<>>
    BY DEF alloc
  <2>7. alloc(s)[Len(alloc(s))] = Do("unlock", s)
    BY <2>1
  <2>8. QED
    BY <2>1, <2>5, <2>6, <2>7, Zenon
<1>2. ASSUME NEW s \in Sizes
      PROVE  /\ Code(dealloc(s)) /\ dealloc(s) # <<>>
             /\ dealloc(s)[1] = Do("free", s)
  <2>1. /\ dealloc(s) \in Seq(Ops) /\ Len(dealloc(s)) = 4
        /\ dealloc(s)[1] = Do("free", s) /\ dealloc(s)[2] = Do("free_count", s)
        /\ dealloc(s)[3] = Do("current_sub", s) /\ dealloc(s)[4] = Do("record_free", s)
    BY DEF dealloc, Ops, AllocOps, Held, FreeOps
  <2>2. \A i \in 1..3 : Link(dealloc(s)[i], dealloc(s)[i + 1])
    BY <2>1 DEF Link, Follows, Do
  <2>3. dealloc(s)[4].op \in Ends
    BY <2>1 DEF Ends, Do
  <2>4. QED
    BY <2>1, <2>2, <2>3 DEF Code
<1>3. /\ Code(snapshot) /\ snapshot # <<>>
      /\ snapshot[1] = Do("load_irqs", 0) /\ snapshot[Len(snapshot)] = Do("load_ticks", 0)
  <2>1. /\ snapshot \in Seq(Ops) /\ Len(snapshot) = 3
        /\ snapshot[1] = Do("load_irqs", 0) /\ snapshot[2] = Do("load_heap", 0)
        /\ snapshot[3] = Do("load_ticks", 0)
    BY DEF snapshot, Ops
  <2>2. \A i \in 1..2 : Link(snapshot[i], snapshot[i + 1])
    BY <2>1 DEF Link, Follows, Do, AllocOps, Held, FreeOps
  <2>3. snapshot[3].op \in Ends
    BY <2>1 DEF Ends, Do
  <2>4. QED
    BY <2>1, <2>2, <2>3 DEF Code
<1>4. LET c == <<Do("dump_last", 0)>> IN Code(c) /\ c # <<>> /\ c[1] = Do("dump_last", 0) /\ c[Len(c)] = c[1]
  BY DEF Code, Ops, Ends, Do
<1>5. Code(<<Do("init", 0), Do("sti", 0)>>)
  <2> DEFINE c == <<Do("init", 0), Do("sti", 0)>>
  <2>1. c \in Seq(Ops) /\ Len(c) = 2 /\ c[1] = Do("init", 0) /\ c[2] = Do("sti", 0)
    BY DEF Ops
  <2> HIDE DEF c
  <2>2. Link(c[1], c[2]) /\ c[2].op \in Ends
    BY <2>1 DEF Link, Follows, Do, AllocOps, Held, FreeOps, Ends
  <2>3. Code(c)
    BY <2>1, <2>2 DEF Code
  <2>4. QED
    BY <2>3 DEF c
<1>6. Code(panic) /\ panic # <<>> /\ panic[1] = Do("malloc", Message)
  <2> DEFINE a == alloc(Message)
             b == snapshot
             c == <<Do("dump_last", 0)>>
             d == dealloc(Message)
  <2>1. Message \in Sizes
    BY DEF MonitorAssumption
  <2>2. Link(a[Len(a)], b[1]) /\ Link(b[Len(b)], c[1]) /\ Link(c[Len(c)], d[1])
    <3>1. a[Len(a)] = Do("unlock", Message) /\ d[1] = Do("free", Message)
      BY <1>1, <1>2, <2>1
    <3>2. Link(Do("unlock", Message), Do("load_irqs", 0))
      BY DEF Link, Follows, Do, AllocOps, Held, FreeOps
    <3>3. Link(Do("load_ticks", 0), Do("dump_last", 0))
      BY DEF Link, Follows, Do, AllocOps, Held, FreeOps
    <3>4. Link(Do("dump_last", 0), Do("free", Message))
      BY DEF Link, Follows, Do, AllocOps, Held, FreeOps
    <3>5. QED
      BY <1>3, <1>4, <3>1, <3>2, <3>3, <3>4
  <2>3. /\ Code(a) /\ a # <<>> /\ a[1] = Do("malloc", Message) /\ Code(b) /\ b # <<>>
        /\ Code(c) /\ c # <<>> /\ Code(d) /\ d # <<>>
    BY <1>1, <1>2, <1>3, <1>4, <2>1
  <2> HIDE DEF a, b, c, d
  <2>4. Code(a \o b) /\ a \o b # <<>> /\ (a \o b)[1] = a[1] /\ (a \o b)[Len(a \o b)] = b[Len(b)]
    BY <2>2, <2>3, CodeAfterCode
  <2> DEFINE ab == a \o b
  <2>5. Code(ab) /\ ab # <<>> /\ ab[1] = a[1] /\ ab[Len(ab)] = b[Len(b)]
    BY <2>4
  <2> HIDE DEF ab
  <2>6. /\ Code(ab \o c) /\ ab \o c # <<>> /\ (ab \o c)[1] = ab[1]
        /\ (ab \o c)[Len(ab \o c)] = c[Len(c)]
    BY <2>2, <2>3, <2>5, CodeAfterCode
  <2> DEFINE abc == ab \o c
  <2>7. Code(abc) /\ abc # <<>> /\ abc[1] = ab[1] /\ abc[Len(abc)] = c[Len(c)]
    BY <2>6
  <2> HIDE DEF abc
  <2>8. Code(abc \o d) /\ abc \o d # <<>> /\ (abc \o d)[1] = abc[1]
    BY <2>2, <2>3, <2>7, CodeAfterCode
  <2>9. panic = abc \o d
    BY DEF panic, abc, ab, a, b, c, d
  <2>10. QED
    BY <2>3, <2>5, <2>7, <2>8, <2>9
<1>7. \A c : Code(c) /\ c # <<>> => Head(c) = c[1]
  BY DEF Code
<1>8. QED
  BY <1>1, <1>2, <1>3, <1>4, <1>5, <1>6, <1>7
-----------------------------------------------------------------------------
(* What steps have in common *)

\* The memory in use and the number of allocations are integers, and one more or
\* less of a size changes them by that size and by one.
LEMMA LiveChange ==
  ASSUME MonitorAssumption, live \in [Sizes -> Int], NEW z \in Sizes, NEW d \in {-1, 1},
         live' = [live EXCEPT ![z] = @ + d]
  PROVE  /\ live' \in [Sizes -> Int]
         /\ InUse(live) \in Int /\ InUse(live') = InUse(live) + d * z
         /\ Number(live) \in Int /\ Number(live') = Number(live) + d
<1> DEFINE f == [s \in Sizes |-> s * live[s]]
           g == [s \in Sizes |-> s * live'[s]]
<1>1. live' \in [Sizes -> Int] /\ live'[z] = live[z] + d /\ \A s \in Sizes : s # z => live'[s] = live[s]
  OBVIOUS
<1>2. IsFiniteSet(Sizes) /\ Sizes \subseteq Nat
  BY DEF MonitorAssumption
<1>3. f \in [Sizes -> Int] /\ g \in [Sizes -> Int] /\ \A s \in Sizes : s # z => g[s] = f[s]
  BY <1>1, <1>2
<1>4. g[z] - f[z] = d * z
  <2> DEFINE n == live[z]
  <2>1. n \in Int /\ z \in Int /\ f[z] = z * n /\ g[z] = z * (n + d)
    BY <1>1, <1>2
  <2> HIDE DEF n, f, g
  <2>2. QED
    BY <2>1
<1> HIDE DEF f, g
<1>z. z \in Sizes
  OBVIOUS
<1>s. IsFiniteSet(Sizes)
  BY <1>2
<1>l. live \in [Sizes -> Int]
  OBVIOUS
<1>5. SumFunction(f) \in Int /\ SumFunction(g) = SumFunction(f) + (g[z] - f[z])
  BY ONLY <1>s, <1>3, <1>z, SumChange
<1>6. SumFunction(live) \in Int /\ SumFunction(live') = SumFunction(live) + (live'[z] - live[z])
  BY ONLY <1>1, <1>s, <1>z, <1>l, SumChange
<1>7. InUse(live) = SumFunction(f) /\ InUse(live') = SumFunction(g)
  BY DEF InUse, f, g
<1>8. live'[z] - live[z] = d
  BY <1>1
<1>9. QED
  BY <1>1, <1>4, <1>5, <1>6, <1>7, <1>8 DEF Number

\* They are integers.
LEMMA LiveType ==
  ASSUME MonitorAssumption, live \in [Sizes -> Int]
  PROVE  InUse(live) \in Int /\ Number(live) \in Int
<1> DEFINE f == [s \in Sizes |-> s * live[s]]
<1>1. IsFiniteSet(Sizes) /\ Sizes \subseteq Nat /\ Message \in Sizes
  BY DEF MonitorAssumption
<1>2. f \in [Sizes -> Int]
  BY <1>1
<1> HIDE DEF f
<1>3. SumFunction(f) \in Int /\ SumFunction(live) \in Int
  BY <1>1, <1>2, SumChange, Zenon
<1>4. QED
  BY <1>3 DEF InUse, Number, f

\* They depend on the allocations only.
LEMMA LiveFrame ==
  /\ InUse(live)' = InUse(live') /\ Number(live)' = Number(live')
  /\ live' = live => InUse(live)' = InUse(live) /\ Number(live)' = Number(live)
  BY DEF InUse, Number

\* Operations before and after which nothing is owed.
Even == {"end", "init", "sti", "malloc", "unlock", "load_irqs", "load_heap", "load_ticks",
         "dump_last", "free"}

\* A step of the code that changes no counter.
LEMMA QuietStep ==
  ASSUME MonInv, At \in Even, At' \in Even, At # "malloc", At' = "malloc" => ~locked',
         At = "init" => initialized', initialized => initialized',
         UNCHANGED <<crashed, live, mallocs, highest, heap, irqs, timer_ticks>>,
         UNCHANGED <<entries, write_idx, recorded>>
  PROVE  TraceInv' /\ TypeInv' /\ CountInv' /\ ExactInv' /\ EventInv'
<1> USE DEF MonInv
<1>1. TraceInv' /\ \A x : Recorded(x)' = Recorded(x)
  BY TraceFrame
<1>2. TypeInv'
  BY DEF TypeInv
<1>3. CountInv'
  BY DEF CountInv, Even
<1>4. InUse(live)' = InUse(live) /\ Number(live)' = Number(live)
  BY LiveFrame
<1>5. ExactInv'
  BY <1>4 DEF ExactInv, Even, TypeInv
<1>6. EventInv'
  BY <1>1 DEF EventInv, Even
<1>7. QED
  BY <1>1, <1>2, <1>3, <1>5, <1>6

\* A step that leaves the snapshot alone.
LEMMA SnapFrame ==
  ASSUME SnapInv, UNCHANGED <<snap, crashed>>, DOMAIN heap' = DOMAIN heap,
         timer_ticks \in Nat, timer_ticks' \in Nat, timer_ticks <= timer_ticks',
         mallocs' = mallocs \/ At = "malloc",
         At' \in AllocOps \cup {"load_irqs"} => At \in AllocOps \cup {"load_irqs"},
         At' = At \/ At' \notin {"load_heap", "load_ticks"}
  PROVE  SnapInv'
<1>1. At = "malloc" => DOMAIN snap = {}
  BY DEF SnapInv, AllocOps
<1>2. QED
  BY <1>1 DEF SnapInv
-----------------------------------------------------------------------------
(* The steps *)

\* The first code is the boot's.
LEMMA InitEstablishes ==
  ASSUME TraceAssumption, MonitorAssumption, MonitorInit PROVE MonInv
<1> USE DEF MonitorInit, Init
<1>1. Code(todo)
  BY CodesAreCode
<1>2. At = "init"
  BY DEF At, Do
<1>3. TraceInv
  BY EmptySeq DEF TraceInv, TraceAssumption
<1>4. TypeInv
  BY DEF TypeInv
<1>5. LockInv /\ CountInv /\ SnapInv
  BY <1>2 DEF LockInv, CountInv, SnapInv, Held, AllocOps
<1>6. \A x : Recorded(x) = 0
  <2>1. \A x : {i \in DOMAIN recorded : recorded[i] = x} = {}
    OBVIOUS
  <2>2. QED
    BY <2>1, FS_EmptySet DEF Recorded
<1>7. Number(live) = 0
  BY SumZero, Zenon DEF Number, MonitorAssumption
<1>8. InUse(live) = 0
  <2> DEFINE f == [s \in Sizes |-> s * live[s]]
  <2>1. DOMAIN f = Sizes /\ \A s \in Sizes : f[s] = 0
    BY DEF MonitorAssumption
  <2> HIDE DEF f
  <2>2. SumFunction(f) = 0
    BY <2>1, SumZero DEF MonitorAssumption
  <2>3. QED
    BY <2>2 DEF InUse, f
<1>9. ExactInv
  BY <1>2, <1>7, <1>8 DEF ExactInv
<1>10. EventInv
  BY <1>2, <1>6 DEF EventInv
<1>11. QED
  BY <1>1, <1>3, <1>4, <1>5, <1>9, <1>10 DEF MonInv

\* trace::init.
LEMMA TraceInitKeeps == ASSUME MonInv, TraceInit PROVE MonInv'
<1>1. Code(todo)' /\ At = "init" /\ At' = "sti"
  BY ExecuteSteps DEF MonInv, TraceInit, Follows, Ends
<1>2. TraceInv' /\ TypeInv' /\ CountInv' /\ ExactInv' /\ EventInv'
  BY <1>1, QuietStep DEF TraceInit, Execute, init, heapVars, irqVars, Even
<1>3. LockInv'
  BY <1>1 DEF MonInv, LockInv, TraceInit, Execute, heapVars, Held
<1>4. SnapInv'
  BY <1>1, SnapFrame DEF MonInv, TraceInit, Execute, heapVars, irqVars, AllocOps, Held, TypeInv
<1>5. QED
  BY <1>1, <1>2, <1>3, <1>4 DEF MonInv

\* The interrupt flag is set.
LEMMA StiKeeps == ASSUME MonInv, Sti PROVE MonInv'
<1>1. Code(todo)' /\ At = "sti" /\ At' = "end"
  BY ExecuteSteps DEF MonInv, Sti, Follows, Ends
<1>2. TraceInv' /\ TypeInv' /\ CountInv' /\ ExactInv' /\ EventInv'
  BY <1>1, QuietStep DEF Sti, Execute, heapVars, irqVars, traceVars, vars, Even
<1>3. LockInv'
  BY <1>1 DEF MonInv, LockInv, Sti, Execute, heapVars, Held
<1>4. SnapInv'
  BY <1>1, SnapFrame DEF MonInv, Sti, Execute, heapVars, irqVars, AllocOps, Held, TypeInv
<1>5. QED
  BY <1>1, <1>2, <1>3, <1>4 DEF MonInv

\* An operation on an allocation or a deallocation has its size.
LEMMA SizeType == ASSUME MonitorAssumption, Head(todo) \in Ops, Head(todo).op \in AllocOps \cup FreeOps
                  PROVE  Size \in Sizes /\ Size \in Nat
<1>1. Head(todo) \in {Do(op, size) : op \in AllocOps \cup FreeOps, size \in Sizes}
  BY DEF Ops, Do, AllocOps, Held, FreeOps
<1>2. PICK op \in AllocOps \cup FreeOps, size \in Sizes : Head(todo) = Do(op, size)
  BY <1>1
<1>3. Size = size
  BY <1>2 DEF Size, Do
<1>4. QED
  BY <1>3 DEF MonitorAssumption

\* malloc: one more allocation, not yet counted.
LEMMA MallocKeeps == ASSUME MonitorAssumption, MonInv, Malloc PROVE MonInv'
<1>1. Code(todo)' /\ At = "malloc" /\ At' = "alloc_count" /\ Size' = Size /\ Size \in Sizes /\ Size \in Nat
  BY ExecuteSteps, SizeType DEF MonInv, Malloc, Follows, Ends, AllocOps, Held, FreeOps
<1>2. TraceInv' /\ \A x : Recorded(x)' = Recorded(x)
  BY TraceFrame DEF MonInv, Malloc, traceVars, vars
<1>3. live \in [Sizes -> Int] /\ live' = [live EXCEPT ![Size] = @ + 1]
  BY DEF MonInv, TypeInv, Malloc
<1>4. /\ live' \in [Sizes -> Int]
      /\ InUse(live) \in Int /\ InUse(live') = InUse(live) + 1 * Size
      /\ Number(live) \in Int /\ Number(live') = Number(live) + 1
  BY <1>1, <1>3, LiveChange, Zenon
<1>5. /\ InUse(live)' = InUse(live) + Size /\ Number(live)' = Number(live) + 1
      /\ InUse(live') = InUse(live) + Size /\ InUse(live') \in Int
  BY <1>1, <1>4, LiveFrame
<1>6. highest' \in Int /\ highest' = IF highest >= InUse(live') THEN highest ELSE InUse(live')
  <2>1. highest \in Int /\ highest' = Max({highest, InUse(live')})
    BY DEF MonInv, TypeInv, Malloc
  <2>2. \A a, b \in Int : Max({a, b}) = IF a >= b THEN a ELSE b
    BY DEF Max
  <2>3. QED
    BY <1>5, <2>1, <2>2
<1>7. TypeInv'
  BY <1>4, <1>6 DEF MonInv, TypeInv, Malloc, Execute, irqVars
<1>8. LockInv'
  BY <1>1 DEF LockInv, Malloc, Held
<1>9. CountInv'
  BY <1>1 DEF MonInv, TypeInv, CountInv, Malloc
<1>10. SnapInv'
  BY <1>1, SnapFrame DEF MonInv, Malloc, Execute, irqVars, AllocOps, Held, TypeInv
<1>11. ExactInv'
  <2>1. SUFFICES ASSUME ~crashed PROVE ExactInv'
    BY DEF ExactInv, Malloc, Execute
  <2>2. /\ heap.alloc_count - heap.free_count = Number(live)
        /\ heap.current_allocated = InUse(live) /\ heap.peak_allocated = highest
        /\ heap.alloc_count \in Int /\ heap.free_count \in Int /\ highest \in Int /\ heap' = heap
    BY <1>1, <1>4, <2>1 DEF MonInv, ExactInv, TypeInv, Malloc
  <2>3. heap'.alloc_count - heap'.free_count = Number(live)' - 1 + 0
    BY <1>4, <1>5, <2>2
  <2>4. heap'.current_allocated = InUse(live)' - Size' + 0
    BY <1>1, <1>4, <1>5, <2>2
  <2>5. /\ InUse(live)' <= highest'
        /\ highest' = IF heap'.peak_allocated >= InUse(live)' THEN heap'.peak_allocated ELSE InUse(live)'
    BY <1>1, <1>4, <1>5, <1>6, <2>2
  <2>6. QED
    BY <1>1, <2>3, <2>4, <2>5 DEF ExactInv
<1>12. EventInv'
  BY <1>1, <1>2 DEF MonInv, EventInv, Malloc, Execute, irqVars, traceVars, vars
<1>13. QED
  BY <1>1, <1>2, <1>7, <1>8, <1>9, <1>10, <1>11, <1>12 DEF MonInv

\* free: one allocation less, not yet counted.
LEMMA FreeKeeps == ASSUME MonitorAssumption, MonInv, Free PROVE MonInv'
<1>1. Code(todo)' /\ At = "free" /\ At' = "free_count" /\ Size' = Size /\ Size \in Sizes /\ Size \in Nat
  BY ExecuteSteps, SizeType DEF MonInv, Free, Follows, Ends, AllocOps, Held, FreeOps
<1>2. TraceInv' /\ \A x : Recorded(x)' = Recorded(x)
  BY TraceFrame DEF MonInv, Free, traceVars, vars
<1>3. live \in [Sizes -> Int] /\ live' = [live EXCEPT ![Size] = @ + (-1)]
  BY <1>1, Zenon DEF MonInv, TypeInv, Free
<1>4. /\ live' \in [Sizes -> Int]
      /\ InUse(live) \in Int /\ InUse(live') = InUse(live) + (-1) * Size
      /\ Number(live) \in Int /\ Number(live') = Number(live) + (-1)
  BY <1>1, <1>3, LiveChange, Zenon
<1>5. InUse(live)' = InUse(live) - Size /\ Number(live)' = Number(live) - 1
  BY <1>1, <1>4, LiveFrame
<1>6. TypeInv'
  BY <1>4 DEF MonInv, TypeInv, Free, Execute, irqVars
<1>7. LockInv'
  BY <1>1 DEF MonInv, LockInv, Free, Held
<1>8. CountInv'
  BY <1>1 DEF MonInv, TypeInv, CountInv, Free
<1>9. SnapInv'
  BY <1>1, SnapFrame DEF MonInv, Free, Execute, irqVars, AllocOps, Held, TypeInv
<1>10. ExactInv'
  <2>1. SUFFICES ASSUME ~crashed PROVE ExactInv'
    BY DEF ExactInv, Free, Execute
  <2>2. /\ heap.alloc_count - heap.free_count = Number(live)
        /\ heap.current_allocated = InUse(live) /\ heap.peak_allocated = highest
        /\ InUse(live) <= highest
        /\ heap.alloc_count \in Int /\ heap.free_count \in Int /\ highest \in Int
        /\ heap' = heap /\ highest' = highest
    BY <1>1, <1>4, <2>1 DEF MonInv, ExactInv, TypeInv, Free
  <2>3. heap'.alloc_count - heap'.free_count = Number(live)' - 0 + 1
    BY <1>4, <1>5, <2>2
  <2>4. heap'.current_allocated = InUse(live)' - 0 + Size'
    BY <1>1, <1>4, <1>5, <2>2
  <2>5. InUse(live)' <= highest' /\ heap'.peak_allocated = highest'
    BY <1>1, <1>4, <1>5, <2>2
  <2>6. QED
    BY <1>1, <2>3, <2>4, <2>5 DEF ExactInv
<1>11. EventInv'
  BY <1>1, <1>2 DEF MonInv, EventInv, Free, Execute, irqVars, traceVars, vars
<1>12. QED
  BY <1>1, <1>2, <1>6, <1>7, <1>8, <1>9, <1>10, <1>11 DEF MonInv

\* The lock is released.
LEMMA UnlockKeeps == ASSUME MonInv, Unlock PROVE MonInv'
<1>1. Code(todo)' /\ At = "unlock" /\ At' \in {"end", "load_irqs"}
  BY ExecuteSteps DEF MonInv, Unlock, Follows, Ends
<1>2. TraceInv' /\ TypeInv' /\ CountInv' /\ ExactInv' /\ EventInv'
  BY <1>1, QuietStep DEF Unlock, Execute, irqVars, traceVars, vars, Even
<1>3. LockInv'
  BY <1>1 DEF LockInv, Unlock, Held
<1>4. SnapInv'
  BY <1>1, SnapFrame DEF MonInv, Unlock, Execute, irqVars, AllocOps, Held, TypeInv
<1>5. QED
  BY <1>1, <1>2, <1>3, <1>4 DEF MonInv

\* The allocation is counted.
LEMMA AllocCountKeeps == ASSUME MonitorAssumption, MonInv, AllocCount PROVE MonInv'
<1>1. /\ Code(todo)' /\ At = "alloc_count" /\ At' = "current_add" /\ Size' = Size /\ Size \in Nat
      /\ UNCHANGED <<crashed, irqs, timer_ticks, entries, write_idx, recorded, initialized>>
      /\ UNCHANGED <<locked, live, mallocs, highest, snap>>
  BY ExecuteSteps, SizeType DEF MonInv, AllocCount, Update, Execute, Follows, Ends, AllocOps, Held, FreeOps,
     irqVars, traceVars, vars
<1>2. TraceInv' /\ \A x : Recorded(x)' = Recorded(x)
  BY <1>1, TraceFrame DEF MonInv
<1>3. InUse(live)' = InUse(live) /\ Number(live)' = Number(live)
  BY <1>1, LiveFrame
<1>4. InUse(live) \in Int /\ Number(live) \in Int
  BY LiveType DEF MonInv, TypeInv
<1>5. /\ heap.alloc_count \in Int /\ heap.free_count \in Int
      /\ heap.current_allocated \in Int /\ heap.peak_allocated \in Int
      /\ heap = [heap EXCEPT !.alloc_count = heap.alloc_count]
  BY DEF MonInv, TypeInv
<1>6. /\ heap' \in [alloc_count : Int, free_count : Int, current_allocated : Int, peak_allocated : Int]
      /\ DOMAIN heap' = DOMAIN heap
      /\ heap'.alloc_count = heap.alloc_count + 1
      /\ heap'.free_count = heap.free_count
      /\ heap'.current_allocated = heap.current_allocated
      /\ heap'.peak_allocated = heap.peak_allocated
  BY <1>1, <1>5 DEF MonInv, TypeInv, AllocCount, Update
<1>7. TypeInv'
  BY <1>1, <1>5, <1>6 DEF MonInv, TypeInv
<1>8. LockInv'
  BY <1>1 DEF MonInv, LockInv, Held
<1>9. CountInv'
  BY <1>1, <1>5, <1>6 DEF MonInv, TypeInv, LockInv, CountInv, Held
<1>10. SnapInv'
  BY <1>1, <1>6, SnapFrame DEF MonInv, AllocOps, Held, TypeInv
<1>11. ExactInv'
  BY <1>1, <1>3, <1>4, <1>5, <1>6 DEF MonInv, ExactInv, TypeInv
<1>12. EventInv'
  BY <1>1, <1>2, <1>5, <1>6 DEF MonInv, EventInv, TypeInv
<1>13. QED
  BY <1>1, <1>2, <1>7, <1>8, <1>9, <1>10, <1>11, <1>12 DEF MonInv

\* Its memory is added.
LEMMA CurrentAddKeeps == ASSUME MonitorAssumption, MonInv, CurrentAdd PROVE MonInv'
<1>1. /\ Code(todo)' /\ At = "current_add" /\ At' = "peak" /\ Size' = Size /\ Size \in Nat
      /\ UNCHANGED <<crashed, irqs, timer_ticks, entries, write_idx, recorded, initialized>>
      /\ UNCHANGED <<locked, live, mallocs, highest, snap>>
  BY ExecuteSteps, SizeType DEF MonInv, CurrentAdd, Update, Execute, Follows, Ends, AllocOps, Held, FreeOps,
     irqVars, traceVars, vars
<1>2. TraceInv' /\ \A x : Recorded(x)' = Recorded(x)
  BY <1>1, TraceFrame DEF MonInv
<1>3. InUse(live)' = InUse(live) /\ Number(live)' = Number(live)
  BY <1>1, LiveFrame
<1>4. InUse(live) \in Int /\ Number(live) \in Int
  BY LiveType DEF MonInv, TypeInv
<1>5. /\ heap.alloc_count \in Int /\ heap.free_count \in Int
      /\ heap.current_allocated \in Int /\ heap.peak_allocated \in Int
      /\ heap = [heap EXCEPT !.alloc_count = heap.alloc_count]
  BY DEF MonInv, TypeInv
<1>6. /\ heap' \in [alloc_count : Int, free_count : Int, current_allocated : Int, peak_allocated : Int]
      /\ DOMAIN heap' = DOMAIN heap
      /\ heap'.alloc_count = heap.alloc_count
      /\ heap'.free_count = heap.free_count
      /\ heap'.current_allocated = heap.current_allocated + Size
      /\ heap'.peak_allocated = heap.peak_allocated
  BY <1>1, <1>5 DEF MonInv, TypeInv, CurrentAdd, Update
<1>7. TypeInv'
  BY <1>1, <1>5, <1>6 DEF MonInv, TypeInv
<1>8. LockInv'
  BY <1>1 DEF MonInv, LockInv, Held
<1>9. CountInv'
  BY <1>1, <1>5, <1>6 DEF MonInv, TypeInv, LockInv, CountInv, Held
<1>10. SnapInv'
  BY <1>1, <1>6, SnapFrame DEF MonInv, AllocOps, Held, TypeInv
<1>11. ExactInv'
  BY <1>1, <1>3, <1>4, <1>5, <1>6 DEF MonInv, ExactInv, TypeInv
<1>12. EventInv'
  BY <1>1, <1>2, <1>5, <1>6 DEF MonInv, EventInv, TypeInv
<1>13. QED
  BY <1>1, <1>2, <1>7, <1>8, <1>9, <1>10, <1>11, <1>12 DEF MonInv

\* The peak is raised.
LEMMA PeakKeeps == ASSUME MonitorAssumption, MonInv, Peak PROVE MonInv'
<1>1. /\ Code(todo)' /\ At = "peak" /\ At' = "record_alloc" /\ Size' = Size /\ Size \in Nat
      /\ UNCHANGED <<crashed, irqs, timer_ticks, entries, write_idx, recorded, initialized>>
      /\ UNCHANGED <<locked, live, mallocs, highest, snap>>
  BY ExecuteSteps, SizeType DEF MonInv, Peak, Update, Execute, Follows, Ends, AllocOps, Held, FreeOps,
     irqVars, traceVars, vars
<1>2. TraceInv' /\ \A x : Recorded(x)' = Recorded(x)
  BY <1>1, TraceFrame DEF MonInv
<1>3. InUse(live)' = InUse(live) /\ Number(live)' = Number(live)
  BY <1>1, LiveFrame
<1>4. InUse(live) \in Int /\ Number(live) \in Int
  BY LiveType DEF MonInv, TypeInv
<1>5. /\ heap.alloc_count \in Int /\ heap.free_count \in Int
      /\ heap.current_allocated \in Int /\ heap.peak_allocated \in Int
      /\ heap = [heap EXCEPT !.alloc_count = heap.alloc_count]
  BY DEF MonInv, TypeInv
<1>6. /\ heap' \in [alloc_count : Int, free_count : Int, current_allocated : Int, peak_allocated : Int]
      /\ DOMAIN heap' = DOMAIN heap
      /\ heap'.alloc_count = heap.alloc_count
      /\ heap'.free_count = heap.free_count
      /\ heap'.current_allocated = heap.current_allocated
      /\ heap'.peak_allocated = (IF heap.peak_allocated >= heap.current_allocated
                                THEN heap.peak_allocated ELSE heap.current_allocated)
  <2>1. \A a, b \in Int : Max({a, b}) = IF a >= b THEN a ELSE b
    BY DEF Max
  <2>2. QED
    BY <1>1, <1>5, <2>1 DEF MonInv, TypeInv, Peak, Update
<1>7. TypeInv'
  BY <1>1, <1>5, <1>6 DEF MonInv, TypeInv
<1>8. LockInv'
  BY <1>1 DEF MonInv, LockInv, Held
<1>9. CountInv'
  BY <1>1, <1>5, <1>6 DEF MonInv, TypeInv, LockInv, CountInv, Held
<1>10. SnapInv'
  BY <1>1, <1>6, SnapFrame DEF MonInv, AllocOps, Held, TypeInv
<1>11. ExactInv'
  BY <1>1, <1>3, <1>4, <1>5, <1>6 DEF MonInv, ExactInv, TypeInv
<1>12. EventInv'
  BY <1>1, <1>2, <1>5, <1>6 DEF MonInv, EventInv, TypeInv
<1>13. QED
  BY <1>1, <1>2, <1>7, <1>8, <1>9, <1>10, <1>11, <1>12 DEF MonInv

\* The deallocation is counted.
LEMMA FreeCountKeeps == ASSUME MonitorAssumption, MonInv, FreeCount PROVE MonInv'
<1>1. /\ Code(todo)' /\ At = "free_count" /\ At' = "current_sub" /\ Size' = Size /\ Size \in Nat
      /\ UNCHANGED <<crashed, irqs, timer_ticks, entries, write_idx, recorded, initialized>>
      /\ UNCHANGED <<locked, live, mallocs, highest, snap>>
  BY ExecuteSteps, SizeType DEF MonInv, FreeCount, Update, Execute, Follows, Ends, AllocOps, Held, FreeOps,
     irqVars, traceVars, vars
<1>2. TraceInv' /\ \A x : Recorded(x)' = Recorded(x)
  BY <1>1, TraceFrame DEF MonInv
<1>3. InUse(live)' = InUse(live) /\ Number(live)' = Number(live)
  BY <1>1, LiveFrame
<1>4. InUse(live) \in Int /\ Number(live) \in Int
  BY LiveType DEF MonInv, TypeInv
<1>5. /\ heap.alloc_count \in Int /\ heap.free_count \in Int
      /\ heap.current_allocated \in Int /\ heap.peak_allocated \in Int
      /\ heap = [heap EXCEPT !.alloc_count = heap.alloc_count]
  BY DEF MonInv, TypeInv
<1>6. /\ heap' \in [alloc_count : Int, free_count : Int, current_allocated : Int, peak_allocated : Int]
      /\ DOMAIN heap' = DOMAIN heap
      /\ heap'.alloc_count = heap.alloc_count
      /\ heap'.free_count = heap.free_count + 1
      /\ heap'.current_allocated = heap.current_allocated
      /\ heap'.peak_allocated = heap.peak_allocated
  BY <1>1, <1>5 DEF MonInv, TypeInv, FreeCount, Update
<1>7. TypeInv'
  BY <1>1, <1>5, <1>6 DEF MonInv, TypeInv
<1>8. LockInv'
  BY <1>1 DEF MonInv, LockInv, Held
<1>9. CountInv'
  BY <1>1, <1>5, <1>6 DEF MonInv, TypeInv, LockInv, CountInv, Held
<1>10. SnapInv'
  BY <1>1, <1>6, SnapFrame DEF MonInv, AllocOps, Held, TypeInv
<1>11. ExactInv'
  BY <1>1, <1>3, <1>4, <1>5, <1>6 DEF MonInv, ExactInv, TypeInv
<1>12. EventInv'
  BY <1>1, <1>2, <1>5, <1>6 DEF MonInv, EventInv, TypeInv
<1>13. QED
  BY <1>1, <1>2, <1>7, <1>8, <1>9, <1>10, <1>11, <1>12 DEF MonInv

\* Its memory is subtracted.
LEMMA CurrentSubKeeps == ASSUME MonitorAssumption, MonInv, CurrentSub PROVE MonInv'
<1>1. /\ Code(todo)' /\ At = "current_sub" /\ At' = "record_free" /\ Size' = Size /\ Size \in Nat
      /\ UNCHANGED <<crashed, irqs, timer_ticks, entries, write_idx, recorded, initialized>>
      /\ UNCHANGED <<locked, live, mallocs, highest, snap>>
  BY ExecuteSteps, SizeType DEF MonInv, CurrentSub, Update, Execute, Follows, Ends, AllocOps, Held, FreeOps,
     irqVars, traceVars, vars
<1>2. TraceInv' /\ \A x : Recorded(x)' = Recorded(x)
  BY <1>1, TraceFrame DEF MonInv
<1>3. InUse(live)' = InUse(live) /\ Number(live)' = Number(live)
  BY <1>1, LiveFrame
<1>4. InUse(live) \in Int /\ Number(live) \in Int
  BY LiveType DEF MonInv, TypeInv
<1>5. /\ heap.alloc_count \in Int /\ heap.free_count \in Int
      /\ heap.current_allocated \in Int /\ heap.peak_allocated \in Int
      /\ heap = [heap EXCEPT !.alloc_count = heap.alloc_count]
  BY DEF MonInv, TypeInv
<1>6. /\ heap' \in [alloc_count : Int, free_count : Int, current_allocated : Int, peak_allocated : Int]
      /\ DOMAIN heap' = DOMAIN heap
      /\ heap'.alloc_count = heap.alloc_count
      /\ heap'.free_count = heap.free_count
      /\ heap'.current_allocated = heap.current_allocated - Size
      /\ heap'.peak_allocated = heap.peak_allocated
  BY <1>1, <1>5 DEF MonInv, TypeInv, CurrentSub, Update
<1>7. TypeInv'
  BY <1>1, <1>5, <1>6 DEF MonInv, TypeInv
<1>8. LockInv'
  BY <1>1 DEF MonInv, LockInv, Held
<1>9. CountInv'
  BY <1>1, <1>5, <1>6 DEF MonInv, TypeInv, LockInv, CountInv, Held
<1>10. SnapInv'
  BY <1>1, <1>6, SnapFrame DEF MonInv, AllocOps, Held, TypeInv
<1>11. ExactInv'
  BY <1>1, <1>3, <1>4, <1>5, <1>6 DEF MonInv, ExactInv, TypeInv
<1>12. EventInv'
  BY <1>1, <1>2, <1>5, <1>6 DEF MonInv, EventInv, TypeInv
<1>13. QED
  BY <1>1, <1>2, <1>7, <1>8, <1>9, <1>10, <1>11, <1>12 DEF MonInv

\* The event of an allocation or a deallocation; before trace::init a crash is under way.
LEMMA RecordStepKeeps == ASSUME TraceAssumption, MonInv, Record PROVE MonInv'
<1>1. PICK e \in {"alloc", "free"} :
        /\ Execute(IF e = "alloc" THEN "record_alloc" ELSE "record_free")
        /\ record(e) \/ RecordNothing
  BY DEF Record
<1>2. /\ Code(todo)'
      /\ e = "alloc" => At = "record_alloc" /\ At' = "unlock"
      /\ e = "free" => At = "record_free" /\ At' = "end"
  BY <1>1, ExecuteSteps DEF MonInv, Follows, Ends
<1>3. UNCHANGED <<crashed, irqs, timer_ticks, locked, live, mallocs, highest, heap, snap, initialized>>
  BY <1>1 DEF Record, Execute, irqVars, heapVars, record, RecordNothing, vars
<1>4. ~crashed => record(e)
  BY <1>1, <1>2 DEF MonInv, EventInv, RecordNothing
<1>5. TraceInv'
  BY <1>1, RecordKeeps, TraceFrame DEF MonInv, RecordNothing, vars
<1>6. TypeInv'
  BY <1>3 DEF MonInv, TypeInv
<1>7. LockInv'
  BY <1>2, <1>3 DEF MonInv, LockInv, Held
<1>8. CountInv'
  BY <1>2, <1>3 DEF MonInv, CountInv
<1>9. SnapInv'
  BY <1>2, <1>3, SnapFrame DEF MonInv, AllocOps, Held, TypeInv
<1>10. InUse(live)' = InUse(live) /\ Number(live)' = Number(live)
  BY <1>3, LiveFrame
<1>11. ExactInv'
  BY <1>2, <1>3, <1>10 DEF MonInv, ExactInv, TypeInv
<1>12. EventInv'
  <2>1. SUFFICES ASSUME ~crashed PROVE EventInv'
    BY <1>3 DEF EventInv
  <2>2. /\ \A x : Recorded(x)' = IF x = e THEN Recorded(x) + 1 ELSE Recorded(x)
        /\ initialized
    BY <1>4, <2>1, RecordKeeps DEF MonInv, record
  <2>3. QED
    BY <1>2, <1>3, <2>1, <2>2 DEF MonInv, EventInv, TypeInv
<1>13. QED
  BY <1>2, <1>5, <1>6, <1>7, <1>8, <1>9, <1>11, <1>12 DEF MonInv

\* The snapshot loads the interrupt counts.
LEMMA LoadIrqsKeeps == ASSUME MonInv, LoadIrqs PROVE MonInv'
<1>1. Code(todo)' /\ At = "load_irqs" /\ At' = "load_heap"
  BY ExecuteSteps DEF MonInv, LoadIrqs, Follows, Ends
<1>2. TraceInv' /\ TypeInv' /\ CountInv' /\ ExactInv' /\ EventInv'
  BY <1>1, QuietStep DEF LoadIrqs, Execute, irqVars, heapVars, traceVars, vars, Even
<1>3. LockInv'
  BY <1>1 DEF MonInv, LockInv, LoadIrqs, Execute, heapVars, Held
<1>4. DOMAIN snap = {} /\ irqs \in [timer : Nat, keyboard : Nat] /\ irqs.timer = timer_ticks
  BY <1>1 DEF MonInv, SnapInv, TypeInv
<1>5. snap' = Loaded(irqs) /\ UNCHANGED <<timer_ticks, crashed>>
  BY DEF LoadIrqs, Execute, irqVars
<1>6. DOMAIN snap' = {"timer", "keyboard"} /\ snap'.timer = irqs.timer
  BY <1>4, <1>5 DEF Loaded
<1>7. SnapInv'
  BY <1>1, <1>4, <1>5, <1>6 DEF SnapInv, AllocOps, Held
<1>8. QED
  BY <1>1, <1>2, <1>3, <1>7 DEF MonInv

\* The snapshot loads the heap's counters: no allocation is in progress, and after a
\* crash none was.
LEMMA LoadHeapKeeps == ASSUME MonInv, LoadHeap PROVE MonInv'
<1>1. Code(todo)' /\ At = "load_heap" /\ At' = "load_ticks"
  BY ExecuteSteps DEF MonInv, LoadHeap, Follows, Ends
<1>2. TraceInv' /\ TypeInv' /\ CountInv' /\ ExactInv' /\ EventInv'
  BY <1>1, QuietStep DEF LoadHeap, Execute, irqVars, heapVars, traceVars, vars, Even
<1>3. LockInv'
  BY <1>1 DEF MonInv, LockInv, LoadHeap, Execute, heapVars, Held
<1>4. /\ DOMAIN snap = {"timer", "keyboard"} /\ snap.timer \in Nat /\ snap.timer <= timer_ticks
      /\ heap \in [alloc_count : Int, free_count : Int, current_allocated : Int, peak_allocated : Int]
      /\ heap.alloc_count = mallocs /\ heap.current_allocated <= heap.peak_allocated
  BY <1>1 DEF MonInv, SnapInv, CountInv, TypeInv
<1>5. snap' = Loaded(heap) /\ UNCHANGED <<timer_ticks, crashed, mallocs, heap>>
  BY DEF LoadHeap, Execute, irqVars, heapVars
<1>6. DOMAIN heap = {"alloc_count", "free_count", "current_allocated", "peak_allocated"}
  BY <1>4
<1>7. /\ DOMAIN snap' = {"timer", "keyboard"} \cup DOMAIN heap
      /\ snap'.timer = snap.timer /\ snap'.alloc_count = heap.alloc_count
      /\ snap'.current_allocated = heap.current_allocated
      /\ snap'.peak_allocated = heap.peak_allocated
  BY <1>4, <1>5, <1>6 DEF Loaded
<1>8. SnapInv'
  BY <1>1, <1>4, <1>5, <1>6, <1>7 DEF SnapInv, AllocOps, Held
<1>9. QED
  BY <1>1, <1>2, <1>3, <1>8 DEF MonInv

\* The snapshot loads the ticks.
LEMMA LoadTicksKeeps == ASSUME MonInv, LoadTicks PROVE MonInv'
<1>1. Code(todo)' /\ At = "load_ticks" /\ At' \in {"end", "dump_last"}
  BY ExecuteSteps DEF MonInv, LoadTicks, Follows, Ends
<1>2. TraceInv' /\ TypeInv' /\ CountInv' /\ ExactInv' /\ EventInv'
  BY <1>1, QuietStep DEF LoadTicks, Execute, irqVars, heapVars, traceVars, vars, Even
<1>3. LockInv'
  BY <1>1 DEF MonInv, LockInv, LoadTicks, Execute, heapVars, Held
<1>4. DOMAIN heap = {"alloc_count", "free_count", "current_allocated", "peak_allocated"}
  BY DEF MonInv, TypeInv
<1>5. DOMAIN snap = {"timer", "keyboard", "alloc_count", "free_count", "current_allocated", "peak_allocated"}
  BY <1>1, <1>4 DEF MonInv, SnapInv
<1>6. /\ snap.timer \in Nat /\ snap.timer <= timer_ticks
      /\ snap.current_allocated <= snap.peak_allocated
      /\ crashed => snap.alloc_count = mallocs
  BY <1>5 DEF MonInv, SnapInv
<1>7. snap' = Loaded([timer_ticks |-> timer_ticks]) /\ UNCHANGED <<timer_ticks, crashed, mallocs>>
  BY DEF LoadTicks, Execute, irqVars, heapVars
<1>8. /\ "timer" \in DOMAIN snap' /\ "alloc_count" \in DOMAIN snap'
      /\ snap'.timer = snap.timer /\ snap'.alloc_count = snap.alloc_count
      /\ snap'.current_allocated = snap.current_allocated
      /\ snap'.peak_allocated = snap.peak_allocated
      /\ snap'.timer_ticks = timer_ticks
  BY <1>5, <1>7 DEF Loaded
<1>9. SnapInv'
  BY <1>1, <1>6, <1>7, <1>8 DEF SnapInv, AllocOps, Held
<1>10. QED
  BY <1>1, <1>2, <1>3, <1>9 DEF MonInv

\* The trace is printed.
LEMMA DumpLastKeeps == ASSUME MonInv, DumpLast PROVE MonInv'
<1>1. Code(todo)' /\ At = "dump_last" /\ At' \in {"end", "free"}
  BY ExecuteSteps DEF MonInv, DumpLast, Follows, Ends
<1>2. UNCHANGED <<entries, write_idx, recorded, initialized>>
  BY DEF DumpLast, dump_last
<1>3. TraceInv' /\ TypeInv' /\ CountInv' /\ ExactInv' /\ EventInv'
  BY <1>1, <1>2, QuietStep DEF DumpLast, Execute, irqVars, heapVars, Even
<1>4. LockInv'
  BY <1>1 DEF MonInv, LockInv, DumpLast, Execute, heapVars, Held
<1>5. SnapInv'
  BY <1>1, SnapFrame DEF MonInv, DumpLast, Execute, irqVars, heapVars, AllocOps, Held, TypeInv
<1>6. QED
  BY <1>1, <1>3, <1>4, <1>5 DEF MonInv

\* A task's next call.
LEMMA CallKeeps == ASSUME MonitorAssumption, MonInv, Call PROVE MonInv'
<1>1. PICK code \in Calls : todo' = code
  BY DEF Call
<1>2. Code(todo)' /\ At = "end" /\ At' \in {"malloc", "free", "load_irqs", "dump_last"}
  <2>1. At = "end"
    BY DEF Call, At
  <2>2. CASE \E s \in Sizes : code = alloc(s)
    BY <1>1, <2>1, <2>2, CodesAreCode DEF At, Do, Code
  <2>3. CASE \E s \in Sizes : code = dealloc(s)
    BY <1>1, <2>1, <2>3, CodesAreCode DEF At, Do, Code
  <2>4. CASE code = snapshot
    BY <1>1, <2>1, <2>4, CodesAreCode DEF At, Do, Code
  <2>5. CASE code = <<Do("dump_last", 0)>>
    <3>1. Code(todo')
      BY <1>1, <2>5, CodesAreCode
    <3>2. At' = "dump_last"
      BY <1>1, <2>5 DEF At, Do
    <3>3. QED
      BY <2>1, <3>1, <3>2 DEF Code
  <2>6. QED
    BY <2>2, <2>3, <2>4, <2>5 DEF Calls
<1>3. UNCHANGED <<vars, crashed, heapVars, irqVars>> /\ DOMAIN snap' = {} /\ ~crashed
  BY DEF Call, traceVars
<1>4. ~locked
  BY <1>2, <1>3 DEF MonInv, LockInv, Held
<1>5. TraceInv' /\ TypeInv' /\ CountInv' /\ ExactInv' /\ EventInv'
  BY <1>2, <1>3, <1>4, QuietStep DEF heapVars, irqVars, vars, Even
<1>6. LockInv'
  BY <1>2, <1>3, <1>4 DEF LockInv, heapVars, Held
<1>7. SnapInv'
  BY <1>2, <1>3 DEF SnapInv
<1>8. QED
  BY <1>2, <1>5, <1>6, <1>7 DEF MonInv

\* A crash abandons the running code, with the heap locked if that was inside an
\* allocation.
LEMMA FailKeeps == ASSUME MonitorAssumption, MonInv, Fail PROVE MonInv'
<1>1. /\ crashed' = TRUE /\ ~crashed /\ todo' = panic /\ DOMAIN snap' = {}
      /\ UNCHANGED <<vars, heapVars, irqVars>>
  BY DEF Fail, traceVars
<1>2. Code(todo)' /\ At' = "malloc"
  BY <1>1, CodesAreCode DEF At, Do, Code
<1>3. TraceInv'
  BY <1>1, TraceFrame DEF MonInv, vars
<1>4. TypeInv'
  BY <1>1 DEF MonInv, TypeInv, heapVars, irqVars
<1>5. LockInv'
  BY <1>1, <1>2 DEF LockInv, Held
<1>6. locked <=> At \in Held
  BY <1>1 DEF MonInv, LockInv
<1>7. CountInv'
  BY <1>1, <1>2, <1>6 DEF MonInv, CountInv, Held, heapVars
<1>8. SnapInv'
  BY <1>1, <1>2 DEF SnapInv
<1>9. ExactInv' /\ EventInv'
  BY <1>1 DEF ExactInv, EventInv
<1>10. QED
  BY <1>2, <1>3, <1>4, <1>5, <1>7, <1>8, <1>9 DEF MonInv

\* A handler that counts its interrupt.
LEMMA KeyboardKeeps == ASSUME MonInv, KeyboardInterrupt PROVE MonInv'
<1>1. UNCHANGED <<vars, todo, crashed, heapVars, timer_ticks, snap>>
  BY DEF KeyboardInterrupt, traceVars
<1>2. irqs' \in [timer : Nat, keyboard : Nat] /\ irqs'.timer = irqs.timer
  BY DEF KeyboardInterrupt, inc_interrupt, MonInv, TypeInv
<1>3. At' = At /\ Size' = Size
  BY <1>1 DEF At, Size
<1>4. Code(todo)'
  BY <1>1 DEF MonInv, Code
<1>5. TraceInv' /\ \A x : Recorded(x)' = Recorded(x)
  BY <1>1, TraceFrame DEF MonInv, vars
<1>6. TypeInv'
  BY <1>1, <1>2 DEF MonInv, TypeInv, heapVars
<1>7. LockInv' /\ CountInv' /\ SnapInv'
  BY <1>1, <1>3 DEF MonInv, LockInv, CountInv, SnapInv, heapVars
<1>8. InUse(live)' = InUse(live) /\ Number(live)' = Number(live)
  BY <1>1, LiveFrame DEF heapVars
<1>9. ExactInv'
  BY <1>1, <1>3, <1>8 DEF MonInv, ExactInv, heapVars
<1>10. EventInv'
  BY <1>1, <1>3, <1>5 DEF MonInv, EventInv, heapVars, vars
<1>11. QED
  BY <1>4, <1>5, <1>6, <1>7, <1>9, <1>10 DEF MonInv

\* The timer's also counts a tick and records an event.
LEMMA TimerKeeps == ASSUME TraceAssumption, MonInv, TimerInterrupt PROVE MonInv'
<1>1. /\ UNCHANGED <<todo, crashed, heapVars, snap, initialized>>
      /\ timer_ticks' = timer_ticks + 1 /\ record("interrupt")
  BY DEF TimerInterrupt, record
<1>2. /\ irqs' \in [timer : Nat, keyboard : Nat] /\ irqs'.timer = irqs.timer + 1
      /\ irqs.timer = timer_ticks /\ timer_ticks \in Nat
  BY DEF TimerInterrupt, inc_interrupt, MonInv, TypeInv
<1>3. At' = At /\ Size' = Size
  BY <1>1 DEF At, Size
<1>4. Code(todo)'
  BY <1>1 DEF MonInv, Code
<1>5. /\ TraceInv'
      /\ \A x : Recorded(x)' = IF x = "interrupt" THEN Recorded(x) + 1 ELSE Recorded(x)
  BY <1>1, RecordKeeps DEF MonInv
<1>6. TypeInv'
  BY <1>1, <1>2 DEF MonInv, TypeInv, heapVars
<1>7. LockInv' /\ CountInv'
  BY <1>1, <1>3 DEF MonInv, LockInv, CountInv, heapVars
<1>8. SnapInv'
  BY <1>1, <1>2, <1>3, SnapFrame DEF MonInv, heapVars
<1>9. InUse(live)' = InUse(live) /\ Number(live)' = Number(live)
  BY <1>1, LiveFrame DEF heapVars
<1>10. ExactInv'
  BY <1>1, <1>3, <1>9 DEF MonInv, ExactInv, heapVars
<1>11. EventInv'
  BY <1>1, <1>3, <1>5 DEF MonInv, EventInv, heapVars
<1>12. QED
  BY <1>4, <1>5, <1>6, <1>7, <1>8, <1>10, <1>11 DEF MonInv

\* A step that changes nothing.
LEMMA StutterKeeps == ASSUME MonInv, UNCHANGED monitorVars PROVE MonInv'
<1>1. UNCHANGED <<vars, todo, crashed, heapVars, irqVars, snap>>
  BY DEF monitorVars, traceVars
<1>2. At' = At /\ Size' = Size
  BY <1>1 DEF At, Size
<1>3. Code(todo)'
  BY <1>1 DEF MonInv, Code
<1>4. TraceInv' /\ \A x : Recorded(x)' = Recorded(x)
  BY <1>1, TraceFrame DEF MonInv, vars
<1>5. TypeInv' /\ LockInv' /\ CountInv' /\ SnapInv'
  BY <1>1, <1>2 DEF MonInv, TypeInv, LockInv, CountInv, SnapInv, heapVars, irqVars
<1>6. InUse(live)' = InUse(live) /\ Number(live)' = Number(live)
  BY <1>1, LiveFrame DEF heapVars
<1>7. ExactInv' /\ EventInv'
  BY <1>1, <1>2, <1>4, <1>6 DEF MonInv, ExactInv, EventInv, heapVars, irqVars, vars
<1>8. QED
  BY <1>3, <1>4, <1>5, <1>7 DEF MonInv
-----------------------------------------------------------------------------
(* The theorems *)

\* The code, the ring, the lock, the counters and the snapshot stay in step.
THEOREM MonitorInvariant ==
  ASSUME TraceAssumption, MonitorAssumption PROVE MonitorSpec => []MonInv
<1>1. MonitorInit => MonInv
  BY InitEstablishes
<1>2. MonInv /\ [MonitorNext]_monitorVars => MonInv'
  BY Zenon, TraceInitKeeps, StiKeeps, MallocKeeps, UnlockKeeps, FreeKeeps, AllocCountKeeps,
     CurrentAddKeeps, PeakKeeps, FreeCountKeeps, CurrentSubKeeps, RecordStepKeeps,
     LoadIrqsKeeps, LoadHeapKeeps, LoadTicksKeeps, DumpLastKeeps, CallKeeps, FailKeeps,
     KeyboardKeeps, TimerKeeps, StutterKeeps, Zenon
  DEF MonitorNext, Spin, HltLoop
<1>3. QED
  BY <1>1, <1>2, PTL DEF MonitorSpec

\* Between two operations the counters of monitor.rs, the trace and the heap agree.
THEOREM MetricsAreExact ==
  ASSUME TraceAssumption, MonitorAssumption PROVE MonitorSpec => []MetricsExact
<1>1. ASSUME MonInv PROVE MetricsExact
  <2>1. SUFFICES ASSUME todo = <<>>, ~crashed PROVE MetricsExact
    BY DEF MetricsExact
  <2>2. At = "end"
    BY <2>1 DEF At
  <2>3. InUse(live) \in Int /\ Number(live) \in Int
    BY <1>1, LiveType DEF MonInv, TypeInv
  <2>4. heap.alloc_count = mallocs
    BY <1>1, <2>2 DEF MonInv, CountInv
  <2>5. /\ heap.alloc_count - heap.free_count = Number(live)
        /\ heap.current_allocated = InUse(live)
        /\ heap.peak_allocated = highest
    BY <1>1, <2>1, <2>2, <2>3 DEF MonInv, ExactInv
  <2>6. /\ Recorded("alloc") = heap.alloc_count
        /\ Recorded("free") = heap.free_count
        /\ Recorded("interrupt") = timer_ticks
    BY <1>1, <2>1, <2>2 DEF MonInv, EventInv, TypeInv
  <2>7. QED
    BY <2>4, <2>5, <2>6 DEF MetricsExact
<1>2. QED
  BY <1>1, MonitorInvariant, PTL

\* A complete snapshot is coherent wherever interrupts and a crash fall.
THEOREM SnapshotsAreCoherent ==
  ASSUME TraceAssumption, MonitorAssumption PROVE MonitorSpec => []SnapshotCoherent
<1>1. MonInv => SnapshotCoherent
  BY DEF MonInv, SnapInv, SnapshotCoherent
<1>2. QED
  BY <1>1, MonitorInvariant, PTL

\* dump_last prints the last events recorded, whoever recorded them and whenever.
THEOREM DumpsAreTheLast ==
  ASSUME TraceAssumption, MonitorAssumption PROVE MonitorSpec => DumpsTheLast
<1>1. ASSUME MonInv
      PROVE  \A n \in Requests : n <= BUFFER_SIZE /\ dump_last(n) => dump' = Last(n, recorded)
  BY <1>1, DumpIsLast DEF MonInv
<1>2. MonInv => [\A n \in Requests : n <= BUFFER_SIZE /\ dump_last(n) => dump' = Last(n, recorded)]_vars
  BY <1>1
<1>3. QED
  BY <1>2, MonitorInvariant, PTL DEF DumpsTheLast
=============================================================================
