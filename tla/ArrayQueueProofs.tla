--------------------------- MODULE ArrayQueueProofs ---------------------------
(***************************************************************************)
(* For every capacity, every counter width and every set of values: the    *)
(* ring buffer of array_queue.rs implements the atomic bounded FIFO queue, *)
(* and its handler is never interrupted.  The counters may wrap when the   *)
(* capacity divides 2^w; they must not when it does not (CounterRoom).     *)
(***************************************************************************)
EXTENDS ArrayQueue, Integers, SequenceTheorems, TLAPS

-----------------------------------------------------------------------------
(* Arithmetic modulo a variable *)

\* What / and % of usize compute.
LEMMA DivMod ==
  ASSUME NEW m \in Nat \ {0}, NEW a \in Nat
  PROVE  /\ a \div m \in Nat
         /\ a % m \in 0..m - 1
         /\ a = m * (a \div m) + (a % m)
  OBVIOUS

\* An index below the modulus is its own remainder.
LEMMA ModSmall ==
  ASSUME NEW m \in Nat \ {0}, NEW a \in 0..m - 1
  PROVE  a % m = a
  OBVIOUS

\* An index that has wrapped once.
LEMMA ModOnce ==
  ASSUME NEW m \in Nat \ {0}, NEW a \in m..2 * m - 1
  PROVE  a % m = a - m
  OBVIOUS

\* The remainder is the only decomposition with a digit below the modulus.
LEMMA ModUnique ==
  ASSUME NEW m \in Nat \ {0}, NEW a \in Nat, NEW k \in Nat, NEW r \in 0..m - 1,
         a = m * k + r
  PROVE  a % m = r
  OBVIOUS

\* A positive multiple of m is at least m.
LEMMA PositiveMultiple ==
  ASSUME NEW m \in Nat \ {0}, NEW q \in Int, 0 < m * q
  PROVE  m * q >= m
  OBVIOUS

\* Two indices less than a lap apart fall on different slots.
LEMMA ModDistinct ==
  ASSUME NEW m \in Nat \ {0}, NEW a \in Nat, NEW b \in Nat, a < b, b < a + m
  PROVE  a % m # b % m
<1> DEFINE q == b \div m - a \div m
<1>1. SUFFICES ASSUME a % m = b % m PROVE FALSE
  OBVIOUS
<1>2. q \in Int /\ b - a = m * q
  BY <1>1, DivMod
<1> HIDE DEF q
<1>3. QED
  BY <1>2, PositiveMultiple

\* A full turn of the counter changes no slot when the capacity divides it.
LEMMA ModShift ==
  ASSUME NEW m \in Nat \ {0}, NEW n \in Nat, n % m = 0, NEW a \in Nat
  PROVE  (a + n) % m = a % m
<1> DEFINE q == a \div m
           k == n \div m
           r == a % m
<1>1. q \in Nat /\ k \in Nat /\ r \in 0..m - 1 /\ a = m * q + r /\ n = m * k
  BY DivMod
<1>2. a % m = r
  OBVIOUS
<1> HIDE DEF q, k, r
<1>3. a + n = m * (q + k) + r /\ q + k \in Nat
  BY <1>1
<1>4. (a + n) % m = r
  BY <1>1, <1>3, ModUnique
<1>5. QED
  BY <1>2, <1>4
-----------------------------------------------------------------------------
(* The window of the ring *)

\* How many elements lie between head h and tail t, and the slot of the i-th.
Size(h, t) == (t + Modulus - h) % Modulus
Slot(h, i) == ((h + i - 1) % Modulus) % Cap

Index == 0..Modulus - 1

\* The subtraction of push's full test, without the modulus.
LEMMA SizeValue ==
  ASSUME NEW h \in Index, NEW t \in Index
  PROVE  Size(h, t) = IF h <= t THEN t - h ELSE t + Modulus - h
<1>1. Modulus \in Nat \ {0}
  BY SizeAssumption
<1>2. CASE h <= t
  <2>1. t + Modulus - h \in Modulus..2 * Modulus - 1
    BY <1>1, <1>2 DEF Index
  <2>2. QED
    BY <1>1, <1>2, <2>1, ModOnce DEF Size, Index
<1>3. CASE h > t
  <2>1. t + Modulus - h \in 0..Modulus - 1
    BY <1>1, <1>3 DEF Index
  <2>2. QED
    BY <1>1, <1>3, <2>1, ModSmall DEF Size, Index
<1>4. QED
  BY <1>1, <1>2, <1>3 DEF Index

\* wrapping_add(1).
LEMMA NextValue ==
  ASSUME NEW t \in Index
  PROVE  /\ NextIndex(t) = IF t + 1 < Modulus THEN t + 1 ELSE 0
         /\ NextIndex(t) \in Index
<1>1. Modulus \in Nat \ {0}
  BY SizeAssumption
<1>2. CASE t + 1 < Modulus
  BY <1>1, <1>2, ModSmall DEF NextIndex, Index
<1>3. CASE t + 1 = Modulus
  BY <1>1, <1>3 DEF NextIndex, Index
<1>4. QED
  BY <1>1, <1>2, <1>3 DEF Index

\* Every slot is a place of the buffer.
LEMMA SlotType ==
  ASSUME NEW h \in Index, NEW i \in Nat \ {0}
  PROVE  Slot(h, i) \in 0..Cap - 1
<1>1. h + i - 1 \in Nat /\ Modulus \in Nat \ {0} /\ Cap \in Nat \ {0}
  BY SizeAssumption DEF Index
<1>2. (h + i - 1) % Modulus \in Nat
  BY <1>1, DivMod
<1>3. QED
  BY <1>1, <1>2, DivMod DEF Slot

\* The oldest element is in the slot of head, the next free slot is the one of tail.
LEMMA SlotEnds ==
  ASSUME NEW h \in Index, NEW t \in Index
  PROVE  Slot(h, 1) = h % Cap /\ Slot(h, Size(h, t) + 1) = t % Cap
<1>1. Modulus \in Nat \ {0}
  BY SizeAssumption
<1>2. h % Modulus = h /\ t % Modulus = t
  BY <1>1, ModSmall DEF Index
<1>3. (h + Size(h, t)) % Modulus = t
  <2>1. CASE h <= t
    BY <1>1, <1>2, <2>1, SizeValue DEF Index
  <2>2. CASE h > t
    <3>1. h + Size(h, t) = t + Modulus
      BY <1>1, <2>2, SizeValue DEF Index
    <3>2. t + Modulus \in Modulus..2 * Modulus - 1
      BY <1>1 DEF Index
    <3>3. QED
      BY <1>1, <3>1, <3>2, ModOnce DEF Index
  <2>3. QED
    BY <2>1, <2>2 DEF Index
<1>4. h + 1 - 1 = h /\ h + (Size(h, t) + 1) - 1 = h + Size(h, t)
  BY <1>1, SizeValue DEF Index
<1>5. QED
  BY <1>2, <1>3, <1>4 DEF Slot

\* Advancing head by one renames the i+1-st element the i-th.
LEMMA SlotNext ==
  ASSUME NEW h \in Index, NEW i \in 1..Modulus - 1
  PROVE  Slot(NextIndex(h), i) = Slot(h, i + 1)
<1>1. Modulus \in Nat \ {0}
  BY SizeAssumption
<1>2. CASE h + 1 < Modulus
  BY <1>1, <1>2, NextValue DEF Index, Slot
<1>3. CASE h + 1 = Modulus
  <2>1. NextIndex(h) = 0
    BY <1>1, <1>3, NextValue DEF Index
  <2>2. h + (i + 1) - 1 \in Modulus..2 * Modulus - 1 /\ i - 1 \in 0..Modulus - 1
    BY <1>1, <1>3 DEF Index
  <2>3. (h + (i + 1) - 1) % Modulus = i - 1
    BY <1>1, <1>3, <2>2, ModOnce DEF Index
  <2>4. (0 + i - 1) % Modulus = i - 1
    BY <1>1, <2>2, ModSmall
  <2>5. QED
    BY <2>1, <2>3, <2>4 DEF Slot
<1>4. QED
  BY <1>1, <1>2, <1>3 DEF Index

\* Where the counter may wrap, wrapping moves no element.
LEMMA SlotFlat ==
  ASSUME NEW h \in Index, NEW i \in 1..Modulus,
         Modulus % Cap = 0 \/ h + i - 1 < Modulus
  PROVE  Slot(h, i) = (h + i - 1) % Cap
<1>1. Modulus \in Nat \ {0} /\ Cap \in Nat \ {0}
  BY SizeAssumption
<1>2. CASE h + i - 1 < Modulus
  BY <1>1, <1>2, ModSmall DEF Index, Slot
<1>3. CASE h + i - 1 >= Modulus /\ Modulus % Cap = 0
  <2>1. h + i - 1 \in Modulus..2 * Modulus - 1
    BY <1>1, <1>3 DEF Index
  <2>2. (h + i - 1) % Modulus = h + i - 1 - Modulus
    BY <1>1, <2>1, ModOnce DEF Index
  <2>3. h + i - 1 - Modulus \in Nat
    BY <1>1, <2>1 DEF Index
  <2>4. ((h + i - 1 - Modulus) + Modulus) % Cap = (h + i - 1 - Modulus) % Cap
    BY <1>1, <1>3, <2>3, ModShift
  <2>5. (h + i - 1 - Modulus) + Modulus = h + i - 1
    BY <1>1 DEF Index
  <2>6. QED
    BY <2>2, <2>4, <2>5 DEF Slot
<1>4. QED
  BY <1>1, <1>2, <1>3 DEF Index

\* No two of Cap consecutive elements share a slot.
LEMMA SlotDistinct ==
  ASSUME NEW h \in Index, NEW i \in 1..Cap, NEW j \in 1..Cap, i < j,
         Modulus % Cap = 0 \/ h + j - 1 < Modulus
  PROVE  Slot(h, i) # Slot(h, j)
<1>1. Modulus \in Nat \ {0} /\ Cap \in Nat \ {0} /\ Cap < Modulus
  BY SizeAssumption
<1>2. Slot(h, i) = (h + i - 1) % Cap /\ Slot(h, j) = (h + j - 1) % Cap
  BY <1>1, SlotFlat DEF Index
<1>3. /\ h + i - 1 \in Nat /\ h + j - 1 \in Nat
      /\ h + i - 1 < h + j - 1 /\ h + j - 1 < h + i - 1 + Cap
  BY <1>1 DEF Index
<1>4. QED
  BY <1>1, <1>2, <1>3, ModDistinct
-----------------------------------------------------------------------------
(* The inductive invariant *)

TypeInv ==
  /\ head \in Index /\ tail \in Index
  /\ buffer \in [0..Cap - 1 -> Values \cup {Uninit}]
  /\ ints \in BOOLEAN
  /\ pc \in [Contexts ->
       {"idle", "cli", "load", "check", "access", "store", "restore", "iret"}]
  /\ op \in [Contexts -> {"push", "pop", "is_empty"}]
  /\ arg \in [Contexts -> Values]
  /\ loaded \in [Contexts -> Index]
  /\ saved \in [Contexts -> BOOLEAN]

\* The program points inside without_interrupts (for is_empty: inside the
\* cli of sleep_if_idle).
Masked == {"load", "check", "access", "store", "restore"}

\* Interrupts are off inside either context's critical section; a handler has
\* interrupted main outside of main's, and found IF cleared by the gate.
MaskInv ==
  /\ pc["main"] \in Masked => ~ints
  /\ pc["isr"] # "idle" => /\ ~ints
                           /\ op["isr"] = "push"
                           /\ pc["main"] \notin Masked
  /\ pc["isr"] \in Masked => ~saved["isr"]

\* An index loaded in a critical section is still the current one.
IndexInv ==
  \A c \in Contexts : pc[c] \in {"check", "access", "store"} =>
    loaded[c] = IF op[c] = "push" THEN tail ELSE head

\* The test made before the slot is accessed still holds.
SpaceInv ==
  \A c \in Contexts : pc[c] \in {"access", "store"} =>
    /\ op[c] = "push" => Size(head, tail) < Cap
    /\ op[c] = "pop" => Size(head, tail) > 0

\* The value is in the slot (push), or was read from it (pop), before the
\* index that publishes it moves.
ValueInv ==
  \A c \in Contexts : pc[c] = "store" =>
    /\ op[c] = "push" => buffer[tail % Cap] = arg[c]
    /\ op[c] = "pop" => buffer[head % Cap] = arg[c]

\* The ring holds at most Cap elements, each of them written.
WindowInv ==
  /\ Size(head, tail) <= Cap
  /\ \A i \in 1..Size(head, tail) : buffer[Slot(head, i)] \in Values

Pushing(c) ==
  op[c] = "push" /\ pc[c] \in {"cli", "load", "check", "access", "store"}

\* Where wrapping would move elements, every push under way has room.
CounterInv ==
  \/ Modulus % Cap = 0
  \/ /\ head <= tail
     /\ Pushing("main") => tail + 1 < Modulus
     /\ Pushing("isr") => tail + 2 < Modulus

QueueInv ==
  TypeInv /\ MaskInv /\ IndexInv /\ SpaceInv /\ ValueInv /\ WindowInv /\ CounterInv
-----------------------------------------------------------------------------
\* One more element after a push that found room.
LEMMA SizePush ==
  ASSUME NEW h \in Index, NEW t \in Index, Size(h, t) <= Cap
  PROVE  Size(h, NextIndex(t)) = Size(h, t) + 1
<1>1. Modulus \in Nat \ {0} /\ Cap \in Nat \ {0} /\ 2 * Cap < Modulus
  BY SizeAssumption
<1>2. PICK n \in Index : n = NextIndex(t)
  BY NextValue
<1>3. n = IF t + 1 < Modulus THEN t + 1 ELSE 0
  BY <1>2, NextValue
<1>4. Size(h, n) = IF h <= n THEN n - h ELSE n + Modulus - h
  BY SizeValue
<1>5. Size(h, t) = IF h <= t THEN t - h ELSE t + Modulus - h
  BY SizeValue
<1>6. QED
  BY <1>1, <1>2, <1>3, <1>4, <1>5 DEF Index

\* One element less after a pop that found one.
LEMMA SizePop ==
  ASSUME NEW h \in Index, NEW t \in Index, Size(h, t) > 0
  PROVE  Size(NextIndex(h), t) = Size(h, t) - 1
<1>1. Modulus \in Nat \ {0} /\ Cap \in Nat \ {0} /\ 2 * Cap < Modulus
  BY SizeAssumption
<1>2. PICK n \in Index : n = NextIndex(h)
  BY NextValue
<1>3. n = IF h + 1 < Modulus THEN h + 1 ELSE 0
  BY <1>2, NextValue
<1>4. Size(n, t) = IF n <= t THEN t - n ELSE t + Modulus - n
  BY SizeValue
<1>5. Size(h, t) = IF h <= t THEN t - h ELSE t + Modulus - h
  BY SizeValue
<1>6. QED
  BY <1>1, <1>2, <1>3, <1>4, <1>5 DEF Index

\* A size is an index, and only head = tail is empty.
LEMMA SizeType ==
  ASSUME NEW h \in Index, NEW t \in Index
  PROVE  Size(h, t) \in Index /\ (Size(h, t) = 0 <=> h = t)
<1>1. Modulus \in Nat \ {0} /\ Cap \in Nat \ {0} /\ 2 * Cap < Modulus
  BY SizeAssumption
<1>2. QED
  BY <1>1, SizeValue DEF Index

\* The slot push writes holds no element of the queue.
LEMMA FreeSlot ==
  ASSUME TypeInv, WindowInv, Size(head, tail) < Cap,
         Modulus % Cap = 0 \/ head <= tail
  PROVE  \A i \in 1..Size(head, tail) : Slot(head, i) # tail % Cap
<1>1. Modulus \in Nat \ {0} /\ Cap \in Nat \ {0} /\ 2 * Cap < Modulus
  BY SizeAssumption
<1>2. head \in Index /\ tail \in Index
  BY DEF TypeInv
<1> DEFINE s == Size(head, tail)
<1>3. s \in Nat /\ s < Cap
  BY <1>1, <1>2, SizeType DEF Index
<1>4. Slot(head, s + 1) = tail % Cap
  BY <1>2, SlotEnds
<1>5. Modulus % Cap = 0 \/ head + (s + 1) - 1 < Modulus
  BY <1>1, <1>2, SizeValue DEF Index
<1> HIDE DEF s
<1>6. ASSUME NEW i \in 1..s PROVE Slot(head, i) # Slot(head, s + 1)
  <2>1. i \in 1..Cap /\ s + 1 \in 1..Cap /\ i < s + 1
    BY <1>1, <1>3
  <2>2. QED
    BY <1>2, <1>5, <2>1, SlotDistinct
<1>7. QED
  BY <1>4, <1>6 DEF s
-----------------------------------------------------------------------------
\* The boot state: an empty ring, both contexts idle.
LEMMA QueueInvInit == Init => QueueInv
<1> SUFFICES ASSUME Init PROVE QueueInv
  OBVIOUS
<1>1. Modulus \in Nat \ {0} /\ Cap \in Nat \ {0} /\ 2 * Cap < Modulus
  BY SizeAssumption
<1>2. TypeInv
  BY <1>1 DEF Init, TypeInv, Index, Contexts
<1>3. Size(head, tail) = 0
  BY <1>2, SizeType DEF Init, TypeInv
<1>4. WindowInv
  BY <1>1, <1>3 DEF WindowInv
<1>5. QED
  BY <1>1, <1>2, <1>4
     DEF Init, QueueInv, MaskInv, IndexInv, SpaceInv, ValueInv, CounterInv, Pushing,
         Contexts, Masked

\* A call that starts: no index, slot or mask moves.
LEMMA CallStep ==
  ASSUME QueueInv, NEW c \in Contexts, NEW o \in {"push", "pop", "is_empty"},
         NEW v \in Values, Call(c, o, v), ints' \in BOOLEAN,
         o = "push" => CounterRoom,
         c = "main" => ints' = ints /\ (o = "is_empty" <=> ~ints),
         c = "isr" => ints /\ ~ints' /\ o = "push"
  PROVE  QueueInv'
<1>1. Modulus \in Nat \ {0} /\ Cap \in Nat \ {0} /\ 2 * Cap < Modulus
  BY SizeAssumption
<1>2. UNCHANGED <<head, tail, buffer, loaded, saved>>
  BY DEF Call
<1>3. TypeInv'
  BY <1>2 DEF QueueInv, TypeInv, Call, Goto, Contexts
<1>4. MaskInv'
  BY <1>2 DEF QueueInv, TypeInv, MaskInv, Call, Goto, At, Runs, Contexts, Masked
<1>5. IndexInv' /\ SpaceInv' /\ ValueInv'
  BY <1>2 DEF QueueInv, TypeInv, IndexInv, SpaceInv, ValueInv, Call, Goto, Contexts
<1>6. WindowInv'
  BY <1>2 DEF QueueInv, WindowInv
<1>7. CounterInv'
  BY <1>1, <1>2
     DEF QueueInv, TypeInv, CounterInv, CounterRoom, Pushing, Call, Goto, Contexts, Index
<1>8. QED
  BY <1>3, <1>4, <1>5, <1>6, <1>7 DEF QueueInv

\* The steps that move neither an index nor a slot and call nothing: the masking
\* and unmasking of interrupts, the loads, the tests and the read of pop.
LEMMA QuietStep ==
  ASSUME QueueInv,
         \/ MainDisable \/ MainEnable \/ Iret \/ PopRead("main")
         \/ PopCheck("main") \/ IsEmptyCheck("main")
         \/ \E c \in Contexts : \/ WithoutInterrupts(c) \/ Load(c) \/ Restore(c)
                                \/ PushCheck(c)
  PROVE  QueueInv'
<1>1. Modulus \in Nat \ {0} /\ Cap \in Nat \ {0} /\ 2 * Cap < Modulus
  BY SizeAssumption
<1>2. UNCHANGED <<head, tail, buffer>>
  BY DEF MainDisable, MainEnable, Iret, PopRead, PopCheck, IsEmptyCheck,
         WithoutInterrupts, Load, Restore, PushCheck
<1>3. WindowInv'
  BY <1>2 DEF QueueInv, WindowInv
<1>4. head \in Index /\ tail \in Index /\ Size(head, tail) \in Index
  BY SizeType DEF QueueInv, TypeInv
<1> USE <1>2 DEF QueueInv, TypeInv, Goto, Contexts
<1>5. CASE MainDisable
  <2>1. UNCHANGED <<pc, op, arg, loaded, saved>> /\ ints' = FALSE
    BY <1>5 DEF MainDisable
  <2>2. QED
    BY <1>3, <2>1 DEF MaskInv, IndexInv, SpaceInv, ValueInv, CounterInv, Pushing
<1>6. CASE MainEnable
  <2>1. UNCHANGED <<pc, op, arg, loaded, saved>> /\ ints' = TRUE
    BY <1>6 DEF MainEnable
  <2>2. MaskInv'
    BY <1>6 DEF MaskInv, MainEnable, At, Runs, Masked
  <2>3. QED
    BY <1>3, <2>1, <2>2 DEF IndexInv, SpaceInv, ValueInv, CounterInv, Pushing
<1>7. CASE Iret
  <2>1. MaskInv'
    BY <1>7 DEF MaskInv, Iret, Masked
  <2>2. QED
    BY <1>3, <1>7, <2>1 DEF IndexInv, SpaceInv, ValueInv, CounterInv, Pushing, Iret
<1>8. CASE PopRead("main")
  <2>1. loaded["main"] = head /\ Size(head, tail) > 0
    BY <1>8 DEF PopRead, At, IndexInv, SpaceInv
  <2>2. buffer[head % Cap] \in Values
    <3>1. 1 \in 1..Size(head, tail) /\ Slot(head, 1) = head % Cap
      BY <1>1, <1>4, <2>1, SlotEnds DEF Index
    <3>2. QED
      BY <3>1 DEF WindowInv
  <2>3. MaskInv'
    BY <1>8 DEF MaskInv, PopRead, At, Masked
  <2>4. QED
    BY <1>3, <1>8, <2>1, <2>2, <2>3
       DEF IndexInv, SpaceInv, ValueInv, CounterInv, Pushing, PopRead, At, Runs
<1>9. CASE PopCheck("main")
  <2>1. loaded["main"] = head
    BY <1>9 DEF PopCheck, At, IndexInv
  <2>2. Size(head, tail) > 0 \/ pc'["main"] = "restore"
    BY <1>1, <1>4, <1>9, <2>1, SizeType DEF PopCheck, Index
  <2>3. MaskInv'
    BY <1>9 DEF MaskInv, PopCheck, At, Masked
  <2>4. QED
    BY <1>3, <1>9, <2>1, <2>2, <2>3
       DEF IndexInv, SpaceInv, ValueInv, CounterInv, Pushing, PopCheck, At, Runs
<1>10. CASE IsEmptyCheck("main")
  BY <1>3, <1>10
     DEF MaskInv, IndexInv, SpaceInv, ValueInv, CounterInv, Pushing, IsEmptyCheck, At,
         Runs, Masked
<1>11. ASSUME NEW c \in Contexts, WithoutInterrupts(c) PROVE QueueInv'
  <2>1. MaskInv'
    BY <1>11 DEF MaskInv, WithoutInterrupts, At, Runs, Masked
  <2>2. QED
    BY <1>3, <1>11, <2>1
       DEF IndexInv, SpaceInv, ValueInv, CounterInv, Pushing, WithoutInterrupts, At
<1>12. ASSUME NEW c \in Contexts, Load(c) PROVE QueueInv'
  <2>1. MaskInv'
    BY <1>12 DEF MaskInv, Load, At, Runs, Masked
  <2>2. QED
    BY <1>3, <1>4, <1>12, <2>1
       DEF IndexInv, SpaceInv, ValueInv, CounterInv, Pushing, Load, At
<1>13. ASSUME NEW c \in Contexts, Restore(c) PROVE QueueInv'
  <2>1. MaskInv'
    BY <1>13 DEF MaskInv, Restore, At, Runs, Masked
  <2>2. QED
    BY <1>3, <1>13, <2>1
       DEF IndexInv, SpaceInv, ValueInv, CounterInv, Pushing, Restore, At
<1>14. ASSUME NEW c \in Contexts, PushCheck(c) PROVE QueueInv'
  <2>1. MaskInv'
    BY <1>14 DEF MaskInv, PushCheck, At, Runs, Masked
  <2>2. loaded[c] = tail
    BY <1>14 DEF PushCheck, At, IndexInv
  <2>3. Size(head, NextIndex(tail)) = Size(head, tail) + 1
    BY <1>4, SizePush DEF WindowInv
  <2>4. pc'[c] = "access" => Size(head, tail) < Cap
    BY <1>1, <1>4, <1>14, <2>2, <2>3 DEF PushCheck, Size, Index
  <2>5. QED
    BY <1>3, <1>14, <2>1, <2>2, <2>4
       DEF IndexInv, SpaceInv, ValueInv, CounterInv, Pushing, PushCheck, At
<1>15. QED
  BY <1>5, <1>6, <1>7, <1>8, <1>9, <1>10, <1>11, <1>12, <1>13, <1>14

\* push writes its slot: no element of the queue is overwritten.
LEMMA PushWriteStep ==
  ASSUME QueueInv, NEW c \in Contexts, PushWrite(c)
  PROVE  QueueInv' /\ \A i \in 1..Size(head, tail) : buffer'[Slot(head, i)] = buffer[Slot(head, i)]
<1>1. Modulus \in Nat \ {0} /\ Cap \in Nat \ {0} /\ 2 * Cap < Modulus
  BY SizeAssumption
<1>2. head \in Index /\ tail \in Index /\ Size(head, tail) \in Index
  BY SizeType DEF QueueInv, TypeInv
<1>3. loaded[c] = tail /\ Size(head, tail) < Cap
  BY DEF QueueInv, PushWrite, At, IndexInv, SpaceInv
<1>4. tail % Cap \in 0..Cap - 1
  BY <1>1, <1>2, DivMod DEF Index
<1>5. \A i \in 1..Size(head, tail) : Slot(head, i) # tail % Cap
  BY <1>1, <1>3, FreeSlot DEF QueueInv, CounterInv
<1>6. \A i \in 1..Size(head, tail) : Slot(head, i) \in 0..Cap - 1
  BY <1>1, <1>2, SlotType DEF Index
<1>7. buffer' = [buffer EXCEPT ![tail % Cap] = arg[c]] /\ UNCHANGED <<head, tail>>
  BY <1>3 DEF PushWrite
<1>8. \A i \in 1..Size(head, tail) : buffer'[Slot(head, i)] = buffer[Slot(head, i)]
  BY <1>5, <1>6, <1>7 DEF QueueInv, TypeInv
<1>9. TypeInv'
  BY <1>4, <1>7 DEF QueueInv, TypeInv, PushWrite, Goto, Contexts
<1>10. MaskInv'
  BY DEF QueueInv, TypeInv, MaskInv, PushWrite, Goto, At, Runs, Contexts, Masked
<1>11. WindowInv'
  BY <1>7, <1>8 DEF QueueInv, WindowInv
<1>12. IndexInv' /\ SpaceInv' /\ CounterInv'
  BY <1>3, <1>7
     DEF QueueInv, TypeInv, IndexInv, SpaceInv, CounterInv, Pushing, PushWrite, Goto, At,
         Contexts
<1>13. ValueInv'
  <2>1. buffer'[tail % Cap] = arg[c] /\ arg' = arg /\ op' = op
    BY <1>4, <1>7 DEF QueueInv, TypeInv, PushWrite
  <2>2. \A d \in Contexts : pc'[d] = "store" => d = c
    BY DEF QueueInv, TypeInv, MaskInv, PushWrite, Goto, At, Runs, Contexts, Masked
  <2>3. QED
    BY <1>7, <2>1, <2>2 DEF ValueInv, PushWrite
<1>14. QED
  BY <1>8, <1>9, <1>10, <1>11, <1>12, <1>13 DEF QueueInv

\* push stores tail: the written slot becomes the youngest element.
LEMMA PushStoreStep ==
  ASSUME QueueInv, NEW c \in Contexts, PushStore(c)
  PROVE  /\ QueueInv'
         /\ Size(head, tail) < Cap
         /\ head' = head /\ buffer' = buffer
         /\ Size(head, tail') = Size(head, tail) + 1
         /\ buffer[Slot(head, Size(head, tail) + 1)] = arg[c]
<1>1. Modulus \in Nat \ {0} /\ Cap \in Nat \ {0} /\ 2 * Cap < Modulus
  BY SizeAssumption
<1>2. head \in Index /\ tail \in Index /\ Size(head, tail) \in Index
  BY SizeType DEF QueueInv, TypeInv
<1>3. loaded[c] = tail /\ Size(head, tail) < Cap /\ buffer[tail % Cap] = arg[c]
  BY DEF QueueInv, PushStore, At, IndexInv, SpaceInv, ValueInv
<1>4. tail' = NextIndex(tail) /\ head' = head /\ buffer' = buffer
  BY <1>3 DEF PushStore
<1>5. Size(head, tail') = Size(head, tail) + 1
  BY <1>1, <1>2, <1>3, <1>4, SizePush DEF Index
<1>6. buffer[Slot(head, Size(head, tail) + 1)] = arg[c]
  BY <1>2, <1>3, SlotEnds
<1>7. TypeInv'
  BY <1>2, <1>4, NextValue DEF QueueInv, TypeInv, PushStore, Goto, Contexts
<1>8. MaskInv'
  BY DEF QueueInv, TypeInv, MaskInv, PushStore, Goto, At, Runs, Contexts, Masked
<1>9. WindowInv'
  <2>1. arg[c] \in Values
    BY DEF QueueInv, TypeInv
  <2>2. \A i \in 1..Size(head, tail) + 1 : i \in 1..Size(head, tail) \/ i = Size(head, tail) + 1
    BY <1>1, <1>2 DEF Index
  <2>3. \A i \in 1..Size(head, tail) + 1 : buffer[Slot(head, i)] \in Values
    BY <1>6, <2>1, <2>2 DEF QueueInv, WindowInv
  <2>4. QED
    BY <1>1, <1>2, <1>3, <1>4, <1>5, <2>3 DEF WindowInv, Index
<1>10. \A d \in Contexts : pc'[d] \notin {"check", "access", "store"}
  BY DEF QueueInv, TypeInv, MaskInv, PushStore, Goto, At, Runs, Contexts, Masked
<1>11. IndexInv' /\ SpaceInv' /\ ValueInv'
  BY <1>10 DEF IndexInv, SpaceInv, ValueInv
<1>12. CounterInv'
  <2>1. CASE Modulus % Cap = 0
    BY <2>1 DEF CounterInv
  <2>2. CASE Modulus % Cap # 0
    <3>1. head <= tail /\ tail + 1 < Modulus /\ tail' = tail + 1
      <4>1. Pushing(c) /\ (c = "main" \/ c = "isr")
        BY DEF Pushing, PushStore, At, Contexts
      <4>2. head <= tail /\ tail + 1 < Modulus
        BY <1>1, <1>2, <2>2, <4>1 DEF QueueInv, CounterInv, Index
      <4>3. QED
        BY <1>2, <1>4, <4>2, NextValue
    <3>2. c = "isr" => tail + 2 < Modulus
      BY <2>2 DEF QueueInv, CounterInv, Pushing, PushStore, At
    <3>3. ~Pushing("isr")'
      BY <1>10 DEF Pushing, PushStore, QueueInv, TypeInv, MaskInv, Goto, At, Runs, Contexts,
                   Masked
    <3>4. c = "main" => ~Pushing("main")'
      BY DEF Pushing, PushStore, QueueInv, TypeInv, Goto, Contexts
    <3>5. QED
      BY <1>2, <1>4, <3>1, <3>2, <3>3, <3>4 DEF CounterInv, Contexts, Index
  <2>3. QED
    BY <2>1, <2>2
<1>13. QED
  BY <1>3, <1>4, <1>5, <1>6, <1>7, <1>8, <1>9, <1>11, <1>12 DEF QueueInv

\* pop stores head: the value read leaves the queue.
LEMMA PopStoreStep ==
  ASSUME QueueInv, PopStore("main")
  PROVE  /\ QueueInv'
         /\ Size(head, tail) > 0
         /\ tail' = tail /\ buffer' = buffer
         /\ Size(head', tail) = Size(head, tail) - 1
         /\ buffer[Slot(head, 1)] = arg["main"]
         /\ \A i \in 1..Size(head, tail) - 1 : Slot(head', i) = Slot(head, i + 1)
<1>1. Modulus \in Nat \ {0} /\ Cap \in Nat \ {0} /\ 2 * Cap < Modulus
  BY SizeAssumption
<1>2. head \in Index /\ tail \in Index /\ Size(head, tail) \in Index
  BY SizeType DEF QueueInv, TypeInv
<1>3. loaded["main"] = head /\ Size(head, tail) > 0 /\ buffer[head % Cap] = arg["main"]
  BY DEF QueueInv, PopStore, At, IndexInv, SpaceInv, ValueInv, Contexts
<1>4. head' = NextIndex(head) /\ tail' = tail /\ buffer' = buffer
  BY <1>3 DEF PopStore
<1>5. Size(head', tail) = Size(head, tail) - 1
  BY <1>2, <1>3, <1>4, SizePop
<1>6. buffer[Slot(head, 1)] = arg["main"]
  BY <1>2, <1>3, SlotEnds
<1>7. \A i \in 1..Size(head, tail) - 1 : Slot(head', i) = Slot(head, i + 1)
  BY <1>1, <1>2, <1>4, SlotNext DEF Index
<1>8. TypeInv'
  BY <1>2, <1>4, NextValue DEF QueueInv, TypeInv, PopStore, Goto, Contexts
<1>9. MaskInv'
  BY DEF QueueInv, TypeInv, MaskInv, PopStore, Goto, At, Runs, Contexts, Masked
<1>10. WindowInv'
  <2>1. \A i \in 1..Size(head, tail) - 1 : i + 1 \in 1..Size(head, tail)
    BY <1>1, <1>2 DEF Index
  <2>2. \A i \in 1..Size(head, tail) - 1 : buffer[Slot(head', i)] \in Values
    BY <1>7, <2>1 DEF QueueInv, WindowInv
  <2>3. Size(head, tail) - 1 <= Cap
    BY <1>1, <1>2 DEF QueueInv, WindowInv, Index
  <2>4. QED
    BY <1>4, <1>5, <2>2, <2>3 DEF WindowInv
<1>11. \A d \in Contexts : pc'[d] \notin {"check", "access", "store"}
  BY DEF QueueInv, TypeInv, MaskInv, PopStore, Goto, At, Runs, Contexts, Masked
<1>12. IndexInv' /\ SpaceInv' /\ ValueInv'
  BY <1>11 DEF IndexInv, SpaceInv, ValueInv
<1>13. CounterInv'
  <2>1. CASE Modulus % Cap = 0
    BY <2>1 DEF CounterInv
  <2>2. CASE Modulus % Cap # 0
    <3>1. head <= tail /\ head # tail
      BY <1>2, <1>3, <2>2, SizeType DEF QueueInv, CounterInv
    <3>2. head' <= tail
      BY <1>1, <1>2, <1>4, <3>1, NextValue DEF Index
    <3>3. QED
      BY <1>4, <2>2, <3>2 DEF QueueInv, TypeInv, CounterInv, Pushing, PopStore, Goto, Contexts
  <2>3. QED
    BY <2>1, <2>2
<1>14. QED
  BY <1>3, <1>4, <1>5, <1>6, <1>7, <1>8, <1>9, <1>10, <1>12, <1>13 DEF QueueInv

\* Every step of either context keeps the invariant.
LEMMA QueueInvNext == QueueInv /\ [Next]_vars => QueueInv'
<1> SUFFICES ASSUME QueueInv, [Next]_vars PROVE QueueInv'
  OBVIOUS
<1>1. ASSUME NEW v \in Values, MainPush(v) PROVE QueueInv'
  <2>1. ints' \in BOOLEAN /\ ints' = ints
    BY <1>1 DEF MainPush, QueueInv, TypeInv
  <2>2. QED
    BY <1>1, <2>1, CallStep DEF MainPush, Contexts
<1>2. ASSUME NEW v \in Values, IsrPush(v) PROVE QueueInv'
  <2>1. ints' \in BOOLEAN /\ ~ints'
    BY <1>2 DEF IsrPush
  <2>2. QED
    BY <1>2, <2>1, CallStep DEF IsrPush, Contexts
<1>3. CASE MainPop
  <2>1. ints' \in BOOLEAN /\ ints' = ints /\ arg["main"] \in Values
    BY <1>3 DEF MainPop, QueueInv, TypeInv, Contexts
  <2>2. QED
    BY <1>3, <2>1, CallStep DEF MainPop, Contexts
<1>4. CASE MainIsEmpty
  <2>1. ints' \in BOOLEAN /\ ints' = ints /\ arg["main"] \in Values
    BY <1>4 DEF MainIsEmpty, QueueInv, TypeInv, Contexts
  <2>2. QED
    BY <1>4, <2>1, CallStep DEF MainIsEmpty, Contexts
<1>5. CASE MainDisable \/ MainEnable \/ Iret
  BY <1>5, QuietStep
<1>6. ASSUME NEW c \in Contexts, Step(c) PROVE QueueInv'
  BY <1>6, QuietStep, PushWriteStep, PushStoreStep DEF Step
<1>7. CASE MainStep
  BY <1>7, QuietStep, PopStoreStep DEF MainStep
<1>8. CASE UNCHANGED vars
  BY <1>8
     DEF vars, QueueInv, TypeInv, MaskInv, IndexInv, SpaceInv, ValueInv, WindowInv,
         CounterInv, Pushing
<1>9. QED
  BY <1>1, <1>2, <1>3, <1>4, <1>5, <1>6, <1>7, <1>8 DEF Next

\* The invariant holds in every reachable state.
THEOREM QueueInvariant == Spec => []QueueInv
  BY QueueInvInit, QueueInvNext, PTL DEF Spec

\* No handler is interrupted, and pop never returns a slot that was not written:
\* the without_interrupts of push restores the IF the gate cleared.
THEOREM HandlerNeverInterrupted == Spec => []HandlerUninterrupted
<1>1. QueueInv => HandlerUninterrupted
  BY DEF QueueInv, TypeInv, MaskInv, HandlerUninterrupted
<1>2. QED
  BY <1>1, QueueInvariant, PTL
-----------------------------------------------------------------------------
(* The refinement *)

\* The abstract queue is a sequence of Size elements.
LEMMA ContentsValue ==
  ASSUME QueueInv
  PROVE  /\ Contents \in Seq(Values)
         /\ Len(Contents) = Size(head, tail)
         /\ Size(head, tail) \in Nat
         /\ \A i \in 1..Size(head, tail) : Contents[i] = buffer[Slot(head, i)]
<1>1. Size(head, tail) \in Nat
  <2>1. Size(head, tail) \in Index
    BY SizeType DEF QueueInv, TypeInv
  <2>2. QED
    BY <2>1, SizeAssumption DEF Index
<1>2. Contents = [i \in 1..Size(head, tail) |-> buffer[Slot(head, i)]]
  BY DEF Contents, Size, Slot
<1>3. \A i \in 1..Size(head, tail) : buffer[Slot(head, i)] \in Values
  BY DEF QueueInv, WindowInv
<1> HIDE DEF Contents
<1>4. QED
  BY <1>1, <1>2, <1>3

\* The same window over the same slots is the same queue.
LEMMA ContentsKept ==
  ASSUME QueueInv, head' = head, tail' = tail,
         \A i \in 1..Size(head, tail) : buffer'[Slot(head, i)] = buffer[Slot(head, i)]
  PROVE  Contents' = Contents
<1>1. Contents = [i \in 1..Size(head, tail) |-> buffer[Slot(head, i)]]
  BY DEF Contents, Size, Slot
<1>2. Contents' = [i \in 1..Size(head', tail') |-> buffer'[Slot(head', i)]]
  BY DEF Contents, Size, Slot
<1>3. QED
  BY <1>1, <1>2

\* What PushStore does to the abstract queue.
LEMMA ContentsPush ==
  ASSUME QueueInv, NEW c \in Contexts, PushStore(c)
  PROVE  Contents' = Append(Contents, arg[c]) /\ Len(Contents) < Cap
<1> DEFINE n == Size(head, tail)
<1>1. /\ head' = head /\ buffer' = buffer /\ n < Cap
      /\ Size(head, tail') = n + 1 /\ buffer[Slot(head, n + 1)] = arg[c]
  BY PushStoreStep
<1>2. /\ Contents \in Seq(Values) /\ Len(Contents) = n /\ n \in Nat
      /\ \A i \in 1..n : Contents[i] = buffer[Slot(head, i)]
  BY ContentsValue
<1>3. Contents' = [i \in 1..n + 1 |-> buffer[Slot(head, i)]]
  <2>1. Contents' = [i \in 1..Size(head', tail') |-> buffer'[Slot(head', i)]]
    BY DEF Contents, Size, Slot
  <2>2. QED
    BY <1>1, <2>1
<1> HIDE DEF n
<1>4. \A i \in 1..n + 1 : Append(Contents, arg[c])[i] = buffer[Slot(head, i)]
  BY <1>1, <1>2
<1>5. Append(Contents, arg[c]) = [i \in 1..n + 1 |-> Append(Contents, arg[c])[i]]
  BY <1>2
<1>6. QED
  BY <1>1, <1>2, <1>3, <1>4, <1>5

\* What PopStore does to the abstract queue.
LEMMA ContentsPop ==
  ASSUME QueueInv, PopStore("main")
  PROVE  Contents' = Tail(Contents) /\ Contents # <<>> /\ Head(Contents) = arg["main"]
<1> DEFINE n == Size(head, tail)
<1>1. /\ tail' = tail /\ buffer' = buffer /\ n > 0
      /\ Size(head', tail) = n - 1 /\ buffer[Slot(head, 1)] = arg["main"]
      /\ \A i \in 1..n - 1 : Slot(head', i) = Slot(head, i + 1)
  BY PopStoreStep
<1>2. /\ Contents \in Seq(Values) /\ Len(Contents) = n /\ n \in Nat
      /\ \A i \in 1..n : Contents[i] = buffer[Slot(head, i)]
  BY ContentsValue
<1>3. Contents' = [i \in 1..n - 1 |-> buffer[Slot(head, i + 1)]]
  <2>1. Contents' = [i \in 1..Size(head', tail') |-> buffer'[Slot(head', i)]]
    BY DEF Contents, Size, Slot
  <2>2. QED
    BY <1>1, <2>1
<1> HIDE DEF n
<1>4. Contents # <<>> /\ Head(Contents) = arg["main"]
  BY <1>1, <1>2
<1>5. \A i \in 1..n - 1 : Tail(Contents)[i] = buffer[Slot(head, i + 1)]
  BY <1>1, <1>2
<1>6. Tail(Contents) = [i \in 1..n - 1 |-> Tail(Contents)[i]]
  <2>1. Tail(Contents) \in Seq(Values) /\ Len(Tail(Contents)) = n - 1
    BY <1>2, <1>4
  <2>2. QED
    BY <2>1, LenProperties
<1>7. QED
  BY <1>3, <1>4, <1>5, <1>6

\* The empty ring is the empty sequence.
LEMMA ContentsEmpty ==
  ASSUME QueueInv
  PROVE  Contents = <<>> <=> head = tail
<1>1. Size(head, tail) = 0 <=> head = tail
  BY SizeType DEF QueueInv, TypeInv
<1>2. QED
  BY <1>1, ContentsValue

\* Every step is a step of the queue or leaves queue and answers alone.
LEMMA QueueStep ==
  ASSUME QueueInv, [Next]_vars
  PROVE  [Fifo!Next]_<<Contents, res>>
<1> USE DEF Fifo!Next, Answer, NoAnswer, Fifo!NoAnswer
<1>1. ASSUME NEW c \in Contexts, res' = [res EXCEPT ![c] = NoAnswer],
             UNCHANGED <<head, tail, buffer>>
      PROVE  Fifo!Next
  BY <1>1, ContentsKept DEF Fifo!Begin
<1>2. ASSUME UNCHANGED <<head, tail, buffer, res>> PROVE UNCHANGED <<Contents, res>>
  BY <1>2, ContentsKept
<1>3. CASE \/ \E v \in Values : MainPush(v) \/ IsrPush(v)
           \/ MainPop \/ MainIsEmpty \/ MainDisable \/ MainEnable
  BY <1>1, <1>3
     DEF MainPush, IsrPush, MainPop, MainIsEmpty, MainDisable, MainEnable, Call, Contexts
<1>4. ASSUME NEW c \in Contexts, WithoutInterrupts(c) \/ Load(c) \/ Restore(c)
      PROVE  UNCHANGED <<Contents, res>>
  BY <1>2, <1>4 DEF WithoutInterrupts, Load, Restore
<1>5. ASSUME NEW c \in Contexts, PushCheck(c) PROVE [Fifo!Next]_<<Contents, res>>
  <2>1. Contents' = Contents /\ arg[c] \in Values
    BY <1>5, ContentsKept DEF PushCheck, QueueInv, TypeInv
  <2>2. CASE res' = res
    BY <2>1, <2>2
  <2>3. CASE res' # res
    <3>1. loaded[c] = tail /\ res' = [res EXCEPT ![c] = <<"rejected", arg[c]>>]
          /\ (NextIndex(loaded[c]) + Modulus - head) % Modulus > Cap
      BY <1>5, <2>3 DEF PushCheck, At, QueueInv, IndexInv
    <3>2. Size(head, tail) + 1 > Cap
      <4>1. Size(head, NextIndex(tail)) = Size(head, tail) + 1
        BY SizePush DEF QueueInv, TypeInv, WindowInv
      <4>2. QED
        BY <3>1, <4>1 DEF Size
    <3>3. Len(Contents) = Cap
      BY <3>2, ContentsValue, SizeAssumption DEF QueueInv, WindowInv
    <3>4. Fifo!Push(c, arg[c])
      BY <2>1, <3>1, <3>3 DEF Fifo!Push
    <3>5. QED
      BY <2>1, <3>4
  <2>4. QED
    BY <2>2, <2>3
<1>6. ASSUME NEW c \in Contexts, PushWrite(c) PROVE UNCHANGED <<Contents, res>>
  <2>1. \A i \in 1..Size(head, tail) : buffer'[Slot(head, i)] = buffer[Slot(head, i)]
    BY <1>6, PushWriteStep
  <2>2. QED
    BY <1>6, <2>1, ContentsKept DEF PushWrite
<1>7. ASSUME NEW c \in Contexts, PushStore(c) PROVE Fifo!Next
  <2>1. Fifo!Push(c, arg[c])
    BY <1>7, ContentsPush DEF Fifo!Push, PushStore
  <2>2. QED
    BY <2>1 DEF QueueInv, TypeInv
<1>8. CASE PopCheck("main")
  <2>1. Contents' = Contents /\ loaded["main"] = head
    BY <1>8, ContentsKept DEF PopCheck, At, QueueInv, IndexInv, Contexts
  <2>2. CASE res' = res
    BY <2>1, <2>2
  <2>3. CASE res' # res
    <3>1. res' = [res EXCEPT !["main"] = <<"nothing">>] /\ Contents = <<>>
      BY <1>8, <2>1, <2>3, ContentsEmpty DEF PopCheck
    <3>2. Fifo!Pop("main")
      BY <2>1, <3>1 DEF Fifo!Pop
    <3>3. QED
      BY <3>2 DEF Contexts
  <2>4. QED
    BY <2>2, <2>3
<1>9. CASE PopRead("main")
  BY <1>2, <1>9 DEF PopRead
<1>10. CASE PopStore("main")
  <2>1. Fifo!Pop("main")
    BY <1>10, ContentsPop DEF Fifo!Pop, PopStore
  <2>2. QED
    BY <2>1 DEF Contexts
<1>11. CASE IsEmptyCheck("main")
  <2>1. Contents' = Contents /\ loaded["main"] = head
    BY <1>11, ContentsKept DEF IsEmptyCheck, At, QueueInv, IndexInv, Contexts
  <2>2. Fifo!IsEmpty("main")
    BY <1>11, <2>1, ContentsEmpty DEF Fifo!IsEmpty, IsEmptyCheck
  <2>3. QED
    BY <2>2 DEF Contexts
<1>12. CASE Iret
  BY <1>2, <1>12 DEF Iret
<1>13. CASE UNCHANGED vars
  BY <1>2, <1>13 DEF vars
<1>14. QED
  BY <1>3, <1>4, <1>5, <1>6, <1>7, <1>8, <1>9, <1>10, <1>11, <1>12, <1>13
     DEF Next, Step, MainStep

\* push, pop and is_empty of ArrayQueue take effect atomically, in order and within
\* the capacity, for every interleaving of the main thread with its handlers.
THEOREM ArrayQueueIsFifo == Spec => ImplementsFifo
<1>1. Init => Fifo!Init
  <2> SUFFICES ASSUME Init PROVE Fifo!Init
    OBVIOUS
  <2>1. Contents = <<>>
    BY QueueInvInit, ContentsEmpty DEF Init
  <2>2. QED
    BY <2>1 DEF Init, Fifo!Init, Fifo!NoAnswer, NoAnswer
<1>2. QueueInv /\ [Next]_vars => [Fifo!Next]_<<Contents, res>>
  BY QueueStep
<1>3. QED
  BY <1>1, <1>2, QueueInvariant, PTL DEF Spec, ImplementsFifo, Fifo!Spec
=============================================================================
