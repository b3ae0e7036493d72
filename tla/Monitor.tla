-------------------------------- MODULE Monitor --------------------------------
(***************************************************************************)
(* Observability: the counters of monitor.rs and the trace ring (module    *)
(* Trace), fed by the heap (GlobalAlloc in allocator.rs) and by the two    *)
(* device handlers, and read by the shell's mem and trace commands and     *)
(* by the crash dump (main.rs, debug.rs).                                  *)
(*                                                                         *)
(* The main thread is a sequence of operations, one per atomic access that *)
(* a handler or a failure can come before; loads of counters that no       *)
(* handler changes are one operation.  A panic abandons what the main      *)
(* thread was doing, with the heap locked if it was inside an allocation.  *)
(***************************************************************************)
EXTENDS Trace, FiniteSetsExt

CONSTANTS Sizes,   \* sizes of allocations
          Message, \* size of the formatted panic message
          MaxKeys  \* bound: keyboard interrupts in a behaviour

ASSUME MonitorAssumption ==
  /\ IsFiniteSet(Sizes) /\ Sizes \subseteq Nat \ {0} /\ Message \in Sizes
  /\ MaxKeys \in Nat

VARIABLES
  todo,    \* operations the running code has left
  crashed, \* the panic handler runs
  ints,    \* RFLAGS.IF
  locked,  \* the heap is locked
  live,    \* how many allocations of each size are live
  mallocs, \* history: allocations that succeeded
  highest, \* history: the most memory ever in use
  heap,    \* MONITOR: alloc_count, free_count, current_allocated, peak_allocated
  irqs,    \* MONITOR.interrupt_counts
  timer_ticks,
  snap     \* the snapshot: what has been loaded so far

traceVars == vars
heapVars == <<locked, live, mallocs, highest, heap>>
irqVars == <<irqs, timer_ticks>>
monitorVars == <<traceVars, todo, crashed, ints, heapVars, irqVars, snap>>
-----------------------------------------------------------------------------
(* Code *)

Do(op, size) == [op |-> op, size |-> size]

\* Mutant: the lock is released before the allocation is counted.
alloc_unlocks_early(size) ==
  <<Do("malloc", size), Do("unlock", size), Do("alloc_count", size),
    Do("current_add", size), Do("peak", size), Do("record_alloc", size)>>

\* GlobalAlloc::alloc and inc_alloc: the guard lives until alloc returns.
alloc(size) ==
  <<Do("malloc", size), Do("alloc_count", size), Do("current_add", size),
    Do("peak", size), Do("record_alloc", size), Do("unlock", size)>>

\* GlobalAlloc::dealloc and inc_free: the guard is gone once free returns.
dealloc(size) ==
  <<Do("free", size), Do("free_count", size), Do("current_sub", size),
    Do("record_free", size)>>

\* Mutant: the ticks are loaded first.
snapshot_ticks_first == <<Do("load_ticks", 0), Do("load_irqs", 0), Do("load_heap", 0)>>

\* snapshot: the interrupt counts first, the ticks last.
snapshot == <<Do("load_irqs", 0), Do("load_heap", 0), Do("load_ticks", 0)>>

\* The panic handler: format the message, crash_dump, drop the message.
panic == alloc(Message) \o snapshot \o <<Do("dump_last", 0)>> \o dealloc(Message)

\* What a task does next: an allocation, a deallocation, the commands mem and trace.
Calls ==
  {alloc(s) : s \in Sizes} \cup {dealloc(s) : s \in {r \in Sizes : live[r] > 0}}
    \cup {snapshot, <<Do("dump_last", 0)>>}

Records(code) == Len(SelectSeq(code, LAMBDA o : o.op \in {"record_alloc", "record_free"}))

\* MaxEvents leaves room for the events still to be recorded and for a panic's two.
Fits(n) == Len(recorded) + n + 2 <= MaxEvents
-----------------------------------------------------------------------------
MonitorInit ==
  /\ Init
  /\ todo = <<Do("init", 0), Do("sti", 0)>>
  /\ crashed = FALSE
  /\ ints = FALSE
  /\ locked = FALSE
  /\ live = [s \in Sizes |-> 0]
  /\ mallocs = 0
  /\ highest = 0
  /\ heap = [alloc_count |-> 0, free_count |-> 0, current_allocated |-> 0, peak_allocated |-> 0]
  /\ irqs = [timer |-> 0, keyboard |-> 0]
  /\ timer_ticks = 0
  /\ snap = <<>>

Execute(op) ==
  /\ todo # <<>>
  /\ Head(todo).op = op
  /\ todo' = Tail(todo)
  /\ UNCHANGED <<crashed, irqVars>>

Size == Head(todo).size
Number(counts) == SumFunction(counts)
InUse(counts) == SumFunction([s \in Sizes |-> s * counts[s]])

\* trace::init and the end of init_apic.
TraceInit == Execute("init") /\ init /\ UNCHANGED <<ints, heapVars, snap>>

Sti == Execute("sti") /\ ints' = TRUE /\ UNCHANGED <<traceVars, heapVars, snap>>

\* The heap is locked and malloc finds a block; a null pointer changes nothing here.
Malloc ==
  /\ Execute("malloc")
  /\ ~locked
  /\ locked' = TRUE
  /\ live' = [live EXCEPT ![Size] = @ + 1]
  /\ mallocs' = mallocs + 1
  /\ highest' = Max({highest, InUse(live')})
  /\ UNCHANGED <<traceVars, ints, heap, snap>>

\* An allocation that waits for a lock the failed code holds.
Spin == todo # <<>> /\ Head(todo).op = "malloc" /\ locked /\ UNCHANGED monitorVars

Unlock ==
  /\ Execute("unlock")
  /\ locked' = FALSE
  /\ UNCHANGED <<traceVars, ints, live, mallocs, highest, heap, snap>>

Free ==
  /\ Execute("free")
  /\ ~locked
  /\ live' = [live EXCEPT ![Size] = @ - 1]
  /\ UNCHANGED <<traceVars, ints, locked, mallocs, highest, heap, snap>>

\* One atomic update of a heap counter.
Update(op, counters) ==
  /\ Execute(op)
  /\ heap' = counters
  /\ UNCHANGED <<traceVars, ints, locked, live, mallocs, highest, snap>>

AllocCount == Update("alloc_count", [heap EXCEPT !.alloc_count = @ + 1])
CurrentAdd == Update("current_add", [heap EXCEPT !.current_allocated = @ + Size])

\* Mutant: the record is replaced whatever it was.
PeakOverwritten == Update("peak", [heap EXCEPT !.peak_allocated = heap.current_allocated])

\* The compare-and-exchange loop: nobody else writes the peak meanwhile.
Peak ==
  Update("peak", [heap EXCEPT !.peak_allocated = Max({@, heap.current_allocated})])

FreeCount == Update("free_count", [heap EXCEPT !.free_count = @ + 1])
CurrentSub == Update("current_sub", [heap EXCEPT !.current_allocated = @ - Size])

\* trace_event!; before trace::init nothing is recorded.
Record ==
  /\ \/ Execute("record_alloc") /\ (record("alloc") \/ RecordNothing)
     \/ Execute("record_free") /\ (record("free") \/ RecordNothing)
  /\ UNCHANGED <<ints, heapVars, snap>>

\* The snapshot with more fields loaded.
Loaded(counters) ==
  [c \in DOMAIN snap \cup DOMAIN counters |-> IF c \in DOMAIN snap THEN snap[c] ELSE counters[c]]

LoadIrqs ==
  /\ Execute("load_irqs")
  /\ snap' = Loaded(irqs)
  /\ UNCHANGED <<traceVars, ints, heapVars>>

LoadHeap ==
  /\ Execute("load_heap")
  /\ snap' = Loaded(heap)
  /\ UNCHANGED <<traceVars, ints, heapVars>>

LoadTicks ==
  /\ Execute("load_ticks")
  /\ snap' = Loaded([timer_ticks |-> timer_ticks])
  /\ UNCHANGED <<traceVars, ints, heapVars>>

DumpLast ==
  /\ Execute("dump_last")
  /\ \E n \in Requests : dump_last(n)
  /\ UNCHANGED <<ints, heapVars, snap>>

\* hlt_loop at the end of the panic handler.
HltLoop == crashed /\ todo = <<>> /\ UNCHANGED monitorVars

Call ==
  /\ todo = <<>> /\ ~crashed
  /\ \E code \in Calls : Fits(Records(code)) /\ todo' = code
  /\ snap' = <<>>
  /\ UNCHANGED <<traceVars, crashed, ints, heapVars, irqVars>>

\* A panic, or a page fault, which clears the interrupt flag.
Fail ==
  /\ ~crashed
  /\ crashed' = TRUE
  /\ todo' = panic
  /\ snap' = <<>>
  /\ ints' \in {ints, FALSE}
  /\ UNCHANGED <<traceVars, heapVars, irqVars>>

\* inc_interrupt for the vector of a device.
inc_interrupt(d) == irqs' = [irqs EXCEPT ![d] = @ + 1]

KeyboardInterrupt ==
  /\ ints
  /\ irqs.keyboard < MaxKeys
  /\ inc_interrupt("keyboard")
  /\ UNCHANGED <<traceVars, todo, crashed, ints, heapVars, timer_ticks, snap>>

TimerInterrupt ==
  /\ ints
  /\ Fits(Records(todo) + 1)
  /\ inc_interrupt("timer")
  /\ timer_ticks' = timer_ticks + 1
  /\ record("interrupt")
  /\ UNCHANGED <<todo, crashed, ints, heapVars, snap>>

MonitorNext ==
  \/ TraceInit \/ Sti
  \/ Malloc \/ Spin \/ Unlock \/ Free
  \/ AllocCount \/ CurrentAdd \/ Peak \/ FreeCount \/ CurrentSub \/ Record
  \/ LoadIrqs \/ LoadHeap \/ LoadTicks \/ DumpLast
  \/ Call \/ Fail \/ HltLoop
  \/ KeyboardInterrupt \/ TimerInterrupt

MonitorSpec == MonitorInit /\ [][MonitorNext]_monitorVars
-----------------------------------------------------------------------------
(* Properties *)

Recorded(e) == Cardinality({i \in DOMAIN recorded : recorded[i] = e})

\* Until a crash, between two operations the counters, the trace and the heap
\* tell the same story: allocations less deallocations are the live ones,
\* current_allocated is their memory, the peak the most there ever was, and
\* every allocation, deallocation and tick has its event.
MetricsExact ==
  todo = <<>> /\ ~crashed =>
    /\ heap.alloc_count = mallocs
    /\ heap.alloc_count - heap.free_count = Number(live)
    /\ heap.current_allocated = InUse(live)
    /\ heap.peak_allocated = highest
    /\ initialized =>
         /\ Recorded("alloc") = heap.alloc_count
         /\ Recorded("free") = heap.free_count
         /\ Recorded("interrupt") = timer_ticks

\* A complete snapshot is coherent although interrupts come between its loads
\* and a crash may take it in the middle of an operation: no tick is missing
\* that the interrupt counts include, the peak is not below the current value,
\* and the allocations are all there, because a panic inside an allocation
\* cannot get past the heap lock.
SnapshotCoherent ==
  "timer_ticks" \in DOMAIN snap /\ "alloc_count" \in DOMAIN snap =>
    /\ snap.timer <= snap.timer_ticks
    /\ snap.current_allocated <= snap.peak_allocated
    /\ crashed => snap.alloc_count = mallocs
=============================================================================
