# A verification development for Yonti-os

Yonti-os is a bare-metal x86_64 kernel in Rust: one core, one cooperative
executor, interrupts that preempt it. These modules model the parts of it whose
behaviour depends on the order of events or on long sequences of calls, check
them with TLC on small instances, and prove the safety properties of most of them
with TLAPS for every instance.

`PROJECT.json` lists the components, the runs, the theorems, the source lines
behind every definition, the hazards and the findings.

## 1. The system

| Component | Source | State | Operations | What is hard |
|---|---|---|---|---|
| Executor and tasks | `task/executor.rs`, `task/mod.rs` | task table with the tasks' wakers, ready queue | `spawn`, `run_ready_tasks`, `sleep_if_idle`, `TaskWaker::wake` | sleeping while an interrupt makes a task ready; wakes dropped at a full queue; a handler that would free the last waker |
| Scancode stream | `task/keyboard.rs`, `async_utils.rs`, `once_cell.rs` | scancode queue, registered waker | `add_scancode`, `ScancodeStream::new`, `poll_next` | the interrupt between the failed pop and the registration |
| Bounded queue | `array_queue.rs` | head, tail, slots | `push`, `pop`, `is_empty` | two producers, one of them a handler; counters that wrap |
| Interrupt handlers | `interrupts.rs` | IDT | keyboard, timer, faults | locks, acknowledgement, nesting |
| Interrupt controllers | `pic.rs`, `apic/` | masks, redirection entries, latched edges | detection, set-up, switch-over, end of interrupt | two controllers that both see the lines |
| Frame allocator | `memory/buddy.rs` | free lists in the frames, bitmap | `new`, `allocate_frame_order`, `deallocate_frame_order` | lists, bitmap and owners must agree after every sequence |
| Heap allocator | `allocator/tlsf.rs` | boundary tags, class lists, two bitmaps | `init`, `malloc`, `free` | copies of sizes and flags in the next block |
| Heap mapping, other allocators | `allocator.rs`, `allocator/bump.rs`, `allocator/linked_list.rs` | mapped pages; free regions; a bump pointer | `init_heap`; `alloc`, `dealloc` | frames that run out half-way; what splitting leaves behind |
| File system | `fs/` | inode tree, `inode_count` | create, write, append, remove, lookup | limits counted beside the tree; forms of paths |
| Consoles | `framebuffer.rs`, `serial.rs`, `vga_buffer.rs`, `log.rs` | cursor, escape state, pixels | printing, scrolling, scaling | a cursor flag that describes pixels |
| Shell | `shell.rs` | line buffer | key handling, commands | line and screen must agree |
| Trace ring | `trace.rs` | slots, write index | `record`, `dump_last` | wrap-around |
| Crash handling | `main.rs`, `debug.rs` | | panic handler, crash dump | runs on top of code that holds locks |
| Metrics | `monitor.rs` | counters | increments, snapshot | counters beside the state they count, read while handlers change them |
| UART | `uart.rs` | device registers | `send` | a port that never answers |
| CPU set-up, runner | `gdt.rs`, `sse.rs`, `runner/` | | straight-line set-up, host I/O | little that interleaves |

How they interact: a device raises a line; a controller latches it and delivers
a vector; the handler pushes a scancode, wakes the registered waker (which
pushes the task's id to the ready queue) and acknowledges; the executor pops the
id and polls the shell; the shell drains the scancodes and prints. All of them
share spin locks and the interrupt flag.

## 2. Modules

| Module | Models | Abstract specification |
|---|---|---|
| `Executor` | executor, tasks, scancode stream, wakers, device interrupts | `KeyStream` |
| `ArrayQueue` | the ring buffer, one memory access per step | `BoundedFifo` |
| `Buddy`, `MCBuddy` | frame allocator; memory maps | `FrameStore` |
| `Heap` | the heap from `init_heap` on, with one of the three allocators | `HeapContract` |
| `Tlsf` | TLSF allocator over the words of the heap | |
| `LinkedList`, `Bump` | the two other allocators | |
| `HeapMapping` | `init_heap`, page by page | |
| `FileSystem`, `MCFileSystem` | inode tree and paths; path arguments | |
| `IrqRouting`, `MCIrqRouting` | controllers during and after boot; machines | |
| `SpinLocks` | locks and the interrupt flag in tasks, handlers and panics; the crash dump with its waits and its stack walk | |
| `Trace` | operations of the trace ring | |
| `Monitor` | metrics, on top of `Trace`; their writers and readers | |
| `FrameBuffer` | framebuffer text console | `TextPage` |
| `Shell` | line editor, on top of `FrameBuffer` | |
| `ExecutorProofs`, `ArrayQueueProofs`, `FileSystemProofs`, `IrqRoutingProofs`, `SpinLocksProofs`, `MonitorProofs`, `FrameBufferProofs` | proofs about the module of that name (section 4) | |

The models rest on each other: `Executor` uses sequences for the two queues,
which `ArrayQueue` justifies; `Executor` and `Monitor` take a handler for one
step, which `ArrayQueue` (`HandlerUninterrupted`) and `SpinLocks` (`TypeOK`,
`NobodySpins`) justify; `SpinLocks` lets handlers leave the heap lock alone, which
`Executor` (`InterruptsNeverFree`) justifies; `Heap` composes `HeapMapping` with
an allocator; `Shell` extends `FrameBuffer` and `Monitor` extends `Trace`.

**Executor.** `pc` is the next uninterruptible section of the main thread; every
section is an action (`Spawn`, `PopReady`, `PollOneShot`, the steps of
`poll_next`, the steps of `sleep_if_idle`), and `KeyboardInterrupt` and
`TimerInterrupt` may come between any two of them while `ints` is true. Tasks
are spawned in any order. A spawn is one action because no waker exists before
spawning ends, so no interrupt can touch what it touches. Scancodes are numbered,
so that order, loss and duplication are visible. The counters of `MONITOR` for
tasks and dropped wakes are kept; those for ticks and interrupts, and the trace
and acknowledgement calls of the handlers, are left to the other modules.
`Holders(t)` is who has a reference to the waker of `t`: the task table, the poll
under way, the keyboard's `AtomicWaker`; a step after which nobody has one frees it.

**ArrayQueue.** Main thread and handler execute `push`, `pop` and `is_empty` one
memory access at a time, with the `cli` and the restore of `without_interrupts` as
steps. Counters have the width `Modulus`, slots are taken modulo `Cap`.

**Buddy.** Free lists are doubly linked through the free frames, whose contents
are `Junk` while somebody owns them; `new` carves the regions, allocation splits,
deallocation merges. `allocated_count` also stands for the frame counters of
`MONITOR`.

**Tlsf.** The heap is an array of words: headers, boundary tags, links and the
owners' data share it, so an overlap shows as damage. The mapping of sizes to
classes is the code's, over words instead of bytes, which is exact for alignments
up to the 8-byte header. Reallocation is an allocation, a copy and a free.

**Heap.** `init_heap` takes a frame for each page and one for each missing page
table, from whatever the machine has left, and gives up at the first that is
refused. Then the allocator the kernel is built with (`kind`) is initialised and
serves allocations and deallocations. `LinkedList` is the list of free regions in
its order; `lost` is a history variable for the words the code gives to nobody.
`Bump` is the next free word and the counter of allocations. All three are mapped
to `HeapContract` by their live allocations. The panic message that is asked for
after a failed `init_heap` is an allocation from an allocator that was never
initialised.

**FileSystem.** The tree is a function from paths to inodes; paths are split as
`split_path` and `resolve_path` split them, odd forms included. A file is its
length. `read_file`, `list_dir` and `exists` change nothing and set `result`
like the others.

**IrqRouting.** A machine is its ACPI answer (tables present or not, I/O APICs,
overrides), the wiring, and the local APIC (address, id, version, whether it can
be enabled). `MachineAssumption` says that the tables describe the wiring; a device
may be wired to any line, whatever its number. `init` cuts the offset of a line to a
byte; `OffsetsFit` says that nothing is lost by it. The two halves of a redirection entry are written one after the
other, over whatever destination the firmware has left. Boot goes through the
steps of `init` and `init_apic` while devices raise edges at any time; both
controllers latch, and a handler has to acknowledge to the one the interrupt came
from.

**SpinLocks.** A piece of code is the sequence of its operations on locks and on
the interrupt flag; contexts (main code, handler, panic) form a stack and the top
one runs. A panic can begin wherever the code can fail; without heap room for its
message it panics again, with a message of its own that may fit. A byte sent to the UART polls the line status, which may
say "busy" every time. The stack walk prints a line per frame; a frame that cannot
be read is a page fault, which starts another dump on top of the first
(`WalkFault`). `Lines[n]` is the code of a walk over `n` frames. Every panic, a nested
one too (`PanicOn`), may or may not have room for its message and finds any number of
frames it can read. `report` is what the dump of the last panic has printed so far.

**Monitor.** `todo` is what the running code has left, one operation per atomic
access that a handler or a failure can come before. Allocations and deallocations
update the counters one after the other, the device handlers count and record,
`mem`, `trace` and the crash dump read. `mallocs`, `highest` and `live` are what
the counters should say. A failure abandons the operation under way; if that was
an allocation, the heap stays locked and the panic handler spins there.

**FrameBuffer, Shell.** The screen in units of a scale-1 cell, with glyphs, the
cursor bar, colours and the escape-sequence automaton; the line buffer and what
each key does to the screen. The screen is higher than one character at any scale
(`FrameBufferAssumption`): on a lower one `scroll_up` returns early and nothing would
ever be erased. `prompted` and `typed` are history variables: whether the prompt still
stands before the line, and how many of its characters were echoed with nothing else
printed or erased since.

## 3. Runs

Passing runs:

| Run | Instance | Checks |
|---|---|---|
| `executor` | 3 tasks, ready queue 3, scancode queue 2, 7 keys | `NoLostWake`, `HaltsOnlyWhenIdle`, `BacklogInOrder`, `NoPanic`, `DroppedWakeIsHarmless`, `InterruptsNeverFree`, `KeepsHalting`, refinement of `KeyStream` |
| `array_queue` | capacity 2, counters modulo 8 | `HandlerUninterrupted`, refinement of `BoundedFifo`, across counter wrap-around |
| `buddy` | two regions with a hole, orders 0 to 2, 9 tracked frames | `ListsMatchBitmap`, `NoFrameSharedOrLost`, `FullyCoalesced`, refinement of `FrameStore` |
| `heap` | TLSF: 24 words, 3 by 2 classes; others: 12 words, 3 allocations; pages of 4 words | `BoundaryTags`, `ListsHoldFreeBlocks`, `RefusalJustified` (TLSF); `HeapMapped`, `SpaceAccounted`, refinement of `HeapContract` (all) |
| `file_system` | 3 names, limits of 2, 2, 2 and 5 | `SizeLimitsHold`, `AnswersAreTrue`; the type invariant says that every inode's name can be looked up |
| `irq_routing` | 14 machines, 2 firmware masks, 2 firmware destinations, 2 devices | `NothingStuckInService`, `EdgesDeliveredOnce`, `RoutesMatchWiring`, `LatchedIsServed` |
| `spin_locks` | 6 locks, all code that takes them, 2 polls, 2 frames | `NobodySpins`, `CrashReported`; the type invariant says that handlers do not nest |
| `monitor` | 2 slots, 6 events, 2 sizes | `MetricsExact`, `SnapshotCoherent`, `DumpsTheLast` |
| `frame_buffer` | 3 by 3 units, scales 1 and 2 | `OneCursor`, `CellsWhole`, refinement of `TextPage` |
| `shell` | 4 by 3 units, scales 1 and 2, line of 4, two letters | `LineOnScreen`, `PrintsComplete` |

`executor`, `file_system`, `irq_routing` and `spin_locks` also check a type
invariant. `SpaceAccounted` says for TLSF that every allocation owns exactly one
block, for the linked list that regions, allocations and lost words tile the heap,
and for Bump that the counter is the number of live allocations and that the
pointer is above all of them. `CrashReported` is liveness: every panic that finds
the heap and the serial port unlocked and room for its message, also one that began in
the dump of another, prints its reason, and all of its dump if the frames it walks can
be read; the port need not answer, and other locks may be held. `LineOnScreen` compares
the screen with the characters that were typed since the prompt, the last warning or
the last change of scale.

Two runs show code that does not do what its documentation or tests say (the
quotes are in `PROJECT.json`):

| Run | What the code does |
|---|---|
| `buddy_adjacent` | with two adjacent usable regions, a merge unlinks a block from a list it is not on |
| `tlsf_align` | with alignment above 8, `free` looks for the header in the wrong place |

Smaller disagreements met while modelling; the passing runs state what does hold
beside each of them:

- `fs/mod.rs:150`: `remove` of a directory with contents lowers `inode_count` by
  one only, so creation can end in `TooManyInodes` with few inodes in the tree.
  `SizeLimitsHold` says that the count never falls behind.
- `fs/mod.rs:69`: creation checks the depth of the parent, so an inode can be
  created at depth 17, one level deeper than lookups reach and than the "Max path
  depth" of `fs/mod.rs:12`. The code exceeds its documented limit; no property claims
  it, and `SizeLimitsHold` is about the other limits.
- `fs/mod.rs:214`: `create_file("//")` answers Ok and adds a child with an empty
  name to the root. The type invariant excepts that one inode, and `AnswersAreTrue`
  the calls whose path names no component.
- `memory/buddy.rs:306`: `free_frames()` counts the holes between regions, so it
  is not 0 at exhaustion; `NoFrameSharedOrLost` is about
  `allocated_count`.
- `memory/buddy.rs:165`: blocks are aligned relative to the first usable frame, not
  physically.
- `apic/mod.rs:308`: `init` panics when the I/O APIC listed first does not serve
  the timer and the keyboard, where its documentation has it answer false.
- `apic/mod.rs:311` and `:321`: the offset of a line is cut to a byte (`as u8`), so a
  line 256 or more above the I/O APIC's first passes the checks of `set_irq` and is
  routed at the pin of another. `EdgesDeliveredOnce` and `RoutesMatchWiring` are about
  lines whose offsets fit (`OffsetsFit`); the run has a machine where they do not.
- `apic/mod.rs:319`: a key pressed before its line is routed is latched by the PIC
  only, which is masked next. Nobody reads the keyboard controller, so it raises no
  further edge. `LatchedIsServed` is about what a controller in use has latched.
- `apic/ioapic.rs:107`: redirection entries name local APIC 0. On a boot core with
  another id `init` answers true and no interrupt arrives; `RoutesMatchWiring` is
  about boot core 0.
- `allocator/linked_list.rs:104`: the words skipped to align an allocation are never
  returned to the list. `SpaceAccounted` says that nothing else is lost.
- `main.rs:136`: the message of a panic is formatted on the heap and printed on the
  serial port, so a panic under either lock spins before it says anything, and one
  whose message, and whose out-of-memory message in turn, finds no room panics for
  ever. `CrashReported` is about panics that find these two locks free, and room; a
  panic nested in a dump needs room beside the messages that are never freed.
- `debug.rs:84`: the stack walk "Requires the kernel to be compiled with `-C
  force-frame-pointers`", which no build file sets. Without it RBP may hold anything
  and a walk may fault, in every nested dump again: then only the reasons are printed.
  The second half of `CrashReported` is about walks that do not fault.
- `trace.rs:115`: a dump of more events than the ring holds prints newer events in
  place of the overwritten ones; `DumpsTheLast` is about requests that fit.
- `framebuffer.rs:229`: backspace at the start of a row, where a line has wrapped,
  leaves the character on the row above.
- `shell.rs:233`: changing the scale clears the screen and prints a new prompt but not
  the line, which stays in the buffer: what is executed on Enter is longer than what
  is shown, and backspace then erases the prompt. After either, `LineOnScreen` is
  about the characters typed since.

### Bounds, and why they are enough

- `executor`: `MaxKeys` bounds the typing. 7 keys fill the scancode queue, the
  hand of the shell and the ready queue, and overflow all of them. That typing
  ends is also what `KeepsHalting` needs: the shell does not await while
  scancodes keep coming.
- `array_queue`: the capacity divides the counter range, so that wrapping is
  covered. 100, the capacity of both queues in the kernel, does not divide 2^64;
  for such capacities the model excludes the wrap (`CounterRoom`), which the
  kernel would need 2^64 pushes to reach.
- `buddy`: the passing run takes regions that are disjoint and not adjacent; the
  hole and the tracking limit both cut blocks, so there are frames whose buddy is in
  the hole or beyond the limit.
- `heap`: for TLSF sizes below, at and above a class boundary and one that never
  fits; 24 words leave room for three to six blocks, so merging with either
  neighbour and with both occurs. Its alignments stay within the header, because of
  `tlsf_align`. TLSF may refuse although a fitting block lies behind the head of
  its class; `RefusalJustified` says no more than the algorithm promises. The other
  allocators get a larger alignment, a heap of 12 words and at most 3 allocations at
  a time, which is enough to split, to pad and to exhaust. `Left` and `Tables` make
  `init_heap` succeed, and fail at the first and at a later page.
- `file_system`: each limit is small enough to be met, and the paths reach one
  level beyond the deepest. The odd forms (empty, slashes only, doubled and trailing
  slashes, dots) are among them.
- `irq_routing`: machines that boot with and without the APIC, one each for the panics
  of set-up (one of them comes after the timer is routed and before the keyboard is),
  one whose keyboard offset does not fit a byte, and one that boots on core 3. 3 is
  also a destination that firmware leaves behind.
- `spin_locks`: `RETRIES` is 2 (100 000 in the code) and `WALK` is 2 (16): a poll
  that is repeated, and a walk that faults at the first, at a later and at no frame.
  Dumps may fault and start again any number of times.
- `shell`: at scale 1 a full line with its prompt takes a row and a half of three, at
  scale 2 a row has two cells and the screen one row, so every line wraps and scrolls.
- `frame_buffer`: width and height 3 leave a margin at scale 2; `CSI_LEN` is 2
  (8 in the code), so that sequences overflow it. `shell` uses 8.
- `monitor`: 2 slots (4096 in the code), 6 events: two wrap-arounds. Two sizes
  make the peak differ from the last value.

### Fairness

- `Executor`: weak fairness of the main thread. The core keeps executing and
  handlers are finite. Nothing is assumed of interrupts: no timer tick is needed
  for any of the liveness properties.
- `IrqRouting`: weak fairness of boot, handler bodies and their acknowledgement;
  strong fairness of delivery for each device, since the processor looks for a
  deliverable interrupt after every instruction. `LatchedIsServed` assumes that
  the other device's line pauses now and then, because a lower-priority line is
  not served against one that never does.
- `SpinLocks`: weak fairness of the running context, and strong fairness of steps
  outside handlers: interrupted code executes something between two interrupts.
  Nothing is assumed of the UART.

## 4. Proofs

Each theorem holds for every value of the constants that the named assumption of its
module allows. `Invariant` theorems state the inductive invariant the others follow
from.

| Module | Theorem | Statement |
|---|---|---|
| `ExecutorProofs` | `TypeCorrect` | `Spec => []TypeOK` |
| | `NoWakeIsLost` | `Spec => []NoLostWake` |
| | `HaltIsSafe` | `Spec => []HaltsOnlyWhenIdle` |
| | `KeysStayInOrder` | `Spec => []BacklogInOrder` |
| | `NeverPanics` | `Spec => []NoPanic` |
| | `CountersCorrect` | `Spec => []CountersAgree` |
| | `DropsAreHarmless` | `Spec => DroppedWakeIsHarmless` |
| | `HandlersDoNotFree` | `Spec => InterruptsNeverFree` |
| | `RefinesKeyStream` | `Spec` implements the safety part of `KeyStream` |
| `ArrayQueueProofs` | `QueueInvariant` | `Spec => []QueueInv` |
| | `HandlerNeverInterrupted` | `Spec => []HandlerUninterrupted` |
| | `ArrayQueueIsFifo` | `Spec => ImplementsFifo`: refinement of `BoundedFifo` |
| `IrqRoutingProofs` | `IrqInvariant` | `Spec => []IrqInv` |
| | `EveryInterruptHasHandler` | `Spec => []TypeOK` |
| | `AcknowledgedWhereDelivered` | `Spec => []NothingStuckInService` |
| | `NoEdgeHandledTwice` | `Spec => []EdgesDeliveredOnce` |
| | `RoutesAreTheWiring` | `Spec => []RoutesMatchWiring` |
| `FileSystemProofs` | `FsInvariant` | `Spec => []FsInv` |
| | `InodesFormATree` | `Spec => []TypeOK` |
| | `SizeLimitsNeverExceeded` | `Spec => []SizeLimitsHold` |
| | `AnswersTrue` | `Spec => AnswersAreTrue` |
| `SpinLocksProofs` | `LockInvariant` | `Spec => []LockInv` |
| | `HandlersOneAtATime` | `Spec => []TypeOK` |
| | `LocksAreFree` | `Spec => []NobodySpins` |
| `MonitorProofs` | `MonitorInvariant` | `MonitorSpec => []MonInv` |
| | `MetricsAreExact` | `MonitorSpec => []MetricsExact` |
| | `SnapshotsAreCoherent` | `MonitorSpec => []SnapshotCoherent` |
| | `DumpsAreTheLast` | `MonitorSpec => DumpsTheLast` |
| `FrameBufferProofs` | `FbInvariant` | `Spec => []FbInv` |
| | `OneCursorAlways` | `Spec => []OneCursor` |
| | `CellsAlwaysWhole` | `Spec => []CellsWhole` |
| | `ConsoleIsTextPage` | `Spec => ImplementsTextPage`: refinement of `TextPage` |

### The arguments

**Executor** (every finite set of tasks that fits the ready queue, every positive
scancode capacity, every `MaxKeys`: `TasksAssumption`, `QueueAssumption`). All follow
from `IInv`. `NoLostWake` says that a shell
that is not being polled is queued, or registered with no scancode waiting. Two
steps endanger it. The second pop of `poll_next` may find nothing after an
interrupt has used the waker, hence `WindowInv`: between registration and second
pop the waker is still there or the shell is queued. And a wake may find the
ready queue full, hence `OnceInv`: every id but the shell's is queued at most
once, so, by a pigeonhole argument (`DistinctHasRoom`, `FullHasShell`), a full
queue of at least as many slots as tasks already holds the shell, and the dropped
wake loses nothing. The same argument shows that `spawn` never finds the queue
full (`RoomToSpawn`). `ControlInv` and `BootInv` say where the main thread is and
what is set up in each phase.
`HandlersDoNotFree` follows from the same invariant: the handler takes the
registered waker, and while one is registered the shell is in the task table,
which holds another reference. `CountersAgree` (the task counters of `MONITOR` agree
with the task table) is only proved, not checked by a run.

**ArrayQueue** (every capacity, counter width and set of values: `SizeAssumption`).
The refinement is not inductive by itself: `QueueInv` adds that an index loaded inside
a critical section is still current (`IndexInv`), that the test made before the slot
is accessed still holds (`SpaceInv`), and that the slot was written before the index
that publishes it moves (`ValueInv`). They hold because interrupts are off between
load and store (`MaskInv`). `CounterInv` is where the width matters: either the
capacity divides the counter range, so that wrapping keeps slots in place, or every
push under way has room below it. The lemmas are arithmetic modulo a variable.

**IrqRouting** (every machine of `MachineAssumption`: truthful MADT entries, lines of
any number, any masks and destinations left by firmware). `IrqInv` follows boot point by
point (`BootInv`); `ServiceInv` says that one interrupt at a time is in service, at
the controller that `is_active` chooses; `PinInv` that an entry is only written for a
pin the I/O APIC has; `RouteInv` that, where the offsets fit a byte, only the pin of a
device raises its vector, from the write of the low half on. `EdgesDeliveredOnce` is part of
the invariant: between routing and `mask_all` both controllers may hold the same edge,
and `BootInv` says that interrupts are off until one of them cannot deliver it.

**FileSystem** (every set of paths and lengths, every value of the limits:
`LimitAssumption`). `FsInv` is the type invariant, which says that the inodes form a
tree, with `SizeLimitsHold` and finiteness: `inode_count` bounds the number of inodes,
which is a statement on cardinalities that each creation and removal has to keep.
The lemmas say what the recursive splitting of paths answers, by induction over the
length of the path.

**SpinLocks** (every number of polls and of frames walked: `LimitAssumption`). The
argument is a typing of code. A typing state says what a context holds, how deep it
is inside `without_interrupts` and what IF was outside; `Takes(t, a, b)` says that code
`t` leads from `a` to `b` without breaking the rules (`Legal`), and composes with
concatenation. A lemma types each piece of the kernel's code; the stack walk, which
has as many lines as frames, by induction (`LinesDef`). `LockInv` says that what each
context that will run again has left to do is typed, that the locks held are those the
typing states hold, and that an interrupted context held no lock a handler takes. A
step of typed code leaves typed code, and typed code never takes a held lock. Panics
end this: from the first failure on, `NobodySpins` promises nothing.

**Monitor** (every ring size, set of sizes and number of events: `TraceAssumption`,
`MonitorAssumption`). `MonInv` says which pieces of code can be left in `todo`
(`Code`), and for every place in an allocation, a deallocation or a snapshot how far
the counters lag behind the heap and the trace (`ExactInv`, `EventInv`, `CountInv`),
so that at the end they do not. `TraceInv` gives the place of every event that was not
overwritten. The sums over allocations are folds over sets; the lemmas say how they
change when one value does.

**FrameBuffer** (every screen, range of scales and set of bytes:
`FrameBufferAssumption`). `Displays(w, f, r, c)` says that the pixels of the writer `w`
show the page `f`, cell by cell and without characters in the margins, with the writing position at row
`r` and column `c`. Each operation on pixels is shown to be an operation on the page
(`ScrollDisplays`, `NewLineDisplays`, `DrawDisplays`, `PutBackspaceDisplays` and so
on), and `FbInv` says that some page is displayed. The lemmas below are about a grid
whose pitch need not divide the screen.

### Only model-checked

- Liveness (`KeepsHalting`, `LatchedIsServed`, `CrashReported`, the liveness of
  `KeyStream`): fairness and ENABLED are beyond the prover.
- `Buddy`, `Heap` with its allocators, and `Shell`. What they compute is folds and
  powers of two (carving regions into blocks, size classes, strings written byte by
  byte) and lists followed through memory, where an invariant has to say what a
  recursive definition answers.

Recursion that a proof needs is written as a recursive function, and what it answers
is proved by an argument from the least counterexample (`LeastElement`), since the
library's induction theorems take an operator as parameter.

## 5. Not modelled

- The GDT and SSE set-up, the constants written to the UART at boot, and the
  runner: straight-line set-up and host I/O.
- What the mapper writes into page tables: an external crate. Only the frames it
  takes are modelled.
- The breakpoint handler (it only prints), the values a crash dump prints, and
  hexdumps, which nothing calls. Reading through a frame pointer that is not a
  canonical address ends in the double-fault handler instead of the page-fault
  handler; it panics alike.
- `mask_irq` of the two drivers, `Lapic::end_of_interrupt` and `set_cursor`: nothing
  the kernel runs calls them.
- Pixels below the level of a cell: the cursor bar overlaps the lowest pixels of
  a glyph. The colours of cells already written.
- The parsing of commands and the wording of their output. A command does one of
  four things to the screen: nothing, a line, text without a newline, clear.

## 6. Plan

1. Done: the key path (`Executor`, `ArrayQueue`) with its proofs, the allocators,
   the file system, interrupt routing, locks, trace ring and console.
2. Done: the heap from `init_heap` on with all three allocators, metrics and
   snapshots, the UART's wait and the stack walk in the crash dump, waker
   references, the checks of the controller drivers, the remaining file system calls.
3. Done: proofs of the safety properties of `ArrayQueue`, `IrqRouting`, `FileSystem`,
   `SpinLocks`, `Monitor` and `FrameBuffer`.
4. Proofs about the heap: `HeapMapped` and the contract of the allocators; then the
   frame allocator.
