------------------------------- MODULE SpinLocks -------------------------------
(***************************************************************************)
(* The kernel's spin locks and who may wait for whom.  On one core a       *)
(* context that spins on a lock held by the context it interrupted spins   *)
(* for ever, so a lock a handler takes may only be held with interrupts    *)
(* disabled.  Covers the locks of the consoles (serial.rs, framebuffer.rs, *)
(* vga_buffer.rs, log.rs), the heap (allocator.rs), the file system        *)
(* (fs/mod.rs), the interrupt controllers (interrupts.rs, apic/mod.rs) and *)
(* the panic handler (main.rs, debug.rs), which runs on top of whatever    *)
(* failed: it waits for a serial port that may not answer (uart.rs) and    *)
(* walks a stack that may be spoilt.                                       *)
(*                                                                         *)
(* A piece of code is the sequence of its operations on locks and on the   *)
(* interrupt flag.  Contexts form a stack; the top one executes.           *)
(***************************************************************************)
EXTENDS Naturals, Sequences

CONSTANTS RETRIES, \* polls of the line status before a byte is written anyway
          WALK     \* frames a stack trace visits at most

ASSUME LimitAssumption == RETRIES \in Nat \ {0} /\ WALK \in Nat \ {0}

Locks == {"SERIAL1", "FRAMEBUFFER", "HEAP", "FS", "PICS", "APIC"}

VARIABLES
  stack,  \* contexts, the running one first: who, what is left to do, saved flags
  locked, \* locks that are held
  ints,   \* RFLAGS.IF
  active, \* apic::is_active()
  heap,   \* the heap is initialised
  room,   \* the heap had room for the message of the last panic
  clean,  \* the locks that a dump takes were free when that panic began
  intact, \* frames its stack trace can read before one that faults; WALK: all
  report  \* what its dump has printed: nothing, the reason, or all

vars == <<stack, locked, ints, active, heap, room, clean, intact, report>>
-----------------------------------------------------------------------------
(* Code *)

Do(op) == <<[op |-> op, lock |-> "none"]>>
With(lock, body) == <<[op |-> "lock", lock |-> lock]>> \o body \o <<[op |-> "unlock", lock |-> lock]>>
without_interrupts(body) == Do("cli") \o body \o Do("restore")

\* write_str: one byte stands for the string.
write_str == <<[op |-> "send", lock |-> "none", tries |-> RETRIES]>>
serial_print == without_interrupts(With("SERIAL1", write_str))

\* Mutant: the framebuffer lock is taken with interrupts as they are.
framebuffer_print_unmasked == With("FRAMEBUFFER", <<>>)

framebuffer_print == without_interrupts(With("FRAMEBUFFER", <<>>))
with_framebuffer_mut == without_interrupts(With("FRAMEBUFFER", <<>>))
println == serial_print \o framebuffer_print
log == serial_print
record == without_interrupts(<<>>)
push == without_interrupts(<<>>)

\* GlobalAlloc: the guard of alloc lives until it returns.
alloc == With("HEAP", record)
dealloc == With("HEAP", <<>>) \o record

\* Mutant: the port is locked once for all lines of the dump.
dump_last_locked == without_interrupts(With("SERIAL1", log))

dump_last == without_interrupts(log \o log)

\* Shell commands.  cmd_ls and cmd_cat hold the read guard while the answer is
\* built and printed; cmd_echo allocates and prints like cmd_alloc.
cmd_ls == With("FS", alloc \o println \o dealloc)
cmd_trace == println \o dump_last
cmd_alloc == alloc \o println \o dealloc
cmd_clear == with_framebuffer_mut \o println
Commands == {println, cmd_ls, cmd_trace, cmd_alloc, cmd_clear}

\* kernel_main up to the executor; interrupts are off until the end of init_apic.
init == With("PICS", <<>>)
framebuffer_init == With("FRAMEBUFFER", <<>>)
init_heap == With("HEAP", <<>>) \o Do("heap")
apic_init == log \o With("APIC", <<>>) \o Do("activate") \o log
mask_all == With("PICS", <<>>)
init_apic(has_apic) ==
  (IF has_apic THEN apic_init \o mask_all \o log ELSE log) \o Do("sti")
demo_fs == With("FS", alloc \o println \o dealloc \o println)
Boot(has_apic) ==
  init \o framebuffer_init \o log \o init_heap \o log \o init_apic(has_apic)
    \o demo_fs \o log \o alloc

is_active == With("APIC", <<>>)
EndOfInterrupt == is_active \o (IF active THEN <<>> ELSE With("PICS", <<>>)) \o Do("iret")

\* The keyboard handler prints a warning when the scancode cannot be queued.
HandlerCode == {push \o push \o EndOfInterrupt, push \o println \o EndOfInterrupt,
                record \o EndOfInterrupt}

\* One line per frame.
Lines[n \in Nat] == IF n = 0 THEN <<>> ELSE Lines[n - 1] \o log

\* Mutant: the walk goes on until something stops it.
stack_trace_unbounded(n) == log \o Lines[n] \o Do("fault")

\* The walk ends at the limit, at the end of the chain or where the chain goes
\* down again; a pointer to nowhere faults.
stack_trace(n) == log \o Lines[n] \o (IF n < WALK THEN Do("fault") ELSE <<>>)

dump_registers == log
dump_to_serial == log
crash_dump(n) ==
  log \o log \o Do("reason")
    \o dump_registers \o stack_trace(n) \o dump_to_serial \o dump_last \o log \o Do("all")

\* The panic message is formatted on the heap before anything is printed.  An
\* allocation that fails panics: the handler starts again.
panic(fits, n) ==
  IF fits THEN alloc \o crash_dump(n) \o dealloc
          ELSE With("HEAP", <<>>) \o Do("panic")
-----------------------------------------------------------------------------
Context(who, code) == [who |-> who, todo |-> code, saved |-> <<>>]
Top == Head(stack)
Op == Head(Top.todo)
Panicking == \E i \in DOMAIN stack : stack[i].who = "panic"

Init ==
  /\ active = FALSE
  /\ \E has_apic \in BOOLEAN : stack = <<Context("main", Boot(has_apic))>>
  /\ locked = {}
  /\ ints = FALSE
  /\ heap = FALSE
  /\ room = TRUE
  /\ clean = TRUE
  /\ intact = WALK
  /\ report = "nothing"

\* The running context executes an operation of kind op.
Execute(op) ==
  /\ Top.todo # <<>>
  /\ Op.op = op
  /\ UNCHANGED <<room, clean, intact>>

Advance(saved) ==
  stack' = <<[Top EXCEPT !.todo = Tail(@), !.saved = saved]>> \o Tail(stack)

\* A spin lock is taken when it is free.
Lock ==
  /\ Execute("lock")
  /\ Op.lock \notin locked
  /\ locked' = locked \cup {Op.lock}
  /\ Advance(Top.saved)
  /\ UNCHANGED <<ints, active, heap, report>>

Spin == Execute("lock") /\ Op.lock \in locked /\ UNCHANGED vars

Unlock ==
  /\ Execute("unlock")
  /\ locked' = locked \ {Op.lock}
  /\ Advance(Top.saved)
  /\ UNCHANGED <<ints, active, heap, report>>

\* The transmitter is not empty: another poll, if any is left.
PollAgain(tries) ==
  stack' = <<[Top EXCEPT !.todo = <<[Op EXCEPT !.tries = tries]>> \o Tail(@)]>> \o Tail(stack)

\* Mutant: running out of polls starts the wait over.
SendForever ==
  /\ Execute("send")
  /\ Advance(Top.saved) \/ PollAgain(IF Op.tries > 1 THEN Op.tries - 1 ELSE RETRIES)
  /\ UNCHANGED <<locked, ints, active, heap, report>>

\* send: the byte is written when the transmitter is empty, or after RETRIES
\* polls that found it busy.  The port may answer either way at every poll.
Send ==
  /\ Execute("send")
  /\ Advance(Top.saved) \/ (Op.tries > 1 /\ PollAgain(Op.tries - 1))
  /\ UNCHANGED <<locked, ints, active, heap, report>>

\* without_interrupts remembers the flag, clears it and puts it back.
Cli ==
  /\ Execute("cli")
  /\ ints' = FALSE
  /\ Advance(<<ints>> \o Top.saved)
  /\ UNCHANGED <<locked, active, heap, report>>

\* Mutant: interrupts are enabled at the end, whatever they were.
RestoreEnables ==
  /\ Execute("restore")
  /\ ints' = TRUE
  /\ Advance(Tail(Top.saved))
  /\ UNCHANGED <<locked, active, heap, report>>

Restore ==
  /\ Execute("restore")
  /\ ints' = Head(Top.saved)
  /\ Advance(Tail(Top.saved))
  /\ UNCHANGED <<locked, active, heap, report>>

Sti ==
  /\ Execute("sti")
  /\ ints' = TRUE
  /\ Advance(Top.saved)
  /\ UNCHANGED <<locked, active, heap, report>>

Activate ==
  /\ Execute("activate")
  /\ active' = TRUE
  /\ Advance(Top.saved)
  /\ UNCHANGED <<locked, ints, heap, report>>

Heap ==
  /\ Execute("heap")
  /\ heap' = TRUE
  /\ Advance(Top.saved)
  /\ UNCHANGED <<locked, ints, active, report>>

\* The end of a handler: back to what was interrupted.
Iret ==
  /\ Execute("iret")
  /\ ints' = TRUE
  /\ stack' = Tail(stack)
  /\ UNCHANGED <<locked, active, heap, report>>

\* The dump has got as far as "reason" or "all" says.
Printed(what) ==
  /\ Execute(what)
  /\ report' = what
  /\ Advance(Top.saved)
  /\ UNCHANGED <<locked, ints, active, heap>>

\* A panic begins, with or without room for its message and with a chain of frame
\* pointers that leads anywhere: no build file forces frame pointers.
PanicOn(rest) ==
  /\ \E fits \in {heap, FALSE}, n \in 0..WALK :
       /\ stack' = <<Context("panic", panic(fits, n))>> \o rest
       /\ room' = fits
       /\ intact' = n
  /\ clean' = (locked \cap {"HEAP", "SERIAL1"} = {})
  /\ report' = "nothing"
  /\ UNCHANGED <<locked, active, heap>>

\* The panic handler panics: it is entered again and the old call never returns.
PanicAgain ==
  /\ Top.todo # <<>> /\ Op.op = "panic"
  /\ PanicOn(Tail(stack))
  /\ UNCHANGED ints

\* The stack trace reads through a bad frame pointer: a page fault, which panics on
\* top of the dump under way, whose message stays on the heap.
WalkFault ==
  /\ Top.todo # <<>> /\ Op.op = "fault"
  /\ PanicOn(Tail(stack))
  /\ ints' = FALSE

\* The next thing a task does.
Call ==
  /\ Top.who = "main" /\ Top.todo = <<>>
  /\ \E code \in Commands : stack' = <<Context("main", code)>>
  /\ UNCHANGED <<locked, ints, active, heap, room, clean, intact, report>>

\* hlt_loop at the end of the panic handler.
HltLoop == Top.who = "panic" /\ Top.todo = <<>> /\ UNCHANGED vars

Step ==
  \/ Lock \/ Unlock \/ Cli \/ Restore \/ Sti \/ Activate \/ Heap \/ Iret
  \/ Send \/ Printed("reason") \/ Printed("all") \/ PanicAgain \/ WalkFault \/ Call

Interrupt ==
  /\ ints
  /\ ints' = FALSE
  /\ \E code \in HandlerCode : stack' = <<Context("isr", code)>> \o stack
  /\ UNCHANGED <<locked, active, heap, room, clean, intact, report>>

\* A page fault or a panic in a task or a handler.  A fault clears the
\* interrupt flag.
Fail ==
  /\ ~Panicking
  /\ PanicOn(stack)
  /\ ints' \in {ints, FALSE}

Next == Step \/ Spin \/ HltLoop \/ Interrupt \/ Fail

\* Code keeps executing: a handler to its end, and the interrupted code at
\* least one operation between two interrupts.
Spec ==
  Init /\ [][Next]_vars /\ WF_vars(Step) /\ SF_vars(Top.who # "isr" /\ Step)
-----------------------------------------------------------------------------
(* Properties *)

\* Contexts stack up to three levels: main, a handler and a panic.  Handlers run
\* one at a time although println and the queues disable and restore interrupts
\* inside them.
TypeOK ==
  /\ locked \subseteq Locks
  /\ {ints, active, heap, room, clean} \subseteq BOOLEAN
  /\ intact \in 0..WALK /\ report \in {"nothing", "reason", "all"}
  /\ Len(stack) \in 1..3
  /\ stack[Len(stack)].who = "main"
  /\ \A i, j \in DOMAIN stack : stack[i].who = "isr" /\ stack[j].who = "isr" => i = j

\* Until something fails nobody ever waits for a lock: whoever holds one that a
\* handler takes has interrupts disabled, so on this core it is free.
NobodySpins ==
  ~Panicking /\ Top.todo # <<>> /\ Op.op = "lock" => Op.lock \notin locked

\* Every panic, also one on top of a dump that faulted, that finds the heap and the
\* serial port unlocked and room for its message has its reason printed, and its
\* whole dump if the frames it walks can be read: whatever interrupts arrive
\* meanwhile, whatever other locks the failed code holds (the file system's, say),
\* and although the port may never answer.
CrashReported ==
  /\ Panicking /\ clean /\ room ~> report # "nothing"
  /\ Panicking /\ clean /\ room /\ intact = WALK ~> report = "all"
=============================================================================
