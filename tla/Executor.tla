------------------------------- MODULE Executor -------------------------------
(***************************************************************************)
(* The cooperative executor (task/executor.rs), the tasks it runs          *)
(* (main.rs, shell.rs), the scancode stream and its waker                  *)
(* (task/keyboard.rs, async_utils.rs, once_cell.rs) and the two device     *)
(* interrupts that preempt them (interrupts.rs).                           *)
(*                                                                         *)
(* The machine has one core.  An interrupt handler runs to completion, and *)
(* only while interrupts are enabled, so a handler is one action; the main *)
(* thread is cut into one action per uninterruptible section, which is     *)
(* where a handler can come in between.  The two ArrayQueues are sequences *)
(* here: module ArrayQueue shows that their push and pop behave so.        *)
(***************************************************************************)
EXTENDS Naturals, Sequences, FiniteSets

CONSTANTS Tasks,         \* the tasks kernel_main spawns
          Shell,         \* the one that reads scancodes; the others end in one poll
          NoTask,        \* "no task": None
          MAX_TASKS,     \* capacity of the ready queue
          MAX_SCANCODES, \* capacity of the scancode queue
          MaxKeys        \* bound: keyboard interrupts in a behaviour

ASSUME TasksAssumption ==
  /\ IsFiniteSet(Tasks)
  /\ Shell \in Tasks
  /\ NoTask \notin Tasks

ASSUME QueueAssumption ==
  /\ MAX_TASKS \in Nat
  /\ Cardinality(Tasks) <= MAX_TASKS
  /\ MAX_SCANCODES \in Nat \ {0}
  /\ MaxKeys \in Nat

VARIABLES
  pc,         \* the next uninterruptible section of the main thread
  ints,       \* RFLAGS.IF
  to_spawn,   \* tasks kernel_main has not spawned yet
  tasks,      \* Executor.tasks
  task_queue, \* Executor.task_queue
  current,    \* the task being polled
  started,    \* the shell future has been polled before
  scan_init,  \* SCANCODE_QUEUE.initialized
  scan,       \* SCANCODE_QUEUE: numbers of the scancodes waiting
  waker,      \* WAKER: the task whose waker is registered
  key,        \* the scancode the shell has popped, 0 if none
  typed,      \* keyboard interrupts so far
  accepted,   \* number of the last scancode pushed
  handled,    \* number of the last scancode the shell handled
  tasks_spawned, tasks_completed, active_tasks, dropped_wakes  \* MONITOR

monitor == <<tasks_spawned, tasks_completed, active_tasks, dropped_wakes>>
taskVars == <<to_spawn, tasks, current>>
streamVars == <<started, scan_init, key, handled>>
keyVars == <<scan, typed, accepted>>

vars == <<pc, ints, to_spawn, tasks, task_queue, current, started, scan_init,
          scan, waker, key, typed, accepted, handled, monitor>>

Idle == {"spawn", "pop_ready", "disable", "is_empty", "hlt", "enable", "halted"}
Stream == {"fast_pop", "register", "second_pop", "take", "handle"}
Pc == Idle \cup Stream \cup {"poll", "panicked"}

Queued(t) == \E i \in 1..Len(task_queue) : task_queue[i] = t

\* Mutant: the waker is created for a poll instead of being kept by the task.
HoldersPerPoll(t) ==
  (IF current = t THEN {"poll"} ELSE {}) \cup (IF waker = t THEN {"WAKER"} ELSE {})

\* Who holds a reference to the waker of t, an Arc: the task for as long as it
\* exists, the poll in progress a clone, and WAKER another once it is registered.
Holders(t) ==
  (IF t \in tasks THEN {"task"} ELSE {})
    \cup (IF current = t THEN {"poll"} ELSE {})
    \cup (IF waker = t THEN {"WAKER"} ELSE {})

Init ==
  /\ pc = "spawn"
  /\ ints = TRUE
  /\ to_spawn = Tasks
  /\ tasks = {}
  /\ task_queue = <<>>
  /\ current = NoTask
  /\ started = FALSE
  /\ scan_init = FALSE
  /\ scan = <<>>
  /\ waker = NoTask
  /\ key = 0
  /\ typed = 0
  /\ accepted = 0
  /\ handled = 0
  /\ tasks_spawned = 0
  /\ tasks_completed = 0
  /\ active_tasks = 0
  /\ dropped_wakes = 0
-----------------------------------------------------------------------------
(* The main thread *)

\* kernel_main spawns a task: insert, push (a full queue panics), count it.
Spawn(t) ==
  /\ pc = "spawn"
  /\ t \in to_spawn
  /\ to_spawn' = to_spawn \ {t}
  /\ tasks' = tasks \cup {t}
  /\ IF Len(task_queue) < MAX_TASKS
       THEN /\ task_queue' = Append(task_queue, t)
            /\ tasks_spawned' = tasks_spawned + 1
            /\ active_tasks' = active_tasks + 1
            /\ pc' = IF to_spawn = {t} THEN "pop_ready" ELSE "spawn"
       ELSE /\ pc' = "panicked"
            /\ UNCHANGED <<task_queue, tasks_spawned, active_tasks>>
  /\ UNCHANGED <<ints, current, waker, tasks_completed, dropped_wakes, streamVars, keyVars>>

\* run_ready_tasks: pop the next id and look it up.
PopReady ==
  /\ pc = "pop_ready"
  /\ task_queue # <<>>
  /\ task_queue' = Tail(task_queue)
  /\ IF Head(task_queue) \in tasks
       THEN current' = Head(task_queue) /\ pc' = "poll"
       ELSE UNCHANGED <<current, pc>>
  /\ UNCHANGED <<ints, to_spawn, tasks, waker, monitor, streamVars, keyVars>>

\* run_ready_tasks returns to run once the queue is empty.
NoneReady ==
  /\ pc = "pop_ready"
  /\ task_queue = <<>>
  /\ pc' = "disable"
  /\ UNCHANGED <<ints, task_queue, waker, monitor, taskVars, streamVars, keyVars>>

\* Polling a task that never awaits anything: Ready, so it is removed.
PollOneShot ==
  /\ pc = "poll"
  /\ current # Shell
  /\ tasks' = tasks \ {current}
  /\ tasks_completed' = tasks_completed + 1
  /\ active_tasks' = active_tasks - 1
  /\ current' = NoTask
  /\ pc' = "pop_ready"
  /\ UNCHANGED <<ints, to_spawn, task_queue, waker, tasks_spawned, dropped_wakes,
                 streamVars, keyVars>>

\* OnceCell::try_init_once on SCANCODE_QUEUE, with interrupts disabled: where the
\* caller goes on depends on whether somebody has initialised it before.
try_init_once(done, already) ==
  /\ scan_init' = TRUE
  /\ pc' = IF scan_init THEN already ELSE done

\* Mutant: the stream is created again on every poll.
PollShellNewStream ==
  /\ pc = "poll"
  /\ current = Shell
  /\ started' = TRUE
  /\ try_init_once("fast_pop", "panicked")
  /\ UNCHANGED <<ints, task_queue, waker, key, handled, monitor, taskVars, keyVars>>

\* The first poll of the shell runs ScancodeStream::new, which may be called
\* only once; later polls resume inside scancodes.next().
PollShell ==
  /\ pc = "poll"
  /\ current = Shell
  /\ started' = TRUE
  /\ IF started THEN pc' = "fast_pop" /\ UNCHANGED scan_init
                ELSE try_init_once("fast_pop", "panicked")
  /\ UNCHANGED <<ints, task_queue, waker, key, handled, monitor, taskVars, keyVars>>

\* poll_next, fast path.
FastPop ==
  /\ pc = "fast_pop"
  /\ IF scan # <<>>
       THEN key' = Head(scan) /\ scan' = Tail(scan) /\ pc' = "handle"
       ELSE pc' = "register" /\ UNCHANGED <<key, scan>>
  /\ UNCHANGED <<ints, task_queue, waker, monitor, taskVars, started, scan_init,
                 handled, typed, accepted>>

\* Mutant: poll_next returns Pending right after registering.
RegisterOnly ==
  /\ pc = "register"
  /\ waker' = current
  /\ current' = NoTask
  /\ pc' = "pop_ready"
  /\ UNCHANGED <<ints, task_queue, monitor, to_spawn, tasks, streamVars, keyVars>>

\* poll_next: AtomicWaker::register.
Register ==
  /\ pc = "register"
  /\ waker' = current
  /\ pc' = "second_pop"
  /\ UNCHANGED <<ints, task_queue, monitor, taskVars, streamVars, keyVars>>

\* Mutant: the scancode found by the second pop is thrown away.
SecondPopDiscards ==
  /\ pc = "second_pop"
  /\ IF scan # <<>>
       THEN scan' = Tail(scan) /\ pc' = "fast_pop" /\ UNCHANGED current
       ELSE pc' = "pop_ready" /\ current' = NoTask /\ UNCHANGED scan
  /\ UNCHANGED <<ints, task_queue, waker, monitor, to_spawn, tasks, streamVars,
                 typed, accepted>>

\* Mutant: a pending poll wakes its own task.
SecondPopSelfWakes ==
  /\ pc = "second_pop"
  /\ IF scan # <<>>
       THEN /\ key' = Head(scan) /\ scan' = Tail(scan) /\ pc' = "take"
            /\ UNCHANGED <<current, task_queue>>
       ELSE /\ pc' = "pop_ready" /\ current' = NoTask
            /\ task_queue' = IF Len(task_queue) < MAX_TASKS
                               THEN Append(task_queue, current) ELSE task_queue
            /\ UNCHANGED <<key, scan>>
  /\ UNCHANGED <<ints, waker, monitor, to_spawn, tasks, started,
                 scan_init, handled, typed, accepted>>

\* poll_next: look again after registering; Pending ends the poll.
SecondPop ==
  /\ pc = "second_pop"
  /\ IF scan # <<>>
       THEN key' = Head(scan) /\ scan' = Tail(scan) /\ pc' = "take" /\ UNCHANGED current
       ELSE pc' = "pop_ready" /\ current' = NoTask /\ UNCHANGED <<key, scan>>
  /\ UNCHANGED <<ints, task_queue, waker, monitor, to_spawn, tasks, started,
                 scan_init, handled, typed, accepted>>

\* poll_next: AtomicWaker::take before returning Ready.
TakeWaker ==
  /\ pc = "take"
  /\ waker' = NoTask
  /\ pc' = "handle"
  /\ UNCHANGED <<ints, task_queue, monitor, taskVars, streamVars, keyVars>>

\* The body of shell_task's loop, which goes back to scancodes.next().
HandleKey ==
  /\ pc = "handle"
  /\ handled' = key
  /\ key' = 0
  /\ pc' = "fast_pop"
  /\ UNCHANGED <<ints, task_queue, waker, monitor, taskVars, started, scan_init, keyVars>>

\* Mutant: the queue is tested with interrupts enabled.
NoDisable ==
  /\ pc = "disable"
  /\ pc' = "is_empty"
  /\ UNCHANGED <<ints, task_queue, waker, monitor, taskVars, streamVars, keyVars>>

\* sleep_if_idle: cli, then test the queue.
DisableInterrupts ==
  /\ pc = "disable"
  /\ ints' = FALSE
  /\ pc' = "is_empty"
  /\ UNCHANGED <<task_queue, waker, monitor, taskVars, streamVars, keyVars>>

\* sleep_if_idle: is_empty decides between the two ways out.
TestEmpty ==
  /\ pc = "is_empty"
  /\ pc' = IF task_queue = <<>> THEN "hlt" ELSE "enable"
  /\ UNCHANGED <<ints, task_queue, waker, monitor, taskVars, streamVars, keyVars>>

\* sti; hlt is one step: the interrupt shadow of sti covers the hlt.
EnableAndHlt ==
  /\ pc = "hlt"
  /\ ints' = TRUE
  /\ pc' = "halted"
  /\ UNCHANGED <<task_queue, waker, monitor, taskVars, streamVars, keyVars>>

EnableInterrupts ==
  /\ pc = "enable"
  /\ ints' = TRUE
  /\ pc' = "pop_ready"
  /\ UNCHANGED <<task_queue, waker, monitor, taskVars, streamVars, keyVars>>
-----------------------------------------------------------------------------
(* Interrupt handlers *)

\* An interrupt ends hlt; sleep_if_idle then returns into the run loop.
Resume == pc' = IF pc = "halted" THEN "pop_ready" ELSE pc

\* Mutant: no capacity check.
WakeTaskUnbounded(t) ==
  task_queue' = Append(task_queue, t) /\ UNCHANGED monitor

\* Mutant: the ready queue counts as full one slot early.
WakeTaskEarlyFull(t) ==
  \/ /\ Len(task_queue) + 1 < MAX_TASKS
     /\ task_queue' = Append(task_queue, t)
     /\ UNCHANGED monitor
  \/ /\ Len(task_queue) + 1 >= MAX_TASKS
     /\ dropped_wakes' = dropped_wakes + 1
     /\ UNCHANGED <<task_queue, tasks_spawned, tasks_completed, active_tasks>>

\* TaskWaker::wake_task for task t.
WakeTask(t) ==
  \/ /\ Len(task_queue) < MAX_TASKS
     /\ task_queue' = Append(task_queue, t)
     /\ UNCHANGED monitor
  \/ /\ Len(task_queue) >= MAX_TASKS
     /\ dropped_wakes' = dropped_wakes + 1
     /\ UNCHANGED <<task_queue, tasks_spawned, tasks_completed, active_tasks>>

\* AtomicWaker::wake: take the waker, wake its task if there was one.
Wake ==
  /\ waker' = NoTask
  /\ IF waker # NoTask THEN WakeTask(waker) ELSE UNCHANGED <<task_queue, monitor>>

\* Mutant: the scancode is queued and nobody is woken.
KeyAcceptedNoWake ==
  /\ scan_init
  /\ Len(scan) < MAX_SCANCODES
  /\ scan' = Append(scan, accepted + 1)
  /\ accepted' = accepted + 1
  /\ UNCHANGED <<waker, task_queue, monitor>>

\* add_scancode with room in the queue.
KeyAccepted ==
  /\ scan_init
  /\ Len(scan) < MAX_SCANCODES
  /\ scan' = Append(scan, accepted + 1)
  /\ accepted' = accepted + 1
  /\ Wake

\* add_scancode before the stream exists, or with the queue full.
KeyDropped ==
  /\ ~scan_init \/ Len(scan) >= MAX_SCANCODES
  /\ UNCHANGED <<scan, accepted, waker, task_queue, monitor>>

\* keyboard_interrupt_handler
KeyboardInterrupt ==
  /\ ints
  /\ typed < MaxKeys
  /\ typed' = typed + 1
  /\ KeyAccepted \/ KeyDropped
  /\ Resume
  /\ UNCHANGED <<ints, taskVars, streamVars>>

\* timer_interrupt_handler: to the executor, only an end of hlt.
TimerInterrupt ==
  /\ ints
  /\ Resume
  /\ UNCHANGED <<ints, task_queue, waker, monitor, taskVars, streamVars, keyVars>>
-----------------------------------------------------------------------------
Main ==
  \/ \E t \in Tasks : Spawn(t)
  \/ PopReady \/ NoneReady \/ PollOneShot \/ PollShell
  \/ FastPop \/ Register \/ SecondPop \/ TakeWaker \/ HandleKey
  \/ DisableInterrupts \/ TestEmpty \/ EnableAndHlt \/ EnableInterrupts

Interrupt == KeyboardInterrupt \/ TimerInterrupt

Next == Main \/ Interrupt

\* The core keeps executing instructions: a main-thread section that can run
\* is run.  Nothing is assumed about when, or whether, interrupts arrive.
Spec == Init /\ [][Next]_vars /\ WF_vars(Main)
-----------------------------------------------------------------------------
(* Properties *)

\* Every variable has its Rust type and neither ArrayQueue outgrows its slots;
\* only the shell's waker is ever registered.
TypeOK ==
  /\ pc \in Pc
  /\ ints \in BOOLEAN
  /\ to_spawn \subseteq Tasks
  /\ tasks \subseteq Tasks
  /\ task_queue \in Seq(Tasks)
  /\ Len(task_queue) <= MAX_TASKS
  /\ current \in Tasks \cup {NoTask}
  /\ started \in BOOLEAN
  /\ scan_init \in BOOLEAN
  /\ scan \in Seq(Nat)
  /\ Len(scan) <= MAX_SCANCODES
  /\ waker \in {Shell, NoTask}
  /\ key \in Nat
  /\ typed \in Nat
  /\ accepted \in Nat
  /\ handled \in Nat
  /\ tasks_spawned \in Nat
  /\ tasks_completed \in Nat
  /\ active_tasks \in Nat
  /\ dropped_wakes \in Nat

\* A shell that is not being polled will be polled again when it has to be:
\* its id is in the ready queue, or its waker is registered and no scancode
\* waits.  This is what register-then-pop-again in poll_next is for.
NoLostWake ==
  Shell \in tasks /\ current # Shell =>
    Queued(Shell) \/ (waker = Shell /\ scan = <<>>)

\* The core halts only when nothing is left to do: no task is ready, no
\* scancode waits, and the next keyboard interrupt will wake the shell.
HaltsOnlyWhenIdle ==
  pc = "halted" =>
    ints /\ task_queue = <<>> /\ scan = <<>> /\ key = 0 /\ waker = Shell

\* The scancodes accepted and not yet handled are the one in the shell's hand
\* followed by the queue, in arrival order: none lost, doubled or overtaken.
BacklogInOrder ==
  LET held == IF key = 0 THEN 0 ELSE 1
  IN  /\ key # 0 => key = handled + 1
      /\ accepted = handled + held + Len(scan)
      /\ \A i \in 1..Len(scan) : scan[i] = handled + held + i

\* None of the panics of this path is reachable: "queue full" in spawn and
\* "ScancodeStream::new should only be called once".
NoPanic == pc # "panicked"

\* A wake is dropped only when the task it was for is in the ready queue
\* already, so the drop that monitor::inc_dropped_wake counts loses nothing.
DroppedWakeIsHarmless ==
  [][dropped_wakes' # dropped_wakes => Queued(waker)]_vars

\* A handler never drops the last reference to a waker, although AtomicWaker::wake
\* consumes the one it takes: dropping the last would free memory in a handler,
\* under a heap lock that the interrupted code may hold.
InterruptsNeverFree ==
  [][Interrupt => \A t \in Tasks : Holders(t) # {} => Holders(t)' # {}]_vars

\* The counters the shell's mem command prints agree with the task table.
CountersAgree ==
  /\ active_tasks = Cardinality(tasks)
  /\ tasks_spawned = tasks_completed + active_tasks

\* The kernel does not spin: once typing stops it halts again and again, and
\* by then every task that can finish has been polled, removed and dropped.
KeepsHalting == []<>(pc = "halted" /\ tasks = {Shell})

\* The whole path implements the ordered, lossless key stream, liveness
\* included: every accepted scancode reaches the shell.
KS == INSTANCE KeyStream WITH Capacity <- MAX_SCANCODES, Limit <- MaxKeys
ImplementsKeyStream == KS!Spec
ImplementsKeyStreamSafety == KS!Safety
=============================================================================
