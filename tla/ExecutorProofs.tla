---------------------------- MODULE ExecutorProofs ----------------------------
(***************************************************************************)
(* Proofs about module Executor for every set of tasks, every queue        *)
(* capacity and every number of key presses.                               *)
(*                                                                         *)
(* NoLostWake is not inductive as it stands.  Three facts strengthen it:   *)
(* what holds between AtomicWaker::register and the second pop             *)
(* (WindowInv), that an id other than the shell's is queued at most once,  *)
(* so that a full ready queue always holds the shell's id (OnceInv), and   *)
(* where the main thread can be in each phase (ControlInv, BootInv).       *)
(***************************************************************************)
EXTENDS Executor, SequenceTheorems, FiniteSetTheorems, TLAPS

\* Where the main thread is, whom it polls, and whether interrupts are on.
ControlInv ==
  /\ pc \in Idle => current = NoTask
  /\ pc \in Stream => current = Shell /\ started
  /\ pc = "poll" => current \in tasks
  /\ ints <=> pc \notin {"is_empty", "hlt", "enable"}
  /\ pc \in {"hlt", "halted"} => task_queue = <<>>
  /\ pc # "spawn" => to_spawn = {}
  /\ pc # "panicked"

\* What is spawned, and that nothing is registered or queued for the shell
\* before its first poll.
BootInv ==
  /\ tasks \cap to_spawn = {}
  /\ Shell \in tasks \cup to_spawn
  /\ pc = "spawn" => ~started
  /\ started = scan_init
  /\ ~started => waker = NoTask /\ scan = <<>>
  /\ \A t \in to_spawn : ~Queued(t)

\* An id is queued at most once, except that of a shell already started.
OnceInv ==
  \A i, j \in 1..Len(task_queue) :
    task_queue[i] = task_queue[j] /\ (task_queue[i] # Shell \/ ~started) => i = j

\* Between register and the second pop the waker is registered, or an
\* interrupt has used it and queued the shell.
WindowInv == pc = "second_pop" => waker = Shell \/ Queued(Shell)

\* The shell holds a scancode exactly while it is about to handle it.
KeyInv ==
  /\ key # 0 <=> pc \in {"take", "handle"}
  /\ accepted <= typed
  /\ typed <= MaxKeys
  /\ BacklogInOrder

IInv ==
  /\ TypeOK
  /\ ControlInv
  /\ BootInv
  /\ OnceInv
  /\ NoLostWake
  /\ WindowInv
  /\ KeyInv
  /\ CountersAgree
-----------------------------------------------------------------------------
(* The ready queue *)

\* Pigeonhole: a queue of distinct ids that lacks one task is not full.
LEMMA DistinctHasRoom ==
  ASSUME NEW q \in Seq(Tasks), NEW t \in Tasks,
         \A i \in 1..Len(q) : q[i] # t,
         \A i, j \in 1..Len(q) : q[i] = q[j] => i = j
  PROVE  Len(q) < MAX_TASKS
<1> DEFINE T == Tasks \ {t}
<1>1. Len(q) \in Nat /\ q \in [1..Len(q) -> Tasks]
  BY LenProperties
<1>2. q \in Injection(1..Len(q), T)
  BY <1>1 DEF Injection, IsInjective
<1>3. IsFiniteSet(T) /\ Cardinality(T) = Cardinality(Tasks) - 1
  BY TasksAssumption, FS_RemoveElement
<1>4. Cardinality(1..Len(q)) <= Cardinality(T)
  BY <1>2, <1>3, FS_Injection
<1>5. Cardinality(1..Len(q)) = Len(q)
  <2>1. Cardinality(1..Len(q)) = IF 1 > Len(q) THEN 0 ELSE Len(q) - 1 + 1
    BY <1>1, 1 \in Int, Len(q) \in Int, FS_Interval
  <2> QED
    BY <1>1, <2>1
<1>6. Cardinality(Tasks) \in Nat
  BY TasksAssumption, FS_CardinalityType
<1> QED
  BY <1>1, <1>3, <1>4, <1>5, <1>6, QueueAssumption

\* wake_task drops a wake only if the shell is queued already.
LEMMA FullHasShell ==
  ASSUME TypeOK, OnceInv, Len(task_queue) >= MAX_TASKS
  PROVE  Queued(Shell)
<1> SUFFICES ASSUME ~Queued(Shell) PROVE FALSE
  OBVIOUS
<1>1. task_queue \in Seq(Tasks) /\ Len(task_queue) \in Nat
  BY LenProperties DEF TypeOK
<1>2. \A i \in 1..Len(task_queue) : task_queue[i] # Shell
  BY DEF Queued
<1>3. \A i, j \in 1..Len(task_queue) : task_queue[i] = task_queue[j] => i = j
  BY <1>2 DEF OnceInv
<1>4. Len(task_queue) < MAX_TASKS
  BY <1>1, <1>2, <1>3, DistinctHasRoom, TasksAssumption
<1> QED
  BY <1>1, <1>4, QueueAssumption

\* Executor::spawn never finds the ready queue full.
LEMMA RoomToSpawn ==
  ASSUME TypeOK, BootInv, OnceInv, pc = "spawn", NEW t \in to_spawn
  PROVE  Len(task_queue) < MAX_TASKS
<1>1. task_queue \in Seq(Tasks) /\ t \in Tasks
  BY DEF TypeOK
<1>2. \A i \in 1..Len(task_queue) : task_queue[i] # t
  BY DEF BootInv, Queued
<1>3. \A i, j \in 1..Len(task_queue) : task_queue[i] = task_queue[j] => i = j
  BY DEF BootInv, OnceInv
<1> QED
  BY <1>1, <1>2, <1>3, DistinctHasRoom
-----------------------------------------------------------------------------
(* The inductive invariant *)

\* The state in which kernel_main has just created the executor satisfies it.
LEMMA InitIInv == Init => IInv
<1> SUFFICES ASSUME Init PROVE IInv
  OBVIOUS
<1>1. /\ <<>> \in Seq(Tasks) /\ <<>> \in Seq(Nat)
      /\ Len(<<>>) = 0 /\ \A i \in 1..Len(<<>>) : FALSE
  OBVIOUS
<1>3. TypeOK
  <2>1. task_queue \in Seq(Tasks) /\ Len(task_queue) <= MAX_TASKS
    BY <1>1, QueueAssumption DEF Init
  <2>2. scan \in Seq(Nat) /\ Len(scan) <= MAX_SCANCODES
    BY <1>1, QueueAssumption DEF Init
  <2> QED
    BY <2>1, <2>2 DEF Init, TypeOK, Pc, Idle
<1>4. ControlInv /\ NoLostWake /\ WindowInv
  BY DEF Init, ControlInv, NoLostWake, WindowInv, Idle, Stream
<1>5. \A i \in 1..Len(task_queue) : FALSE
  BY <1>1 DEF Init
<1>6. BootInv
  BY <1>5, TasksAssumption DEF Init, BootInv, Queued
<1>7. OnceInv
  BY <1>5 DEF OnceInv
<1>8. KeyInv
  BY <1>1, QueueAssumption DEF Init, KeyInv, BacklogInOrder
<1>9. CountersAgree
  BY FS_EmptySet DEF Init, CountersAgree
<1> QED
  BY <1>3, <1>4, <1>6, <1>7, <1>8, <1>9 DEF IInv

\* Removing the head of the ready queue (ArrayQueue::pop).
LEMMA PopQueue ==
  ASSUME task_queue \in Seq(Tasks), task_queue # <<>>, task_queue' = Tail(task_queue)
  PROVE  /\ task_queue' \in Seq(Tasks)
         /\ Len(task_queue) \in Nat \ {0}
         /\ Len(task_queue') = Len(task_queue) - 1
         /\ Head(task_queue) = task_queue[1]
         /\ Head(task_queue) \in Tasks
         /\ \A i \in 1..Len(task_queue') : task_queue'[i] = task_queue[i + 1]
  BY HeadTailProperties, LenProperties, EmptySeq

\* Adding an id at the end of the ready queue (ArrayQueue::push).
LEMMA PushQueue ==
  ASSUME task_queue \in Seq(Tasks), NEW t \in Tasks, task_queue' = Append(task_queue, t)
  PROVE  /\ task_queue' \in Seq(Tasks)
         /\ task_queue' # <<>>
         /\ Len(task_queue) \in Nat
         /\ Len(task_queue') = Len(task_queue) + 1
         /\ \A i \in 1..Len(task_queue) : task_queue'[i] = task_queue[i]
         /\ task_queue'[Len(task_queue) + 1] = t
         /\ Queued(t)'
         /\ \A u \in Tasks : Queued(u)' <=> Queued(u) \/ u = t
<1>1. /\ task_queue' \in Seq(Tasks)
      /\ task_queue' # <<>>
      /\ Len(task_queue) \in Nat
      /\ Len(task_queue') = Len(task_queue) + 1
      /\ \A i \in 1..Len(task_queue) : task_queue'[i] = task_queue[i]
      /\ task_queue'[Len(task_queue) + 1] = t
  BY AppendProperties, LenProperties
<1>2. 1..Len(task_queue') = 1..Len(task_queue) \cup {Len(task_queue) + 1}
  BY <1>1
<1> QED
  BY <1>1, <1>2 DEF Queued

\* Executor::spawn keeps the invariant; the ready queue has room for every task.
LEMMA SpawnIInv == ASSUME IInv, NEW t \in Tasks, Spawn(t) PROVE IInv'
<1> USE TasksAssumption, QueueAssumption
<1> USE DEF IInv, Spawn, monitor, taskVars, streamVars, keyVars
<1>1. Len(task_queue) < MAX_TASKS
  BY RoomToSpawn
<1>2. t \in to_spawn /\ t \notin tasks /\ ~Queued(t) /\ ~started
  BY DEF BootInv
<1>3. task_queue' = Append(task_queue, t)
  BY <1>1
<1>4. /\ task_queue' \in Seq(Tasks)
      /\ Len(task_queue) \in Nat
      /\ Len(task_queue') = Len(task_queue) + 1
      /\ \A i \in 1..Len(task_queue) : task_queue'[i] = task_queue[i]
      /\ task_queue'[Len(task_queue) + 1] = t
      /\ \A u \in Tasks : Queued(u)' <=> Queued(u) \/ u = t
  BY <1>3, PushQueue DEF TypeOK
<1>5. TypeOK'
  BY <1>1, <1>4 DEF TypeOK, Pc, Idle
<1>6. ControlInv'
  BY <1>1 DEF ControlInv, TypeOK, Idle, Stream
<1>7. BootInv'
  BY <1>1, <1>2, <1>4 DEF BootInv, TypeOK
<1>8. OnceInv'
  BY <1>2, <1>4 DEF OnceInv, Queued
<1>9. NoLostWake'
  BY <1>2, <1>4 DEF NoLostWake
<1>10. WindowInv'
  BY <1>1 DEF WindowInv
<1>11. KeyInv'
  BY <1>1 DEF KeyInv, BacklogInOrder
<1>12. CountersAgree'
  <2>1. IsFiniteSet(tasks) /\ Cardinality(tasks) \in Nat
    BY FS_Subset, FS_CardinalityType DEF TypeOK
  <2>2. Cardinality(tasks') = Cardinality(tasks) + 1
    BY <1>2, <2>1, FS_AddElement
  <2> QED
    BY <1>1, <2>1, <2>2 DEF CountersAgree, TypeOK
<1> QED
  BY <1>5, <1>6, <1>7, <1>8, <1>9, <1>10, <1>11, <1>12

\* run_ready_tasks keeps it when it takes the next id and looks it up.
LEMMA PopReadyIInv == IInv /\ PopReady => IInv'
<1> SUFFICES ASSUME IInv, PopReady PROVE IInv'
  OBVIOUS
<1> USE TasksAssumption, QueueAssumption
<1> USE DEF IInv, PopReady, monitor, taskVars, streamVars, keyVars
<1>1. /\ task_queue' \in Seq(Tasks)
      /\ Len(task_queue) \in Nat \ {0}
      /\ Len(task_queue') = Len(task_queue) - 1
      /\ Head(task_queue) = task_queue[1]
      /\ Head(task_queue) \in Tasks
      /\ \A i \in 1..Len(task_queue') : task_queue'[i] = task_queue[i + 1]
  BY PopQueue DEF TypeOK
<1>2. TypeOK'
  BY <1>1 DEF TypeOK, Pc
<1>3. ControlInv'
  BY DEF ControlInv, Idle, Stream
<1>4. BootInv'
  BY DEF BootInv, ControlInv
<1>5. OnceInv'
  BY <1>1 DEF OnceInv
<1>6. NoLostWake'
  <2>1. Queued(Shell) /\ Head(task_queue) # Shell => Queued(Shell)'
    <3> SUFFICES ASSUME NEW i \in 1..Len(task_queue), task_queue[i] = Shell,
                        Head(task_queue) # Shell
                 PROVE  Queued(Shell)'
      BY DEF Queued
    <3>1. i # 1 /\ i - 1 \in 1..Len(task_queue')
      BY <1>1
    <3>2. task_queue'[i - 1] = Shell
      BY <1>1, <3>1
    <3> QED
      BY <3>1, <3>2 DEF Queued
  <2> QED
    BY <2>1 DEF NoLostWake, ControlInv, Idle
<1>7. WindowInv' /\ CountersAgree'
  BY DEF WindowInv, CountersAgree
<1>8. KeyInv'
  BY DEF KeyInv, BacklogInOrder
<1> QED
  BY <1>2, <1>3, <1>4, <1>5, <1>6, <1>7, <1>8

\* A task that finishes is removed and counted; the shell is not touched.
LEMMA PollOneShotIInv == IInv /\ PollOneShot => IInv'
<1> SUFFICES ASSUME IInv, PollOneShot PROVE IInv'
  OBVIOUS
<1> USE TasksAssumption, QueueAssumption
<1> USE DEF IInv, PollOneShot, monitor, taskVars, streamVars, keyVars
<1>1. CountersAgree' /\ active_tasks > 0
  <2>1. IsFiniteSet(tasks) /\ Cardinality(tasks) \in Nat
    BY FS_Subset, FS_CardinalityType DEF TypeOK
  <2>2. current \in tasks
    BY DEF ControlInv
  <2>3. IsFiniteSet(tasks') /\ Cardinality(tasks') = Cardinality(tasks) - 1
    BY <2>1, <2>2, FS_RemoveElement
  <2>4. Cardinality(tasks') \in Nat
    BY <2>3, FS_CardinalityType
  <2> QED
    BY <2>1, <2>3, <2>4 DEF CountersAgree, TypeOK
<1>2. TypeOK'
  BY <1>1 DEF TypeOK, Pc, Idle
<1>3. ControlInv' /\ BootInv' /\ OnceInv' /\ NoLostWake' /\ WindowInv'
  BY DEF ControlInv, BootInv, OnceInv, NoLostWake, WindowInv, Queued, Idle, Stream
<1>4. KeyInv'
  BY DEF KeyInv, BacklogInOrder
<1> QED
  BY <1>1, <1>2, <1>3, <1>4

\* Removing the oldest waiting scancode leaves the backlog in order.
LEMMA PopScan ==
  ASSUME scan \in Seq(Nat), scan # <<>>, BacklogInOrder, key = 0, handled \in Nat,
         key' = Head(scan), scan' = Tail(scan), UNCHANGED <<accepted, handled>>
  PROVE  /\ scan' \in Seq(Nat)
         /\ Len(scan) \in Nat
         /\ Len(scan') = Len(scan) - 1
         /\ key' = handled + 1
         /\ BacklogInOrder'
<1>1. /\ scan' \in Seq(Nat)
      /\ Len(scan) \in Nat \ {0}
      /\ Len(scan') = Len(scan) - 1
      /\ key' = scan[1]
      /\ \A i \in 1..Len(scan') : scan'[i] = scan[i + 1]
  BY HeadTailProperties, LenProperties, EmptySeq
<1>2. key' = handled + 1
  BY <1>1 DEF BacklogInOrder
<1>3. \A i \in 1..Len(scan') : scan'[i] = handled + 1 + i
  BY <1>1 DEF BacklogInOrder
<1> QED
  BY <1>1, <1>2, <1>3 DEF BacklogInOrder

\* The fast path of poll_next keeps the scancodes in order.
LEMMA FastPopIInv == IInv /\ FastPop => IInv'
<1> SUFFICES ASSUME IInv, FastPop PROVE IInv'
  OBVIOUS
<1> USE TasksAssumption, QueueAssumption
<1> USE DEF IInv, FastPop, monitor, taskVars, streamVars, keyVars
<1>1. CASE scan = <<>>
  BY <1>1 DEF TypeOK, ControlInv, BootInv, OnceInv, NoLostWake, WindowInv, KeyInv,
              BacklogInOrder, CountersAgree, Queued, Idle, Stream, Pc
<1>2. CASE scan # <<>>
  <2>1. key = 0
    BY DEF KeyInv
  <2>2. /\ scan' \in Seq(Nat)
        /\ Len(scan) \in Nat
        /\ Len(scan') = Len(scan) - 1
        /\ key' = handled + 1
        /\ BacklogInOrder'
    BY <1>2, <2>1, PopScan DEF KeyInv, TypeOK
  <2>3. TypeOK'
    BY <1>2, <2>2 DEF TypeOK, Pc, Stream
  <2>4. ControlInv' /\ BootInv' /\ OnceInv' /\ NoLostWake' /\ WindowInv' /\ CountersAgree'
    BY <1>2 DEF ControlInv, BootInv, OnceInv, NoLostWake, WindowInv, CountersAgree,
                Queued, Idle, Stream
  <2>5. KeyInv'
    BY <1>2, <2>2 DEF KeyInv, TypeOK
  <2> QED
    BY <2>3, <2>4, <2>5
<1> QED
  BY <1>1, <1>2

\* After registering, poll_next either finds a scancode or leaves the waker
\* registered with none waiting: the step NoLostWake rests on.
LEMMA SecondPopIInv == IInv /\ SecondPop => IInv'
<1> SUFFICES ASSUME IInv, SecondPop PROVE IInv'
  OBVIOUS
<1> USE TasksAssumption, QueueAssumption
<1> USE DEF IInv, SecondPop, monitor, taskVars, streamVars, keyVars
\* Pending: WindowInv is what makes it safe to leave the shell alone.
<1>1. CASE scan = <<>>
  <2>1. NoLostWake'
    BY <1>1 DEF NoLostWake, WindowInv, Queued
  <2> QED
    BY <1>1, <2>1 DEF TypeOK, ControlInv, BootInv, OnceInv, WindowInv, KeyInv,
                BacklogInOrder, CountersAgree, Queued, Idle, Stream, Pc
<1>2. CASE scan # <<>>
  <2>1. key = 0
    BY DEF KeyInv
  <2>2. /\ scan' \in Seq(Nat)
        /\ Len(scan) \in Nat
        /\ Len(scan') = Len(scan) - 1
        /\ key' = handled + 1
        /\ BacklogInOrder'
    BY <1>2, <2>1, PopScan DEF KeyInv, TypeOK
  <2>3. TypeOK'
    BY <1>2, <2>2 DEF TypeOK, Pc, Stream
  <2>4. ControlInv' /\ BootInv' /\ OnceInv' /\ NoLostWake' /\ WindowInv' /\ CountersAgree'
    BY <1>2 DEF ControlInv, BootInv, OnceInv, NoLostWake, WindowInv, CountersAgree,
                Queued, Idle, Stream
  <2>5. KeyInv'
    BY <1>2, <2>2 DEF KeyInv, TypeOK
  <2> QED
    BY <2>3, <2>4, <2>5
<1> QED
  BY <1>1, <1>2

\* The body of shell_task's loop hands the scancode on and polls again.
LEMMA HandleKeyIInv == IInv /\ HandleKey => IInv'
<1> SUFFICES ASSUME IInv, HandleKey PROVE IInv'
  OBVIOUS
<1> USE TasksAssumption, QueueAssumption
<1> USE DEF IInv, HandleKey, monitor, taskVars, streamVars, keyVars
<1>1. TypeOK' /\ ControlInv' /\ BootInv' /\ OnceInv' /\ NoLostWake' /\ WindowInv' /\ CountersAgree'
  BY DEF TypeOK, ControlInv, BootInv, OnceInv, NoLostWake, WindowInv, CountersAgree,
         Queued, Idle, Stream, Pc
<1>2. key # 0 /\ key = handled + 1 /\ Len(scan) \in Nat
  BY LenProperties DEF KeyInv, BacklogInOrder, TypeOK
<1>3. KeyInv'
  BY <1>2 DEF KeyInv, BacklogInOrder, TypeOK
<1> QED
  BY <1>1, <1>3

\* sleep_if_idle changes only the interrupt flag and the place in the code.
LEMMA SleepIInv ==
  ASSUME IInv, DisableInterrupts \/ TestEmpty \/ EnableAndHlt \/ EnableInterrupts
  PROVE  IInv'
<1> USE TasksAssumption, QueueAssumption
<1> USE DEF IInv, DisableInterrupts, TestEmpty, EnableAndHlt, EnableInterrupts,
            monitor, taskVars, streamVars, keyVars
<1>1. TypeOK'
  BY DEF TypeOK, Idle, Stream, Pc
<1>2. ints \in BOOLEAN /\ ints' \in BOOLEAN
  BY <1>1 DEF TypeOK
<1>3. ControlInv'
  BY <1>2 DEF ControlInv, Idle, Stream
<1>4. BootInv' /\ OnceInv' /\ NoLostWake' /\ WindowInv' /\ CountersAgree'
  BY DEF BootInv, OnceInv, NoLostWake, WindowInv, CountersAgree, Queued, ControlInv, Idle
<1>5. KeyInv'
  BY DEF KeyInv, BacklogInOrder
<1> QED
  BY <1>1, <1>3, <1>4, <1>5

\* The keyboard handler keeps the invariant at every point it can come in.
LEMMA KeyboardIInv == IInv /\ KeyboardInterrupt => IInv'
<1> SUFFICES ASSUME IInv, KeyboardInterrupt PROVE IInv'
  OBVIOUS
<1> USE TasksAssumption, QueueAssumption
<1> USE DEF IInv, KeyboardInterrupt, Resume, monitor, taskVars, streamVars
<1>1. CASE KeyDropped
  <2>1. TypeOK'
    BY <1>1 DEF KeyDropped, TypeOK, Idle, Stream, Pc
  <2>2. ControlInv'
    BY <1>1 DEF KeyDropped, ControlInv, Idle, Stream
  <2>3. BootInv' /\ OnceInv' /\ NoLostWake' /\ WindowInv' /\ CountersAgree'
    BY <1>1 DEF KeyDropped, ControlInv, BootInv, OnceInv, NoLostWake, WindowInv,
                CountersAgree, Queued, Idle, Stream
  <2>4. KeyInv'
    BY <1>1 DEF KeyDropped, TypeOK, KeyInv, BacklogInOrder
  <2> QED
    BY <2>1, <2>2, <2>3, <2>4
<1>2. CASE KeyAccepted
  <2> USE <1>2 DEF KeyAccepted, Wake
  <2>1. /\ scan' \in Seq(Nat)
        /\ Len(scan) \in Nat
        /\ Len(scan') = Len(scan) + 1
        /\ \A i \in 1..Len(scan) : scan'[i] = scan[i]
        /\ scan'[Len(scan) + 1] = accepted + 1
    BY AppendProperties, LenProperties DEF TypeOK
  <2>2. KeyInv'
    <3> DEFINE held == IF key = 0 THEN 0 ELSE 1
    <3>1. /\ accepted = handled + held + Len(scan)
          /\ \A i \in 1..Len(scan) : scan[i] = handled + held + i
      BY DEF KeyInv, BacklogInOrder
    <3>2. held \in Nat /\ handled \in Nat
      BY DEF TypeOK
    <3> HIDE DEF held
    <3>5. accepted' = handled + held + Len(scan')
      BY <2>1, <3>1, <3>2
    <3>3. \A i \in 1..Len(scan') : scan'[i] = handled + held + i
      <4> SUFFICES ASSUME NEW i \in 1..Len(scan') PROVE scan'[i] = handled + held + i
        OBVIOUS
      <4>1. CASE i \in 1..Len(scan)
        BY <2>1, <3>1, <4>1
      <4>2. CASE i = Len(scan) + 1
        <5>1. scan'[i] = accepted + 1
          BY <2>1, <4>2
        <5> QED
          BY <2>1, <3>1, <3>2, <4>2, <5>1
      <4> QED
        BY <2>1, <4>1, <4>2
    <3>4. BacklogInOrder'
      BY <3>3, <3>5 DEF KeyInv, BacklogInOrder, held
    <3> QED
      BY <3>4 DEF KeyInv, TypeOK
  <2>3. started /\ scan_init /\ to_spawn = {} /\ Shell \in tasks /\ pc # "spawn"
    BY DEF BootInv, ControlInv
  \* What the wake does to the ready queue.
  <2>4. /\ task_queue' \in Seq(Tasks)
        /\ Len(task_queue') <= MAX_TASKS
        /\ OnceInv'
        /\ Queued(Shell) => Queued(Shell)'
        /\ waker = Shell => Queued(Shell)'
        /\ dropped_wakes' \in Nat
        /\ UNCHANGED <<tasks_spawned, tasks_completed, active_tasks>>
        /\ pc \in {"hlt", "halted"} => pc' = "pop_ready"
    <3>0. pc \in {"hlt", "halted"} => pc' = "pop_ready"
      BY DEF ControlInv
    <3>1. CASE waker = NoTask
      BY <3>0, <3>1 DEF TypeOK, OnceInv, Queued
    <3>2. CASE waker = Shell /\ Len(task_queue) < MAX_TASKS
      <4>1. task_queue' = Append(task_queue, Shell)
            /\ UNCHANGED <<tasks_spawned, tasks_completed, active_tasks, dropped_wakes>>
        BY <3>2 DEF WakeTask, TypeOK
      <4>2. /\ task_queue' \in Seq(Tasks)
            /\ Len(task_queue) \in Nat
            /\ Len(task_queue') = Len(task_queue) + 1
            /\ \A i \in 1..Len(task_queue) : task_queue'[i] = task_queue[i]
            /\ task_queue'[Len(task_queue) + 1] = Shell
            /\ Queued(Shell)'
        BY <4>1, PushQueue DEF TypeOK
      <4>3. OnceInv'
        BY <2>3, <4>2 DEF OnceInv
      <4> QED
        BY <3>0, <3>2, <4>1, <4>2, <4>3 DEF TypeOK
    <3>3. CASE waker = Shell /\ ~(Len(task_queue) < MAX_TASKS)
      <4>1. /\ task_queue' = task_queue
            /\ dropped_wakes' = dropped_wakes + 1
            /\ UNCHANGED <<tasks_spawned, tasks_completed, active_tasks>>
        BY <3>3 DEF WakeTask, TypeOK
      <4>2. Queued(Shell)
        BY <3>3, FullHasShell, LenProperties DEF TypeOK
      <4> QED
        BY <3>0, <4>1, <4>2 DEF TypeOK, OnceInv, Queued
    <3> QED
      BY <3>1, <3>2, <3>3 DEF TypeOK
  <2>5. TypeOK'
    BY <2>1, <2>4 DEF TypeOK, Pc, Idle
  <2>6. ControlInv'
    BY <2>3, <2>4 DEF ControlInv, TypeOK, Idle, Stream
  <2>7. BootInv'
    BY <2>3 DEF BootInv
  <2>8. NoLostWake' /\ WindowInv'
    BY <2>4 DEF NoLostWake, WindowInv, TypeOK
  <2>9. CountersAgree'
    BY <2>4 DEF CountersAgree
  <2> QED
    BY <2>2, <2>4, <2>5, <2>6, <2>7, <2>8, <2>9
<1> QED
  BY <1>1, <1>2

\* Every step of the executor, its tasks and the interrupts keeps IInv.
LEMMA StepIInv == IInv /\ [Next]_vars => IInv'
<1> SUFFICES ASSUME IInv, [Next]_vars PROVE IInv'
  OBVIOUS
<1> USE TasksAssumption, QueueAssumption
<1> USE DEF IInv, monitor, taskVars, streamVars, keyVars
<1>1. CASE NoneReady
  <2>1. TypeOK'
    BY <1>1 DEF NoneReady, TypeOK, Idle, Stream, Pc
  <2>2. ControlInv'
    BY <1>1 DEF NoneReady, ControlInv, Idle, Stream
  <2>3. BootInv' /\ OnceInv' /\ NoLostWake' /\ WindowInv' /\ CountersAgree'
    BY <1>1 DEF NoneReady, ControlInv, BootInv, OnceInv, NoLostWake, WindowInv,
                CountersAgree, Queued, Idle, Stream
  <2>4. KeyInv'
    BY <1>1 DEF NoneReady, TypeOK, KeyInv, BacklogInOrder
  <2> QED
    BY <2>1, <2>2, <2>3, <2>4
<1>2. CASE PollShell
  <2>1. TypeOK'
    BY <1>2 DEF PollShell, try_init_once, TypeOK, Idle, Stream, Pc
  <2>2. ControlInv'
    BY <1>2 DEF PollShell, try_init_once, ControlInv, BootInv, Idle, Stream
  <2>3. pc' = "fast_pop" /\ scan_init' = TRUE
    BY <1>2 DEF PollShell, try_init_once, TypeOK, BootInv
  <2>4. BootInv' /\ OnceInv' /\ NoLostWake' /\ WindowInv' /\ CountersAgree'
    BY <1>2, <2>3 DEF PollShell, ControlInv, BootInv, OnceInv, NoLostWake, WindowInv,
                      CountersAgree, Queued, Idle, Stream
  <2>5. KeyInv'
    BY <1>2, <2>3 DEF PollShell, TypeOK, KeyInv, BacklogInOrder
  <2> QED
    BY <2>1, <2>2, <2>4, <2>5
<1>3. CASE Register
  <2>1. TypeOK'
    BY <1>3 DEF Register, ControlInv, TypeOK, Idle, Stream, Pc
  <2>2. ControlInv'
    BY <1>3 DEF Register, ControlInv, Idle, Stream
  <2>3. BootInv' /\ OnceInv' /\ NoLostWake' /\ WindowInv' /\ CountersAgree'
    BY <1>3 DEF Register, ControlInv, BootInv, OnceInv, NoLostWake, WindowInv,
                CountersAgree, Queued, Idle, Stream
  <2>4. KeyInv'
    BY <1>3 DEF Register, TypeOK, KeyInv, BacklogInOrder
  <2> QED
    BY <2>1, <2>2, <2>3, <2>4
<1>4. CASE TakeWaker
  <2>1. TypeOK'
    BY <1>4 DEF TakeWaker, TypeOK, Idle, Stream, Pc
  <2>2. ControlInv'
    BY <1>4 DEF TakeWaker, ControlInv, Idle, Stream
  <2>3. BootInv' /\ OnceInv' /\ NoLostWake' /\ WindowInv' /\ CountersAgree'
    BY <1>4 DEF TakeWaker, ControlInv, BootInv, OnceInv, NoLostWake, WindowInv,
                CountersAgree, Queued, Idle, Stream
  <2>4. KeyInv'
    BY <1>4 DEF TakeWaker, TypeOK, KeyInv, BacklogInOrder
  <2> QED
    BY <2>1, <2>2, <2>3, <2>4
<1>5. CASE TimerInterrupt
  <2>1. TypeOK'
    BY <1>5 DEF TimerInterrupt, Resume, TypeOK, Idle, Stream, Pc
  <2>2. ControlInv'
    BY <1>5 DEF TimerInterrupt, Resume, ControlInv, Idle, Stream
  <2>3. BootInv' /\ OnceInv' /\ NoLostWake' /\ WindowInv' /\ CountersAgree'
    BY <1>5 DEF TimerInterrupt, Resume, ControlInv, BootInv, OnceInv, NoLostWake, WindowInv,
                CountersAgree, Queued, Idle, Stream
  <2>4. KeyInv'
    BY <1>5 DEF TimerInterrupt, Resume, TypeOK, KeyInv, BacklogInOrder
  <2> QED
    BY <2>1, <2>2, <2>3, <2>4
<1>6. CASE UNCHANGED vars
  <2>1. TypeOK'
    BY <1>6 DEF vars, TypeOK, Idle, Stream, Pc
  <2>2. ControlInv'
    BY <1>6 DEF vars, ControlInv, Idle, Stream
  <2>3. BootInv' /\ OnceInv' /\ NoLostWake' /\ WindowInv' /\ CountersAgree'
    BY <1>6 DEF vars, ControlInv, BootInv, OnceInv, NoLostWake, WindowInv,
                CountersAgree, Queued, Idle, Stream
  <2>4. KeyInv'
    BY <1>6 DEF vars, TypeOK, KeyInv, BacklogInOrder
  <2> QED
    BY <2>1, <2>2, <2>3, <2>4
<1> QED
  BY <1>1, <1>2, <1>3, <1>4, <1>5, <1>6, SpawnIInv, PopReadyIInv, PollOneShotIInv,
     FastPopIInv, SecondPopIInv, HandleKeyIInv, SleepIInv, KeyboardIInv
  DEF Next, Main, Interrupt

\* The inductive invariant holds in every reachable state of the kernel.
LEMMA Invariance == Spec => []IInv
  BY InitIInv, StepIInv, PTL DEF Spec

-----------------------------------------------------------------------------
(* The properties *)

\* Every variable of the executor keeps its type; in particular neither queue
\* ever holds more than its capacity.
THEOREM TypeCorrect == Spec => []TypeOK
  BY Invariance, PTL DEF IInv

\* No wake-up is ever lost between ScancodeStream::poll_next and the keyboard
\* interrupt, whatever the interleaving.
THEOREM NoWakeIsLost == Spec => []NoLostWake
  BY Invariance, PTL DEF IInv

\* The core executes hlt only when there is nothing to do and the next
\* keyboard interrupt will wake the shell.
THEOREM HaltIsSafe == Spec => []HaltsOnlyWhenIdle
<1>1. IInv => HaltsOnlyWhenIdle
  <2> SUFFICES ASSUME IInv, pc = "halted"
               PROVE  ints /\ task_queue = <<>> /\ scan = <<>> /\ key = 0 /\ waker = Shell
    BY DEF HaltsOnlyWhenIdle
  <2>1. ints /\ task_queue = <<>> /\ current = NoTask /\ to_spawn = {}
    BY DEF IInv, ControlInv, Idle
  <2>2. Shell \in tasks /\ current # Shell
    BY <2>1, TasksAssumption DEF IInv, BootInv
  <2>3. ~Queued(Shell)
    BY <2>1 DEF Queued
  <2>4. waker = Shell /\ scan = <<>>
    BY <2>2, <2>3 DEF IInv, NoLostWake
  <2>5. key = 0
    BY DEF IInv, KeyInv
  <2> QED
    BY <2>1, <2>4, <2>5
<1> QED
  BY <1>1, Invariance, PTL

\* Accepted scancodes reach the shell in order, each exactly once.
THEOREM KeysStayInOrder == Spec => []BacklogInOrder
  BY Invariance, PTL DEF IInv, KeyInv

\* No panic of the executor, of spawn or of ScancodeStream::new is reachable.
THEOREM NeverPanics == Spec => []NoPanic
<1>1. IInv => NoPanic
  BY DEF IInv, ControlInv, NoPanic
<1> QED
  BY <1>1, Invariance, PTL

\* The task counters of monitor.rs agree with the executor's task table.
THEOREM CountersCorrect == Spec => []CountersAgree
  BY Invariance, PTL DEF IInv

\* A wake that finds the ready queue full is dropped without harm: the task
\* it is for is queued.
THEOREM DropsAreHarmless == Spec => DroppedWakeIsHarmless
<1>1. IInv /\ [Next]_vars => [dropped_wakes' # dropped_wakes => Queued(waker)]_vars
  <2> SUFFICES ASSUME IInv, Next, dropped_wakes' # dropped_wakes PROVE Queued(waker)
    OBVIOUS
  <2>1. KeyboardInterrupt
    BY DEF Next, Main, Interrupt, Spawn, PopReady, NoneReady, PollOneShot, PollShell,
           try_init_once, FastPop, Register, SecondPop, TakeWaker, HandleKey, DisableInterrupts,
           TestEmpty, EnableAndHlt, EnableInterrupts, TimerInterrupt, monitor
  <2>2. waker # NoTask /\ WakeTask(waker)
    BY <2>1 DEF KeyboardInterrupt, KeyDropped, KeyAccepted, Wake, monitor
  <2>3. Len(task_queue) >= MAX_TASKS
    BY <2>2 DEF WakeTask, monitor
  <2>4. waker = Shell
    BY <2>2 DEF IInv, TypeOK
  <2> QED
    BY <2>3, <2>4, FullHasShell DEF IInv
<1> QED
  BY <1>1, Invariance, PTL DEF Spec, DroppedWakeIsHarmless

\* A handler never frees a waker: the only one it can take is the shell's, and
\* the shell's task, which never ends, keeps a reference.
THEOREM HandlersDoNotFree == Spec => InterruptsNeverFree
<1>1. IInv /\ [Next]_vars =>
        [Interrupt => \A t \in Tasks : Holders(t) # {} => Holders(t)' # {}]_vars
  <2> SUFFICES ASSUME IInv, Interrupt, NEW t \in Tasks, Holders(t) # {}
               PROVE  Holders(t)' # {}
    OBVIOUS
  <2>1. UNCHANGED <<tasks, current>>
    BY DEF Interrupt, KeyboardInterrupt, TimerInterrupt, taskVars
  <2>2. waker = Shell => Shell \in tasks
    BY TasksAssumption DEF IInv, BootInv, ControlInv
  <2>3. waker = t => t \in tasks
    BY <2>2, TasksAssumption DEF IInv, TypeOK
  <2> QED
    BY <2>1, <2>3 DEF Holders
<1> QED
  BY <1>1, Invariance, PTL DEF Spec, InterruptsNeverFree

\* The keyboard path implements the safety part of the abstract key stream:
\* every step accepts one scancode, handles the next one, or changes neither.
THEOREM RefinesKeyStream == Spec => ImplementsKeyStreamSafety
<1> USE DEF KS!ksvars
<1>1. Init => KS!Init
  BY DEF Init, KS!Init
<1>2. IInv /\ [Next]_vars => [KS!Next]_<<accepted, handled>>
  <2> SUFFICES ASSUME IInv, [Next]_vars PROVE [KS!Next]_<<accepted, handled>>
    OBVIOUS
  <2>1. CASE HandleKey
    <3>1. handled' = handled + 1 /\ UNCHANGED accepted
      BY <2>1 DEF HandleKey, IInv, KeyInv, BacklogInOrder, keyVars
    <3>2. handled < accepted
      BY <2>1, LenProperties DEF HandleKey, IInv, KeyInv, BacklogInOrder, TypeOK
    <3> QED
      BY <3>1, <3>2 DEF KS!Next, KS!Handle
  <2>2. CASE KeyboardInterrupt
    <3>1. UNCHANGED handled
      BY <2>2 DEF KeyboardInterrupt, streamVars
    <3>2. CASE KeyDropped
      BY <3>1, <3>2 DEF KeyDropped
    <3>3. CASE KeyAccepted
      <4>1. accepted' = accepted + 1
        BY <3>3 DEF KeyAccepted
      <4>2. accepted < MaxKeys
        BY <2>2, QueueAssumption DEF KeyboardInterrupt, IInv, KeyInv, TypeOK
      <4>3. accepted - handled <= MAX_SCANCODES
        BY <3>3, LenProperties, QueueAssumption
        DEF KeyAccepted, IInv, KeyInv, BacklogInOrder, TypeOK
      <4> QED
        BY <3>1, <4>1, <4>2, <4>3 DEF KS!Next, KS!Accept
    <3> QED
      BY <2>2, <3>2, <3>3 DEF KeyboardInterrupt
  <2>3. CASE ~HandleKey /\ ~KeyboardInterrupt
    BY <2>3 DEF Next, Main, Interrupt, Spawn, PopReady, NoneReady, PollOneShot, PollShell,
           try_init_once, FastPop, Register, SecondPop, TakeWaker, DisableInterrupts,
           TestEmpty, EnableAndHlt, EnableInterrupts, TimerInterrupt, vars, streamVars, keyVars
  <2> QED
    BY <2>1, <2>2, <2>3
<1> QED
  BY <1>1, <1>2, Invariance, PTL DEF Spec, ImplementsKeyStreamSafety, KS!Safety
=============================================================================
