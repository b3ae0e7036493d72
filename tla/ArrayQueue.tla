------------------------------ MODULE ArrayQueue ------------------------------
(***************************************************************************)
(* The ring buffer of array_queue.rs, one memory access per step, used by  *)
(* the main thread (push from Executor::spawn, pop, is_empty) and by an    *)
(* interrupt handler (push from add_scancode and wake_task).  The core is  *)
(* single: the handler starts only while interrupts are enabled, masks     *)
(* them for its duration, and the main thread stands still meanwhile.      *)
(***************************************************************************)
EXTENDS Naturals, Sequences

CONSTANTS Cap,     \* buffer.len()
          Modulus, \* 2^64 in the kernel: usize counters wrap here
          Values,  \* what is queued
          Uninit   \* a slot never written

ASSUME SizeAssumption ==
  /\ Cap \in Nat \ {0}
  /\ Modulus \in Nat
  /\ 2 * Cap < Modulus
  /\ Uninit \notin Values

Contexts == {"main", "isr"}
NoAnswer == <<"none">>

VARIABLES
  head, tail, \* the atomic indices
  buffer,     \* the slots
  ints,       \* RFLAGS.IF
  pc,         \* where each context is
  op,         \* the operation of each context
  arg,        \* the value being pushed
  loaded,     \* the index read first
  saved,      \* IF as without_interrupts found it
  res         \* the answer of the operation

vars == <<head, tail, buffer, ints, pc, op, arg, loaded, saved, res>>

Init ==
  /\ head = 0
  /\ tail = 0
  /\ buffer = [i \in 0..Cap - 1 |-> Uninit]
  /\ ints = TRUE
  /\ pc = [c \in Contexts |-> "idle"]
  /\ op = [c \in Contexts |-> "push"]
  /\ arg \in [Contexts -> Values]
  /\ loaded = [c \in Contexts |-> 0]
  /\ saved = [c \in Contexts |-> TRUE]
  /\ res = [c \in Contexts |-> NoAnswer]

\* The main thread runs only while no handler does.
Runs(c) == c = "main" => pc["isr"] = "idle"

At(c, here) == pc[c] = here /\ Runs(c)
Goto(c, there) == pc' = [pc EXCEPT ![c] = there]
Answer(c, r) == res' = [res EXCEPT ![c] = r]

\* 2^64 pushes do not happen in one life of the kernel, and 100 does not divide
\* 2^64: a push starts only while the counters are not about to wrap, unless
\* the capacity divides the modulus, where wrapping does no harm.
CounterRoom == Modulus % Cap = 0 \/ tail + 2 < Modulus
-----------------------------------------------------------------------------
Call(c, o, v) ==
  /\ At(c, "idle")
  /\ op' = [op EXCEPT ![c] = o]
  /\ arg' = [arg EXCEPT ![c] = v]
  /\ Goto(c, IF o = "is_empty" THEN "load" ELSE "cli")
  /\ Answer(c, NoAnswer)
  /\ UNCHANGED <<head, tail, buffer, loaded, saved>>

\* Executor::spawn, run_ready_tasks and poll_next call with interrupts on.
MainPush(v) == ints /\ CounterRoom /\ Call("main", "push", v) /\ UNCHANGED ints
MainPop == ints /\ Call("main", "pop", arg["main"]) /\ UNCHANGED ints

\* sleep_if_idle: cli, is_empty, sti (alone or with hlt).
MainDisable ==
  /\ At("main", "idle")
  /\ ints
  /\ ints' = FALSE
  /\ Answer("main", NoAnswer)
  /\ UNCHANGED <<head, tail, buffer, pc, op, arg, loaded, saved>>

MainIsEmpty == ~ints /\ Call("main", "is_empty", arg["main"]) /\ UNCHANGED ints

MainEnable ==
  /\ At("main", "idle")
  /\ res["main"] \in {<<"empty">>, <<"not empty">>}
  /\ ints' = TRUE
  /\ Answer("main", NoAnswer)
  /\ UNCHANGED <<head, tail, buffer, pc, op, arg, loaded, saved>>

\* An interrupt is taken: the gate clears IF, the handler pushes.
IsrPush(v) ==
  /\ ints
  /\ CounterRoom
  /\ Call("isr", "push", v)
  /\ ints' = FALSE
-----------------------------------------------------------------------------
(* push and pop *)

\* Mutant: the closure runs without masking interrupts.
WithoutInterruptsMissing(c) ==
  /\ At(c, "cli")
  /\ saved' = [saved EXCEPT ![c] = ints]
  /\ Goto(c, "load")
  /\ UNCHANGED <<head, tail, buffer, ints, op, arg, loaded, res>>

\* without_interrupts: remember IF, then cli.
WithoutInterrupts(c) ==
  /\ At(c, "cli")
  /\ saved' = [saved EXCEPT ![c] = ints]
  /\ ints' = FALSE
  /\ Goto(c, "load")
  /\ UNCHANGED <<head, tail, buffer, op, arg, loaded, res>>

\* The first load: tail for push, head for pop and is_empty.
Load(c) ==
  /\ At(c, "load")
  /\ loaded' = [loaded EXCEPT ![c] = IF op[c] = "push" THEN tail ELSE head]
  /\ Goto(c, "check")
  /\ UNCHANGED <<head, tail, buffer, ints, op, arg, saved, res>>

NextIndex(i) == (i + 1) % Modulus

PushCheck(c) ==
  /\ At(c, "check")
  /\ op[c] = "push"
  /\ IF (NextIndex(loaded[c]) + Modulus - head) % Modulus > Cap
       THEN Answer(c, <<"rejected", arg[c]>>) /\ Goto(c, "restore")
       ELSE Goto(c, "access") /\ UNCHANGED res
  /\ UNCHANGED <<head, tail, buffer, ints, op, arg, loaded, saved>>

PushWrite(c) ==
  /\ At(c, "access")
  /\ op[c] = "push"
  /\ buffer' = [buffer EXCEPT ![loaded[c] % Cap] = arg[c]]
  /\ Goto(c, "store")
  /\ UNCHANGED <<head, tail, ints, op, arg, loaded, saved, res>>

PushStore(c) ==
  /\ At(c, "store")
  /\ op[c] = "push"
  /\ tail' = NextIndex(loaded[c])
  /\ Answer(c, <<"pushed", arg[c]>>)
  /\ Goto(c, "restore")
  /\ UNCHANGED <<head, buffer, ints, op, arg, loaded, saved>>

\* Mutant: pop does not test for emptiness.
PopCheckMissing(c) ==
  /\ At(c, "check")
  /\ op[c] = "pop"
  /\ Goto(c, "access")
  /\ UNCHANGED <<head, tail, buffer, ints, op, arg, loaded, saved, res>>

PopCheck(c) ==
  /\ At(c, "check")
  /\ op[c] = "pop"
  /\ IF loaded[c] = tail
       THEN Answer(c, <<"nothing">>) /\ Goto(c, "restore")
       ELSE Goto(c, "access") /\ UNCHANGED res
  /\ UNCHANGED <<head, tail, buffer, ints, op, arg, loaded, saved>>

PopRead(c) ==
  /\ At(c, "access")
  /\ op[c] = "pop"
  /\ arg' = [arg EXCEPT ![c] = buffer[loaded[c] % Cap]]
  /\ Goto(c, "store")
  /\ UNCHANGED <<head, tail, buffer, ints, op, loaded, saved, res>>

PopStore(c) ==
  /\ At(c, "store")
  /\ op[c] = "pop"
  /\ head' = NextIndex(loaded[c])
  /\ Answer(c, <<"popped", arg[c]>>)
  /\ Goto(c, "restore")
  /\ UNCHANGED <<tail, buffer, ints, op, arg, loaded, saved>>

\* is_empty masks nothing: its second load compares with the first.
IsEmptyCheck(c) ==
  /\ At(c, "check")
  /\ op[c] = "is_empty"
  /\ Answer(c, IF loaded[c] = tail THEN <<"empty">> ELSE <<"not empty">>)
  /\ Goto(c, "idle")
  /\ UNCHANGED <<head, tail, buffer, ints, op, arg, loaded, saved>>

\* Mutant: IF is set, not restored.
RestoreEnables(c) ==
  /\ At(c, "restore")
  /\ ints' = TRUE
  /\ Goto(c, IF c = "isr" THEN "iret" ELSE "idle")
  /\ UNCHANGED <<head, tail, buffer, op, arg, loaded, saved, res>>

\* without_interrupts restores IF; the handler still has to return.
Restore(c) ==
  /\ At(c, "restore")
  /\ ints' = saved[c]
  /\ Goto(c, IF c = "isr" THEN "iret" ELSE "idle")
  /\ UNCHANGED <<head, tail, buffer, op, arg, loaded, saved, res>>

\* The handler returns to code that had interrupts enabled.
Iret ==
  /\ pc["isr"] = "iret"
  /\ ints' = TRUE
  /\ Goto("isr", "idle")
  /\ UNCHANGED <<head, tail, buffer, op, arg, loaded, saved, res>>

Step(c) ==
  \/ WithoutInterrupts(c) \/ Load(c) \/ Restore(c)
  \/ PushCheck(c) \/ PushWrite(c) \/ PushStore(c)

MainStep ==
  \/ PopCheck("main") \/ PopRead("main") \/ PopStore("main") \/ IsEmptyCheck("main")

Next ==
  \/ \E v \in Values : MainPush(v) \/ IsrPush(v)
  \/ MainPop \/ MainDisable \/ MainIsEmpty \/ MainEnable
  \/ \E c \in Contexts : Step(c)
  \/ MainStep
  \/ Iret

Spec == Init /\ [][Next]_vars
-----------------------------------------------------------------------------
(* Properties *)

\* The elements in the queue, oldest first.
Contents ==
  [i \in 1..(tail + Modulus - head) % Modulus |-> buffer[((head + i - 1) % Modulus) % Cap]]

\* A handler is never itself interrupted: the without_interrupts inside its
\* push puts IF back to what the interrupt gate made it.  So neither context ever
\* pops a slot that was not written.
HandlerUninterrupted ==
  /\ pc["isr"] # "idle" => ~ints
  /\ \A c \in Contexts : arg[c] \in Values

\* push, pop and is_empty behave as the atomic operations of a bounded FIFO,
\* whichever context interrupts which.
Fifo == INSTANCE BoundedFifo WITH q <- Contents, Capacity <- Cap
ImplementsFifo == Fifo!Spec
=============================================================================
