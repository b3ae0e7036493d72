---------------------------- MODULE SpinLocksProofs ----------------------------
(***************************************************************************)
(* For every number of polls and of frames walked: until something fails   *)
(* no context ever finds a lock taken, and contexts never stack up more    *)
(* than three deep.                                                        *)
(*                                                                         *)
(* The argument is a typing of code.  A typing state says what a context   *)
(* holds and how deep it is inside without_interrupts; Takes(t, a, b) says *)
(* that the code t may run from state a to state b without breaking the    *)
(* rules of Legal, and is compositional.  The invariant says that what is  *)
(* left to do of every context that will still run is typed in this way.   *)
(***************************************************************************)
EXTENDS SpinLocks, NaturalsInduction, WellFoundedInduction, TLAPS

-----------------------------------------------------------------------------
(* Induction *)

\* Every set of naturals has a least element.
LEMMA LeastElement ==
  ASSUME NEW T, T \subseteq Nat, T # {}
  PROVE  \E x \in T : \A y \in T : x <= y
<1> DEFINE R == {ss \in Nat \X Nat : ss[1] < ss[2]}
<1>1. IsWellFoundedOn(R, Nat)
  BY NatLessThanWellFounded, Zenon DEF OpToRel
<1>2. \A x, y \in Nat : y < x => <<y, x>> \in R
  OBVIOUS
<1> HIDE DEF R
<1>3. PICK x \in T : \A y \in T : ~(<<y, x>> \in R)
  BY <1>1, WFMin, Zenon
<1>4. ASSUME NEW y \in T PROVE x <= y
  <2>1. x \in Nat /\ y \in Nat /\ ~(<<y, x>> \in R)
    BY <1>3
  <2>2. ~(y < x)
    BY <1>2, <2>1
  <2>3. QED
    BY <2>1, <2>2
<1>5. QED
  BY <1>4, Zenon

\* Induction, on the set of the numbers for which a claim holds.
LEMMA Induction ==
  ASSUME NEW S, 0 \in S, \A n \in Nat : n \in S => n + 1 \in S
  PROVE  \A n \in Nat : n \in S
<1> DEFINE T == Nat \ S
<1>1. SUFFICES ASSUME T # {} PROVE FALSE
  OBVIOUS
<1>2. PICK x \in T : \A y \in T : x <= y
  <2>1. T \subseteq Nat
    OBVIOUS
  <2> HIDE DEF T
  <2>2. QED
    BY <1>1, <2>1, LeastElement, Zenon
<1>3. x # 0
  OBVIOUS
<1>4. x - 1 \in Nat
  BY <1>3
<1>5. x - 1 \in S
  BY <1>2, <1>4
<1>6. QED
  BY <1>4, <1>5
-----------------------------------------------------------------------------
(* Typing states *)

Who == {"main", "isr", "panic"}

\* The locks that interrupt handlers take.
HandlerLocks == {"SERIAL1", "FRAMEBUFFER", "PICS", "APIC"}

\* Interrupts are enabled: outside of without_interrupts, and enabled there.
On(a) == a.depth = 0 /\ a.base = "on"

\* A lock of the handlers is only held with interrupts off, and handlers hold
\* no other.
States ==
  {a \in [who : Who, depth : Nat, base : {"on", "off"}, held : SUBSET Locks] :
     /\ On(a) => a.held \cap HandlerLocks = {}
     /\ a.who = "isr" => a.held \subseteq HandlerLocks}

Ops ==
  {"lock", "unlock", "cli", "restore", "sti", "activate", "heap", "iret",
   "reason", "all", "panic", "fault"}
Operations ==
  [op : Ops, lock : Locks \cup {"none"}]
    \cup [op : {"send"}, lock : {"none"}, tries : Nat]

\* op takes a context from a to b within the rules.
Legal(op, a, b) ==
  /\ b.who = a.who
  /\ a.depth = 0 /\ op.op = "restore" => FALSE
  /\ b.depth = IF op.op = "cli" THEN a.depth + 1
               ELSE IF op.op = "restore" THEN a.depth - 1 ELSE a.depth
  /\ b.base = IF op.op = "sti" THEN "on" ELSE a.base
  /\ op.op = "sti" => a.who = "main" /\ a.depth = 0
  /\ b.held = IF op.op = "lock" THEN a.held \cup {op.lock}
              ELSE IF op.op = "unlock" THEN a.held \ {op.lock} ELSE a.held
  /\ op.op = "lock" => op.lock \notin a.held
  /\ op.op = "unlock" => op.lock \in a.held
  /\ op.op = "iret" => a.who = "isr" /\ a.held = {} /\ a.depth = 0
  /\ op.op \in {"panic", "fault"} => a.who = "panic"

Takes(t, a, b) ==
  /\ t \in Seq(Operations)
  /\ \E p \in [1..Len(t) + 1 -> States] :
       /\ p[1] = a
       /\ p[Len(t) + 1] = b
       /\ \A i \in 1..Len(t) : Legal(t[i], p[i], p[i + 1])

\* Nothing to do.
LEMMA TakesNothing ==
  ASSUME NEW a \in States
  PROVE  Takes(<<>>, a, a)
<1> DEFINE p == [i \in 1..1 |-> a]
<1>1. p \in [1..0 + 1 -> States] /\ p[1] = a /\ p[0 + 1] = a
  OBVIOUS
<1>2. <<>> \in Seq(Operations) /\ Len(<<>>) = 0 /\ 1..0 = {}
  OBVIOUS
<1> HIDE DEF p
<1>3. QED
  BY <1>1, <1>2 DEF Takes

\* Code that is done has reached its last state.
LEMMA TakesDone ==
  ASSUME NEW a, NEW b, Takes(<<>>, a, b)
  PROVE  a = b
BY DEF Takes

\* One operation.
LEMMA TakesOne ==
  ASSUME NEW op \in Operations, NEW a \in States, NEW b \in States, Legal(op, a, b)
  PROVE  Takes(<<op>>, a, b)
<1> DEFINE p == [i \in 1..2 |-> IF i = 1 THEN a ELSE b]
<1>1. p \in [1..2 -> States] /\ p[1] = a /\ p[2] = b
  OBVIOUS
<1>2. <<op>> \in Seq(Operations) /\ Len(<<op>>) = 1 /\ <<op>>[1] = op
  OBVIOUS
<1> HIDE DEF p
<1>3. \A i \in 1..1 : Legal(<<op>>[i], p[i], p[i + 1])
  BY <1>1, <1>2
<1>4. QED
  BY <1>1, <1>2, <1>3 DEF Takes

\* One piece of code after another.
LEMMA TakesBoth ==
  ASSUME NEW s, NEW t, NEW a, NEW b, NEW c, Takes(s, a, b), Takes(t, b, c)
  PROVE  Takes(s \o t, a, c)
<1>1. PICK p \in [1..Len(s) + 1 -> States] :
        p[1] = a /\ p[Len(s) + 1] = b /\ \A i \in 1..Len(s) : Legal(s[i], p[i], p[i + 1])
  BY DEF Takes
<1>2. PICK q \in [1..Len(t) + 1 -> States] :
        q[1] = b /\ q[Len(t) + 1] = c /\ \A i \in 1..Len(t) : Legal(t[i], q[i], q[i + 1])
  BY Zenon DEF Takes
<1> DEFINE n == Len(s)
           m == Len(t)
           r == [i \in 1..n + m + 1 |-> IF i <= n THEN p[i] ELSE q[i - n]]
<1>3. s \in Seq(Operations) /\ t \in Seq(Operations) /\ n \in Nat /\ m \in Nat
  BY DEF Takes
<1>4. s \o t \in Seq(Operations) /\ Len(s \o t) = n + m
  BY <1>3
<1>5. r \in [1..n + m + 1 -> States]
  <2>1. ASSUME NEW i \in 1..n + m + 1 PROVE r[i] \in States
    <3>1. CASE i <= n
      BY <1>3, <3>1
    <3>2. CASE i > n
      <4>1. i - n \in 1..m + 1
        BY <1>3, <3>2
      <4>2. QED
        BY <1>3, <3>2, <4>1
    <3>3. QED
      BY <1>3, <3>1, <3>2
  <2>2. QED
    BY <2>1
<1>6. r[1] = a
  BY <1>1, <1>2, <1>3
<1>7. r[n + m + 1] = c
  BY <1>1, <1>2, <1>3
<1>8. ASSUME NEW i \in 1..n + m PROVE Legal((s \o t)[i], r[i], r[i + 1])
  <2>1. CASE i <= n
    <3>1. (s \o t)[i] = s[i] /\ r[i] = p[i] /\ i \in 1..n
      BY <1>3, <2>1
    <3>2. r[i + 1] = p[i + 1]
      BY <1>1, <1>2, <1>3, <2>1
    <3>3. QED
      BY <1>1, <3>1, <3>2
  <2>2. CASE i > n
    <3>1. i - n \in 1..m /\ i + 1 - n = (i - n) + 1
      BY <1>3, <2>2
    <3>2. (s \o t)[i] = t[i - n]
      BY <1>3, <2>2
    <3>3. r[i] = q[i - n] /\ r[i + 1] = q[(i - n) + 1]
      BY <1>3, <2>2, <3>1
    <3>4. QED
      BY <1>2, <3>1, <3>2, <3>3
  <2>3. QED
    BY <1>3, <2>1, <2>2
<1> HIDE DEF r
<1>9. QED
  BY <1>4, <1>5, <1>6, <1>7, <1>8, Zenon DEF Takes

\* The first operation, and what is left.
LEMMA TakesHead ==
  ASSUME NEW t, NEW a, NEW b, Takes(t, a, b), t # <<>>
  PROVE  /\ a \in States
         /\ Head(t) \in Operations
         /\ Tail(t) \in Seq(Operations)
         /\ \E c \in States : Legal(Head(t), a, c) /\ Takes(Tail(t), c, b)
<1>1. PICK p \in [1..Len(t) + 1 -> States] :
        p[1] = a /\ p[Len(t) + 1] = b /\ \A i \in 1..Len(t) : Legal(t[i], p[i], p[i + 1])
  BY DEF Takes
<1> DEFINE n == Len(t)
           q == [i \in 1..n |-> p[i + 1]]
<1>2. t \in Seq(Operations) /\ n \in Nat /\ n > 0
  BY DEF Takes
<1>3. Tail(t) \in Seq(Operations) /\ Len(Tail(t)) = n - 1 /\ Head(t) = t[1] /\ t[1] \in Operations
  BY <1>2
<1>4. ASSUME NEW i \in 1..n - 1 PROVE Legal(Tail(t)[i], q[i], q[i + 1])
  <2>1. Tail(t)[i] = t[i + 1] /\ i + 1 \in 1..n
    BY <1>2, <1>3
  <2>2. q[i] = p[i + 1] /\ q[i + 1] = p[(i + 1) + 1]
    BY <1>2, <2>1
  <2>3. QED
    BY <1>1, <2>1, <2>2
<1>5. q \in [1..(n - 1) + 1 -> States] /\ q[1] = p[2] /\ q[(n - 1) + 1] = b
  BY <1>1, <1>2
<1>6. p[2] \in States /\ a \in States /\ Legal(t[1], a, p[2])
  BY <1>1, <1>2
<1> HIDE DEF q
<1>7. Takes(Tail(t), p[2], b)
  BY <1>3, <1>4, <1>5, Zenon DEF Takes
<1>8. QED
  BY <1>3, <1>6, <1>7
-----------------------------------------------------------------------------
(* Typed code *)

\* In a context of one of the kinds ws that holds none of the locks ls, and has
\* interrupts off, the code does its work and leaves everything as it was.
Guarded(code, ws, ls) ==
  \A a \in States : a.who \in ws /\ a.held \cap ls = {} /\ ~On(a) => Takes(code, a, a)

\* The same with interrupts as they are.
Neutral(code, ws, ls) ==
  \A a \in States : a.who \in ws /\ a.held \cap ls = {} => Takes(code, a, a)

\* Code that needs no masking runs masked, in fewer contexts, with more locks free.
LEMMA NeutralWeaker ==
  ASSUME NEW code, NEW ws, NEW ls, Neutral(code, ws, ls),
         NEW vs \in SUBSET ws, NEW ms, ls \subseteq ms
  PROVE  Neutral(code, vs, ms) /\ Guarded(code, vs, ms)
BY Zenon DEF Neutral, Guarded

LEMMA GuardedWeaker ==
  ASSUME NEW code, NEW ws, NEW ls, Guarded(code, ws, ls),
         NEW vs \in SUBSET ws, NEW ms, ls \subseteq ms
  PROVE  Guarded(code, vs, ms)
BY Zenon DEF Guarded

LEMMA NeutralNothing ==
  ASSUME NEW ws, NEW ls
  PROVE  Neutral(<<>>, ws, ls) /\ Guarded(<<>>, ws, ls)
BY TakesNothing, Zenon DEF Neutral, Guarded

LEMMA NeutralBoth ==
  ASSUME NEW s, NEW t, NEW ws, NEW ls, Neutral(s, ws, ls), Neutral(t, ws, ls)
  PROVE  Neutral(s \o t, ws, ls)
BY TakesBoth, Zenon DEF Neutral

LEMMA GuardedBoth ==
  ASSUME NEW s, NEW t, NEW ws, NEW ls, Guarded(s, ws, ls), Guarded(t, ws, ls)
  PROVE  Guarded(s \o t, ws, ls)
BY TakesBoth, Zenon DEF Guarded

\* An operation that no rule is about.
LEMMA NeutralPlain ==
  ASSUME NEW op \in Ops, NEW ws, NEW ls,
         op \notin {"cli", "restore", "sti", "lock", "unlock", "iret"},
         op \in {"panic", "fault"} => ws \subseteq {"panic"}
  PROVE  Neutral(Do(op), ws, ls)
<1> DEFINE o == [op |-> op, lock |-> "none"]
<1>1. o \in Operations /\ o.op = op
  BY DEF Operations
<1>2. ASSUME NEW a \in States, a.who \in ws PROVE Legal(o, a, a)
  <2> HIDE DEF o
  <2>1. QED
    BY <1>1, <1>2 DEF Legal
<1>3. Do(op) = <<o>>
  BY DEF Do
<1> HIDE DEF o
<1>4. QED
  BY <1>1, <1>2, <1>3, TakesOne, Zenon DEF Neutral

\* send, whatever polls are left.
LEMMA NeutralSend ==
  ASSUME NEW n \in Nat, NEW ws, NEW ls
  PROVE  /\ [op |-> "send", lock |-> "none", tries |-> n] \in Operations
         /\ Neutral(<<[op |-> "send", lock |-> "none", tries |-> n]>>, ws, ls)
<1> DEFINE o == [op |-> "send", lock |-> "none", tries |-> n]
<1>1. o \in Operations /\ o.op = "send"
  BY DEF Operations, Ops
<1> HIDE DEF o
<1>2. ASSUME NEW a \in States PROVE Legal(o, a, a)
  BY <1>1 DEF Legal
<1>3. Neutral(<<o>>, ws, ls)
  BY <1>1, <1>2, TakesOne, Zenon DEF Neutral
<1>4. QED
  BY <1>1, <1>3 DEF o

\* Interrupts are off inside without_interrupts.
LEMMA NeutralMasked ==
  ASSUME NEW body, NEW ws, NEW ls, Guarded(body, ws, ls)
  PROVE  Neutral(without_interrupts(body), ws, ls)
<1> SUFFICES ASSUME NEW a \in States, a.who \in ws, a.held \cap ls = {}
             PROVE  Takes(without_interrupts(body), a, a)
  BY DEF Neutral
<1> DEFINE b == [a EXCEPT !.depth = a.depth + 1]
           cli == [op |-> "cli", lock |-> "none"]
           restore == [op |-> "restore", lock |-> "none"]
<1>1. b \in States /\ ~On(b) /\ b.who = a.who /\ b.held = a.held
  BY DEF States, On
<1>2. cli \in Operations /\ restore \in Operations
  BY DEF Operations, Ops
<1>3. Legal(cli, a, b) /\ Legal(restore, b, a)
  BY DEF Legal, States
<1>4. without_interrupts(body) = (<<cli>> \o body) \o <<restore>>
  BY DEF without_interrupts, Do
<1> HIDE DEF b, cli, restore
<1>5. Takes(<<cli>>, a, b) /\ Takes(body, b, b) /\ Takes(<<restore>>, b, a)
  BY <1>1, <1>2, <1>3, TakesOne DEF Guarded
<1>6. QED
  BY <1>4, <1>5, TakesBoth, Zenon

\* Code under a lock.
LEMMA TakesWith ==
  ASSUME NEW lock \in Locks, NEW body, NEW a \in States, NEW b \in States,
         b = [a EXCEPT !.held = a.held \cup {lock}], lock \notin a.held, Takes(body, b, b)
  PROVE  Takes(With(lock, body), a, a)
<1> DEFINE l == [op |-> "lock", lock |-> lock]
           u == [op |-> "unlock", lock |-> lock]
<1>1. l \in Operations /\ u \in Operations
  BY DEF Operations, Ops
<1>2. Legal(l, a, b) /\ Legal(u, b, a)
  BY DEF Legal, States
<1>3. With(lock, body) = (<<l>> \o body) \o <<u>>
  BY DEF With
<1> HIDE DEF l, u
<1>4. Takes(<<l>>, a, b) /\ Takes(<<u>>, b, a)
  BY <1>1, <1>2, TakesOne
<1>5. QED
  BY <1>3, <1>4, TakesBoth, Zenon

\* A lock that handlers never take may be held with interrupts on.
LEMMA NeutralWith ==
  ASSUME NEW lock \in Locks \ HandlerLocks, NEW body, NEW ws, "isr" \notin ws, NEW ls,
         lock \notin ls, Neutral(body, ws, ls)
  PROVE  Neutral(With(lock, body), ws, ls \cup {lock})
<1> SUFFICES ASSUME NEW a \in States, a.who \in ws, a.held \cap (ls \cup {lock}) = {}
             PROVE  Takes(With(lock, body), a, a)
  BY DEF Neutral
<1> DEFINE b == [a EXCEPT !.held = a.held \cup {lock}]
<1>1. b \in States /\ b.who = a.who /\ b.held = a.held \cup {lock}
  BY DEF States, On
<1>2. Takes(body, b, b)
  BY <1>1, Zenon DEF Neutral
<1>3. lock \notin a.held /\ lock \in Locks
  OBVIOUS
<1>4. QED
  BY <1>1, <1>2, <1>3, TakesWith

\* A lock that handlers take is held with interrupts off.
LEMMA GuardedWith ==
  ASSUME NEW lock \in Locks, NEW body, NEW ws, NEW ls,
         lock \in HandlerLocks \/ "isr" \notin ws, lock \notin ls, Guarded(body, ws, ls)
  PROVE  Guarded(With(lock, body), ws, ls \cup {lock})
<1> SUFFICES ASSUME NEW a \in States, a.who \in ws, a.held \cap (ls \cup {lock}) = {}, ~On(a)
             PROVE  Takes(With(lock, body), a, a)
  BY DEF Guarded
<1> DEFINE b == [a EXCEPT !.held = a.held \cup {lock}]
<1>1. b \in States /\ b.who = a.who /\ b.held = a.held \cup {lock} /\ ~On(b)
  BY DEF States, On
<1>2. Takes(body, b, b)
  BY <1>1, Zenon DEF Guarded
<1>3. lock \notin a.held
  OBVIOUS
<1>4. QED
  BY <1>1, <1>2, <1>3, TakesWith
-----------------------------------------------------------------------------
(* The code of the kernel is typed *)

Console == {"SERIAL1", "FRAMEBUFFER"}

\* Printing, logging, recording and queueing, in every context.
LEMMA ConsoleTyped ==
  ASSUME NEW ws \in SUBSET Who, NEW ls, Console \subseteq ls
  PROVE  /\ Neutral(serial_print, ws, ls) /\ Neutral(framebuffer_print, ws, ls)
         /\ Neutral(with_framebuffer_mut, ws, ls) /\ Neutral(println, ws, ls)
         /\ Neutral(log, ws, ls) /\ Neutral(dump_last, ws, ls)
         /\ Neutral(record, ws, ls) /\ Neutral(push, ws, ls)
<1>1. RETRIES \in Nat
  BY LimitAssumption
<1>2. Guarded(write_str, Who, {})
  BY <1>1, NeutralSend, NeutralWeaker DEF write_str
<1>3. Guarded(With("SERIAL1", write_str), Who, {} \cup {"SERIAL1"})
  BY <1>2, GuardedWith DEF Locks, HandlerLocks
<1>4. Guarded(With("FRAMEBUFFER", <<>>), Who, {} \cup {"FRAMEBUFFER"})
  BY NeutralNothing, GuardedWith, Zenon DEF Locks, HandlerLocks
<1>5. {} \cup {"SERIAL1"} \subseteq ls /\ {} \cup {"FRAMEBUFFER"} \subseteq ls
  BY DEF Console
<1>6. Guarded(With("SERIAL1", write_str), ws, ls) /\ Guarded(With("FRAMEBUFFER", <<>>), ws, ls)
  BY <1>3, <1>4, <1>5, GuardedWeaker
<1>7. Neutral(serial_print, ws, ls)
  BY <1>6, NeutralMasked DEF serial_print
<1>8. Neutral(framebuffer_print, ws, ls) /\ Neutral(with_framebuffer_mut, ws, ls)
  BY <1>6, NeutralMasked DEF framebuffer_print, with_framebuffer_mut
<1>9. Neutral(println, ws, ls) /\ Neutral(log, ws, ls)
  BY <1>7, <1>8, NeutralBoth DEF println, log
<1>10. Guarded(log \o log, ws, ls)
  BY <1>9, NeutralBoth, NeutralWeaker, Zenon
<1>11. Neutral(dump_last, ws, ls) /\ Neutral(record, ws, ls) /\ Neutral(push, ws, ls)
  BY <1>10, NeutralNothing, NeutralMasked DEF dump_last, record, push
<1>12. QED
  BY <1>7, <1>8, <1>9, <1>11

Tasks == {"main", "panic"}

\* The heap, in tasks and in the panic handler.
LEMMA HeapTyped ==
  ASSUME NEW ws \in SUBSET Tasks, NEW ls, Console \cup {"HEAP"} \subseteq ls
  PROVE  /\ Neutral(With("HEAP", <<>>), ws, ls)
         /\ Neutral(alloc, ws, ls) /\ Neutral(dealloc, ws, ls)
<1>1. ws \in SUBSET Who /\ "isr" \notin ws /\ Console \subseteq ls
  BY DEF Tasks, Who
<1>2. "HEAP" \in Locks \ HandlerLocks /\ "HEAP" \notin Console
  BY DEF Locks, HandlerLocks, Console
<1>3. Console \cup {"HEAP"} \subseteq ls /\ ws \in SUBSET ws
  OBVIOUS
<1>4. Neutral(record, ws, Console) /\ Neutral(record, ws, ls)
  BY <1>1, ConsoleTyped
<1>5. Neutral(alloc, ws, Console \cup {"HEAP"})
  BY <1>1, <1>2, <1>4, NeutralWith DEF alloc
<1>6. Neutral(With("HEAP", <<>>), ws, Console \cup {"HEAP"})
  BY <1>1, <1>2, NeutralNothing, NeutralWith
<1>7. Neutral(alloc, ws, ls) /\ Neutral(With("HEAP", <<>>), ws, ls)
  BY <1>3, <1>5, <1>6, NeutralWeaker
<1>8. QED
  BY <1>4, <1>7, NeutralBoth DEF dealloc

\* What the shell does.
LEMMA CommandsTyped ==
  ASSUME NEW code \in Commands
  PROVE  Neutral(code, {"main"}, Locks)
<1> DEFINE ws == {"main"}
           ls == Locks \ {"FS"}
<1>1. ws \in SUBSET Who /\ ws \in SUBSET Tasks /\ "isr" \notin ws
  BY DEF Who, Tasks
<1>2. Console \cup {"HEAP"} \subseteq ls /\ Console \subseteq ls /\ Console \subseteq Locks
      /\ Console \cup {"HEAP"} \subseteq Locks /\ "FS" \notin ls
      /\ "FS" \in Locks \ HandlerLocks /\ Locks = ls \cup {"FS"}
  BY DEF Console, Locks, HandlerLocks
<1> HIDE DEF ws, ls
<1>3. Neutral(alloc, ws, ls) /\ Neutral(println, ws, ls) /\ Neutral(dealloc, ws, ls)
  BY <1>1, <1>2, ConsoleTyped, HeapTyped
<1>4. Neutral((alloc \o println) \o dealloc, ws, ls)
  BY <1>3, NeutralBoth, Zenon
<1>5. Neutral(cmd_ls, ws, Locks)
  BY <1>1, <1>2, <1>4, NeutralWith DEF cmd_ls
<1>6. Neutral(alloc, ws, Locks) /\ Neutral(println, ws, Locks) /\ Neutral(dealloc, ws, Locks)
      /\ Neutral(dump_last, ws, Locks) /\ Neutral(with_framebuffer_mut, ws, Locks)
  BY <1>1, <1>2, ConsoleTyped, HeapTyped
<1>7. Neutral(cmd_trace, ws, Locks) /\ Neutral(cmd_alloc, ws, Locks) /\ Neutral(cmd_clear, ws, Locks)
  BY <1>6, NeutralBoth, Zenon DEF cmd_trace, cmd_alloc, cmd_clear
<1>8. Neutral(code, ws, Locks)
  BY <1>5, <1>6, <1>7 DEF Commands
<1>9. QED
  BY <1>8 DEF ws

\* A context as it begins.
Fresh(who, base) == [who |-> who, depth |-> 0, base |-> base, held |-> {}]

LEMMA FreshState ==
  ASSUME NEW who \in Who, NEW base \in {"on", "off"}
  PROVE  /\ Fresh(who, base) \in States
         /\ Fresh(who, base).who = who /\ Fresh(who, base).held = {}
         /\ Fresh(who, base).depth = 0 /\ Fresh(who, base).base = base
BY DEF Fresh, States, On

\* kernel_main: interrupts are off up to the end of init_apic and on from there.
LEMMA BootTyped ==
  ASSUME NEW has_apic \in BOOLEAN
  PROVE  Takes(Boot(has_apic), Fresh("main", "off"), Fresh("main", "on"))
<1> DEFINE ws == {"main"}
           ls == Locks \ {"FS"}
           off == Fresh("main", "off")
           on == Fresh("main", "on")
<1>1. ws \in SUBSET Who /\ ws \in SUBSET Tasks /\ "isr" \notin ws
  BY DEF Who, Tasks
<1>2. Console \cup {"HEAP"} \subseteq ls /\ Console \subseteq ls /\ Console \subseteq Locks
      /\ Console \cup {"HEAP"} \subseteq Locks /\ "FS" \notin ls
      /\ "FS" \in Locks \ HandlerLocks /\ Locks = ls \cup {"FS"}
  BY DEF Console, Locks, HandlerLocks
<1>3. off \in States /\ on \in States /\ off.who = "main" /\ on.who = "main"
      /\ off.held = {} /\ on.held = {} /\ ~On(off)
  BY FreshState DEF Who, On
<1>4. Legal([op |-> "sti", lock |-> "none"], off, on)
  BY DEF Legal, Fresh
<1> HIDE DEF ls, off, on
<1>5. ASSUME NEW code, Neutral(code, ws, Locks) PROVE Takes(code, off, off) /\ Takes(code, on, on)
  BY <1>3, <1>5 DEF Neutral
<1>6. ASSUME NEW lock \in Locks PROVE Takes(With(lock, <<>>), off, off)
  <2>1. Guarded(With(lock, <<>>), ws, {} \cup {lock})
    BY <1>1, NeutralNothing, GuardedWith, Zenon
  <2>2. QED
    BY <1>3, <2>1 DEF Guarded
<1>7. "PICS" \in Locks /\ "FRAMEBUFFER" \in Locks /\ "HEAP" \in Locks /\ "APIC" \in Locks
  BY DEF Locks
<1>8. Takes(init, off, off) /\ Takes(framebuffer_init, off, off) /\ Takes(mask_all, off, off)
      /\ Takes(With("HEAP", <<>>), off, off) /\ Takes(With("APIC", <<>>), off, off)
  BY <1>6, <1>7 DEF init, framebuffer_init, mask_all
<1>9. Neutral(Do("heap"), ws, Locks) /\ Neutral(Do("activate"), ws, Locks)
  BY NeutralPlain DEF Ops
<1>10. Neutral(log, ws, Locks) /\ Neutral(alloc, ws, Locks)
  BY <1>1, <1>2, ConsoleTyped, HeapTyped
<1> HIDE DEF ws
<1>11. Takes(log, off, off) /\ Takes(log, on, on) /\ Takes(alloc, on, on)
       /\ Takes(Do("heap"), off, off) /\ Takes(Do("activate"), off, off)
  BY <1>5, <1>9, <1>10
<1>12. Takes(init_heap, off, off)
  BY <1>8, <1>11, TakesBoth, Zenon DEF init_heap
<1>13. Takes(apic_init, off, off)
  BY <1>8, <1>11, TakesBoth, Zenon DEF apic_init
<1>14. Takes((apic_init \o mask_all) \o log, off, off)
  BY <1>8, <1>11, <1>13, TakesBoth, Zenon
<1>15. Takes(Do("sti"), off, on)
  <2>1. [op |-> "sti", lock |-> "none"] \in Operations
    BY DEF Operations, Ops
  <2>2. QED
    BY <1>3, <1>4, <2>1, TakesOne DEF Do
<1>16. Takes(init_apic(has_apic), off, on)
  <2>1. CASE has_apic
    BY <1>14, <1>15, <2>1, TakesBoth, Zenon DEF init_apic
  <2>2. CASE ~has_apic
    BY <1>11, <1>15, <2>2, TakesBoth, Zenon DEF init_apic
  <2>3. QED
    BY <2>1, <2>2
<1>17. Takes(demo_fs, on, on)
  <2>1. Neutral(alloc, ws, ls) /\ Neutral(println, ws, ls) /\ Neutral(dealloc, ws, ls)
    BY <1>1, <1>2, ConsoleTyped, HeapTyped
  <2>2. Neutral(((alloc \o println) \o dealloc) \o println, ws, ls)
    BY <2>1, NeutralBoth, Zenon
  <2>3. Neutral(demo_fs, ws, Locks)
    BY <1>1, <1>2, <2>2, NeutralWith DEF demo_fs
  <2>4. QED
    BY <1>5, <2>3
<1>18. Takes(init \o framebuffer_init \o log \o init_heap \o log, off, off)
  BY <1>8, <1>11, <1>12, TakesBoth, Zenon
<1>19. Takes(Boot(has_apic), off, on)
  BY <1>11, <1>16, <1>17, <1>18, TakesBoth, Zenon DEF Boot
<1>20. QED
  BY <1>19 DEF off, on

\* Interrupt handlers, whichever controller they acknowledge.
LEMMA HandlersTyped ==
  ASSUME NEW code \in HandlerCode
  PROVE  Takes(code, Fresh("isr", "off"), Fresh("isr", "off"))
<1> DEFINE ws == {"isr"}
           off == Fresh("isr", "off")
           iret == [op |-> "iret", lock |-> "none"]
<1>1. ws \in SUBSET Who /\ Console \subseteq Locks
  BY DEF Who, Console, Locks
<1>2. off \in States /\ off.who = "isr" /\ off.held = {} /\ off.depth = 0 /\ ~On(off)
  BY FreshState DEF Who, On
<1>3. iret \in Operations /\ Do("iret") = <<iret>> /\ Legal(iret, off, off)
  BY <1>2 DEF Operations, Ops, Do, Legal
<1>4. Neutral(record, ws, Locks) /\ Neutral(push, ws, Locks) /\ Neutral(println, ws, Locks)
  BY <1>1, ConsoleTyped
<1>5. ASSUME NEW lock \in HandlerLocks PROVE Takes(With(lock, <<>>), off, off)
  <2>1. lock \in Locks
    BY DEF Locks, HandlerLocks
  <2>2. Guarded(With(lock, <<>>), ws, {} \cup {lock})
    BY <2>1, NeutralNothing, GuardedWith, Zenon
  <2>3. QED
    BY <1>2, <2>2 DEF Guarded
<1>6. "APIC" \in HandlerLocks /\ "PICS" \in HandlerLocks
  BY DEF HandlerLocks
<1>7. Takes(is_active, off, off) /\ Takes(With("PICS", <<>>), off, off)
  BY <1>5, <1>6 DEF is_active
<1>8. Takes(record, off, off) /\ Takes(push, off, off) /\ Takes(println, off, off)
  BY <1>2, <1>4 DEF Neutral
<1> HIDE DEF ws, off, iret
<1>9. Takes(<<iret>>, off, off) /\ Takes(<<>>, off, off)
  BY <1>2, <1>3, TakesOne, TakesNothing
<1>10. Takes(IF active THEN <<>> ELSE With("PICS", <<>>), off, off)
  BY <1>7, <1>9
<1>11. Takes(EndOfInterrupt, off, off)
  BY <1>3, <1>7, <1>9, <1>10, TakesBoth, Zenon DEF EndOfInterrupt
<1>12. Takes((push \o push) \o EndOfInterrupt, off, off)
  BY <1>8, <1>11, TakesBoth, Zenon
<1>13. Takes((push \o println) \o EndOfInterrupt, off, off)
  BY <1>8, <1>11, TakesBoth, Zenon
<1>14. Takes(record \o EndOfInterrupt, off, off)
  BY <1>8, <1>11, TakesBoth, Zenon
<1>15. Takes(code, off, off)
  BY <1>12, <1>13, <1>14, Zenon DEF HandlerCode
<1>16. QED
  BY <1>15 DEF off

\* The recursion that prints the lines of a stack trace has a solution.
LEMMA LinesDef ==
  \A n \in Nat : Lines[n] = IF n = 0 THEN <<>> ELSE Lines[n - 1] \o log
<1> DEFINE R(f, n) == IF n = 0 THEN <<>> ELSE f[n - 1] \o log
           Good(m, f) == \A n \in 0..m : f[n] = R(f, n)
           S == {m \in Nat : \E f : Good(m, f)}
<1>1. 0 \in S
  <2> DEFINE f == [n \in 0..0 |-> <<>>]
  <2>1. Good(0, f)
    OBVIOUS
  <2>2. QED
    BY <2>1, Zenon
<1>2. ASSUME NEW m \in Nat, m \in S PROVE m + 1 \in S
  <2>1. PICK f : Good(m, f)
    BY <1>2
  <2> DEFINE g == [n \in 0..m + 1 |-> IF n <= m THEN f[n] ELSE R(f, n)]
  <2>2. ASSUME NEW n \in 0..m + 1 PROVE g[n] = R(g, n)
    <3>1. n = 0 \/ (n - 1 \in 0..m + 1 /\ n - 1 <= m)
      OBVIOUS
    <3>2. R(g, n) = R(f, n)
      BY <3>1
    <3>3. CASE n <= m
      <4>1. n \in 0..m
        BY <3>3
      <4>2. f[n] = R(f, n)
        BY <2>1, <4>1
      <4>3. g[n] = f[n]
        BY <3>3
      <4>4. QED
        BY <3>2, <4>2, <4>3
    <3>4. CASE n > m
      <4>1. g[n] = R(f, n)
        BY <3>4
      <4>2. QED
        BY <3>2, <4>1
    <3>5. QED
      BY <3>3, <3>4
  <2>3. Good(m + 1, g)
    BY <2>2
  <2> HIDE DEF g, Good
  <2>4. m + 1 \in Nat /\ \E any : Good(m + 1, any)
    BY <2>3
  <2>5. QED
    BY <2>4
<1>3. \A m \in Nat : m \in S
  <2> HIDE DEF S
  <2>1. QED
    BY <1>1, <1>2, Induction
<1>4. ASSUME NEW m \in Nat, NEW k \in Nat, NEW f, NEW g, Good(m, f), Good(k, g)
      PROVE  \A n \in Nat : n <= m /\ n <= k => f[n] = g[n]
  <2> DEFINE U == {n \in Nat : n <= m /\ n <= k => f[n] = g[n]}
  <2>1. 0 \in U
    BY <1>4
  <2>2. ASSUME NEW n \in Nat, n \in U PROVE n + 1 \in U
    <3>1. SUFFICES ASSUME n + 1 <= m, n + 1 <= k PROVE f[n + 1] = g[n + 1]
      OBVIOUS
    <3>2. n + 1 \in 0..m /\ n + 1 \in 0..k /\ f[n] = g[n] /\ (n + 1) - 1 = n /\ n + 1 # 0
      BY <2>2, <3>1
    <3>3. f[n + 1] = f[n] \o log /\ g[n + 1] = g[n] \o log
      BY <1>4, <3>2, Zenon
    <3>4. QED
      BY <3>2, <3>3
  <2>3. \A n \in Nat : n \in U
    <3> HIDE DEF U
    <3>1. QED
      BY <2>1, <2>2, Induction
  <2>4. QED
    BY <2>3
<1> DEFINE F(m) == CHOOSE f : Good(m, f)
           h == [n \in Nat |-> F(n)[n]]
<1>5. ASSUME NEW m \in Nat PROVE Good(m, F(m))
  BY <1>3, Zenon
<1>6. ASSUME NEW n \in Nat PROVE h[n] = R(h, n)
  <2>1. n \in 0..n
    OBVIOUS
  <2>2. h[n] = R(F(n), n)
    BY <1>5, <2>1
  <2>3. CASE n = 0
    BY <2>2, <2>3
  <2>4. CASE n # 0
    <3>1. n - 1 \in Nat /\ n - 1 <= n /\ n - 1 <= n - 1
      BY <2>4
    <3>2. Good(n, F(n)) /\ Good(n - 1, F(n - 1))
      BY <1>5, <3>1
    <3> HIDE DEF F, Good
    <3>3. F(n)[n - 1] = F(n - 1)[n - 1]
      BY <1>4, <3>1, <3>2
    <3>4. h[n - 1] = F(n - 1)[n - 1]
      BY <3>1
    <3>5. QED
      BY <2>2, <2>4, <3>3, <3>4
  <2>5. QED
    BY <2>3, <2>4
<1>7. h = [n \in Nat |-> IF n = 0 THEN <<>> ELSE h[n - 1] \o log]
  <2>1. h = [n \in Nat |-> h[n]]
    OBVIOUS
  <2> HIDE DEF h, R
  <2>2. h = [n \in Nat |-> R(h, n)]
    BY <1>6, <2>1
  <2>3. QED
    BY <2>2, Zenon DEF R
<1> HIDE DEF h
<1>8. Lines = [n \in Nat |-> IF n = 0 THEN <<>> ELSE Lines[n - 1] \o log]
  BY <1>7, Zenon DEF Lines
<1>9. QED
  BY <1>8, Zenon

\* The panic handler, however far the stack trace gets.
LEMMA PanicTyped ==
  ASSUME NEW fits \in BOOLEAN, NEW n \in Nat, NEW base \in {"on", "off"}
  PROVE  Takes(panic(fits, n), Fresh("panic", base), Fresh("panic", base))
<1> DEFINE ws == {"panic"}
           a == Fresh("panic", base)
           S == {m \in Nat : Neutral(Lines[m], ws, Locks)}
<1>1. ws \in SUBSET Who /\ ws \in SUBSET Tasks /\ ws \subseteq {"panic"}
      /\ Console \subseteq Locks /\ Console \cup {"HEAP"} \subseteq Locks
  BY DEF Who, Tasks, Console, Locks
<1>2. a \in States /\ a.who = "panic" /\ a.held = {}
  BY FreshState DEF Who
<1> HIDE DEF ws
<1>3. Neutral(log, ws, Locks) /\ Neutral(dump_last, ws, Locks) /\ Neutral(alloc, ws, Locks)
      /\ Neutral(dealloc, ws, Locks) /\ Neutral(With("HEAP", <<>>), ws, Locks)
  BY <1>1, ConsoleTyped, HeapTyped
<1>4. Neutral(Do("fault"), ws, Locks) /\ Neutral(Do("panic"), ws, Locks)
      /\ Neutral(Do("reason"), ws, Locks) /\ Neutral(Do("all"), ws, Locks)
      /\ Neutral(<<>>, ws, Locks)
  BY <1>1, NeutralPlain, NeutralNothing, Zenon DEF Ops
<1>5. Neutral(Lines[n], ws, Locks)
  <2>1. 0 \in S
    BY <1>4, LinesDef
  <2>2. ASSUME NEW m \in Nat, m \in S PROVE m + 1 \in S
    <3>1. Lines[m + 1] = Lines[m] \o log
      <4>1. m + 1 \in Nat /\ m + 1 # 0 /\ (m + 1) - 1 = m
        OBVIOUS
      <4>2. QED
        BY <4>1, LinesDef, Zenon
    <3>2. Neutral(Lines[m] \o log, ws, Locks)
      BY <1>3, <2>2, NeutralBoth
    <3>3. m + 1 \in Nat /\ Neutral(Lines[m + 1], ws, Locks)
      BY <3>1, <3>2
    <3>4. QED
      BY <3>3, Zenon
  <2> HIDE DEF S
  <2>3. n \in S
    BY <2>1, <2>2, Induction
  <2>4. QED
    BY <2>3 DEF S
<1>6. Neutral(IF n < WALK THEN Do("fault") ELSE <<>>, ws, Locks)
  BY <1>4
<1>7. Neutral(stack_trace(n), ws, Locks)
  BY <1>3, <1>5, <1>6, NeutralBoth, Zenon DEF stack_trace
<1>8. Neutral(crash_dump(n), ws, Locks)
  BY <1>3, <1>4, <1>7, NeutralBoth, Zenon DEF crash_dump, dump_registers, dump_to_serial
<1>9. Neutral(alloc \o crash_dump(n) \o dealloc, ws, Locks)
  BY <1>3, <1>8, NeutralBoth, Zenon
<1>10. Neutral(With("HEAP", <<>>) \o Do("panic"), ws, Locks)
  BY <1>3, <1>4, NeutralBoth, Zenon
<1>11. Neutral(panic(fits, n), ws, Locks)
  <2>1. CASE fits
    BY <1>9, <2>1, Zenon DEF panic
  <2>2. CASE ~fits
    BY <1>10, <2>2, Zenon DEF panic
  <2>3. QED
    BY <2>1, <2>2
<1>12. QED
  <2>1. a.held \cap Locks = {} /\ a.who \in ws
    BY <1>2 DEF ws
  <2> HIDE DEF a
  <2>2. Takes(panic(fits, n), a, a)
    BY <1>2, <1>11, <2>1 DEF Neutral
  <2>3. QED
    BY <2>2 DEF a
-----------------------------------------------------------------------------
(* The inductive invariant *)

Contexts == [who : Who, todo : Seq(Operations), saved : Seq(BOOLEAN)]

\* What context c has left to do is typed from state a; flag is RFLAGS.IF.  Of
\* the flags that without_interrupts saved, only the outermost may be set.
Runs(c, a, flag) ==
  /\ c \in Contexts /\ a \in States /\ c.who = a.who
  /\ flag \in BOOLEAN /\ (flag <=> On(a))
  /\ Len(c.saved) = a.depth
  /\ \A k \in 1..a.depth : c.saved[k] <=> (k = a.depth /\ a.base = "on")
  /\ \E b \in States : b.held = {} /\ b.depth = 0 /\ Takes(c.todo, a, b)

\* The same of a context that was interrupted.
Interrupted(c, a) == Runs(c, a, TRUE)

\* What may be under a running context in state a: nothing under a task, a task
\* or a panic with interrupts on under a handler, and under a panic something
\* that will not run again.  Until something fails the locks that are taken are
\* those that the contexts hold.
Under(rest, a, taken) ==
  \/ /\ a.who = "main" /\ Len(rest) = 0
     /\ taken = a.held
  \/ /\ a.who = "isr" /\ a.base = "off" /\ Len(rest) = 1
     /\ \E b : /\ Interrupted(rest[1], b) /\ b.who = "main"
               /\ taken = a.held \cup b.held
  \/ /\ a.who = "isr" /\ a.base = "off" /\ Len(rest) = 2
     /\ \E b : Interrupted(rest[1], b) /\ b.who = "panic"
     /\ rest[2].who = "main"
  \/ a.who = "panic" /\ Len(rest) = 1 /\ rest[1].who = "main"
  \/ /\ a.who = "panic" /\ a.base = "off" /\ Len(rest) = 2
     /\ rest[1].who = "isr" /\ rest[2].who = "main"

StackInv ==
  /\ stack \in Seq(Contexts) /\ stack # <<>>
  /\ \E a : Runs(Head(stack), a, ints) /\ Under(Tail(stack), a, locked)

Reports == {"nothing", "reason", "all"}

FlagInv ==
  /\ locked \subseteq Locks
  /\ {ints, active, heap, room, clean} \subseteq BOOLEAN
  /\ intact \in 0..WALK
  /\ report \in Reports

LockInv == StackInv /\ FlagInv

\* What a handler has interrupted: a task, or a panic on top of one.
LEMMA UnderHandler ==
  ASSUME NEW rest, NEW a, NEW taken, Under(rest, a, taken), a.who = "isr"
  PROVE  \/ Len(rest) = 1 /\ rest[1].who = "main"
         \/ Len(rest) = 2 /\ rest[1].who = "panic" /\ rest[2].who = "main"
BY Zenon DEF Under, Interrupted, Runs

\* A context that has just begun.
LEMMA RunsFresh ==
  ASSUME NEW who \in Who, NEW base \in {"on", "off"}, NEW code, NEW b \in States,
         Takes(code, Fresh(who, base), b), b.held = {}, b.depth = 0,
         NEW flag \in BOOLEAN, flag <=> base = "on"
  PROVE  /\ Context(who, code) \in Contexts
         /\ Runs(Context(who, code), Fresh(who, base), flag)
<1> DEFINE a == Fresh(who, base)
           c == Context(who, code)
<1>1. a \in States /\ a.who = who /\ a.depth = 0 /\ a.base = base
  BY FreshState
<1>2. code \in Seq(Operations)
  BY DEF Takes
<1>3. c \in Contexts /\ c.who = who /\ c.todo = code /\ c.saved = <<>>
  BY <1>2 DEF Context, Contexts
<1> HIDE DEF a, c
<1>4. flag <=> On(a)
  BY <1>1 DEF On
<1>5. Takes(code, a, b)
  BY DEF a
<1>6. Len(c.saved) = a.depth /\ \A k \in 1..a.depth : FALSE
  BY <1>1, <1>3
<1>7. Runs(c, a, flag)
  BY <1>1, <1>3, <1>4, <1>5, <1>6 DEF Runs
<1>8. QED
  BY <1>3, <1>7 DEF a, c

\* What an operation does to the saved flags and to RFLAGS.IF.
Masks(op, saved, flag, saved2, flag2) ==
  \/ op = "cli" /\ saved2 = <<flag>> \o saved /\ flag2 = FALSE
  \/ op = "restore" /\ saved2 = Tail(saved) /\ flag2 = Head(saved)
  \/ op = "sti" /\ saved2 = saved /\ flag2 = TRUE
  \/ op \notin {"cli", "restore", "sti"} /\ saved2 = saved /\ flag2 = flag

LEMMA TailType ==
  ASSUME NEW S, NEW s \in Seq(S), s # <<>>
  PROVE  Tail(s) \in Seq(S) /\ Len(Tail(s)) = Len(s) - 1
OBVIOUS

LEMMA TailSecond ==
  ASSUME NEW S, NEW s \in Seq(S), s # <<>>, Len(Tail(s)) > 0
  PROVE  Len(s) = Len(Tail(s)) + 1 /\ Tail(s)[1] = s[2] /\ 2 \in DOMAIN s
OBVIOUS

\* A context executes its next operation.
LEMMA RunsOn ==
  ASSUME NEW c, NEW a, NEW flag, Runs(c, a, flag), c.todo # <<>>, NEW saved2, NEW flag2,
         Masks(Head(c.todo).op, c.saved, flag, saved2, flag2)
  PROVE  /\ [c EXCEPT !.todo = Tail(@), !.saved = saved2] \in Contexts
         /\ \E b : /\ Legal(Head(c.todo), a, b)
                   /\ Runs([c EXCEPT !.todo = Tail(@), !.saved = saved2], b, flag2)
<1> DEFINE d == [c EXCEPT !.todo = Tail(@), !.saved = saved2]
           o == Head(c.todo)
<1>1. c \in Contexts /\ a \in States /\ c.who = a.who /\ flag \in BOOLEAN /\ (flag <=> On(a))
      /\ Len(c.saved) = a.depth
      /\ \A k \in 1..a.depth : c.saved[k] <=> (k = a.depth /\ a.base = "on")
  BY DEF Runs
<1>2. PICK e \in States : e.held = {} /\ e.depth = 0 /\ Takes(c.todo, a, e)
  BY DEF Runs
<1>3. Tail(c.todo) \in Seq(Operations)
      /\ \E b \in States : Legal(o, a, b) /\ Takes(Tail(c.todo), b, e)
  BY <1>2, TakesHead
<1>4. PICK b \in States : Legal(o, a, b) /\ Takes(Tail(c.todo), b, e)
  BY <1>3
<1> HIDE DEF o
<1>5. a.depth \in Nat /\ b.depth \in Nat /\ a.base \in {"on", "off"} /\ c.saved \in Seq(BOOLEAN)
  BY <1>1 DEF States, Contexts
<1>6. /\ saved2 \in Seq(BOOLEAN) /\ Len(saved2) = b.depth
      /\ flag2 \in BOOLEAN /\ (flag2 <=> On(b))
      /\ \A k \in 1..b.depth : saved2[k] <=> (k = b.depth /\ b.base = "on")
  <2>1. CASE o.op = "cli"
    <3>1. saved2 = <<flag>> \o c.saved /\ flag2 = FALSE
      BY <2>1 DEF Masks, o
    <3>2. b.depth = a.depth + 1 /\ b.base = a.base
      BY <1>4, <2>1 DEF Legal
    <3>3. saved2 \in Seq(BOOLEAN) /\ Len(saved2) = b.depth /\ ~On(b)
      BY <1>1, <1>5, <3>1, <3>2 DEF On
    <3>4. ASSUME NEW k \in 1..b.depth PROVE saved2[k] <=> (k = b.depth /\ b.base = "on")
      <4>1. CASE k = 1
        <5>1. saved2[1] = flag
          BY <1>5, <3>1
        <5>2. On(a) <=> (1 = b.depth /\ b.base = "on")
          BY <1>5, <3>2 DEF On
        <5>3. QED
          BY <1>1, <4>1, <5>1, <5>2
      <4>2. CASE k # 1
        <5>1. k - 1 \in 1..a.depth /\ (k - 1 = a.depth <=> k = b.depth)
          BY <1>5, <3>2, <4>2
        <5>2. saved2[k] = c.saved[k - 1]
          BY <1>1, <1>5, <3>1, <4>2, <5>1
        <5>3. QED
          BY <1>1, <3>2, <5>1, <5>2
      <4>3. QED
        BY <4>1, <4>2
    <3>5. QED
      BY <3>1, <3>3, <3>4, Zenon
  <2>2. CASE o.op = "restore"
    <3>1. saved2 = Tail(c.saved) /\ flag2 = Head(c.saved)
      BY <2>2 DEF Masks, o
    <3>2. b.depth = a.depth - 1 /\ b.base = a.base /\ a.depth > 0
      BY <1>4, <1>5, <2>2 DEF Legal
    <3>3. /\ saved2 \in Seq(BOOLEAN) /\ Len(saved2) = b.depth
          /\ Head(c.saved) = c.saved[1] /\ c.saved[1] \in BOOLEAN
      <4>1. c.saved # <<>> /\ 1 \in 1..Len(c.saved)
        BY <1>1, <1>5, <3>2
      <4>2. saved2 \in Seq(BOOLEAN) /\ Len(saved2) = b.depth
        BY <1>1, <1>5, <3>1, <3>2, <4>1, TailType, Zenon
      <4>3. Head(c.saved) = c.saved[1]
        BY <1>5, <4>1
      <4>4. c.saved[1] \in BOOLEAN
        BY <1>5, <4>1
      <4>5. QED
        BY <4>2, <4>3, <4>4
    <3>4. flag2 <=> On(b)
      <4>1. c.saved[1] <=> (1 = a.depth /\ a.base = "on")
        BY <1>1, <1>5, <3>2
      <4>2. On(b) <=> (1 = a.depth /\ a.base = "on")
        BY <1>5, <3>2 DEF On
      <4>3. QED
        BY <3>1, <3>3, <4>1, <4>2
    <3>5. ASSUME NEW k \in 1..b.depth PROVE saved2[k] <=> (k = b.depth /\ b.base = "on")
      <4>1. k + 1 \in 1..a.depth /\ (k + 1 = a.depth <=> k = b.depth)
        BY <1>5, <3>2
      <4>2. saved2[k] = c.saved[k + 1]
        BY <1>1, <1>5, <3>1, <3>2
      <4>3. QED
        BY <1>1, <3>2, <4>1, <4>2
    <3>6. QED
      BY <3>1, <3>3, <3>4, <3>5
  <2>3. CASE o.op = "sti"
    <3>1. saved2 = c.saved /\ flag2 = TRUE
      BY <2>3 DEF Masks, o
    <3>2. b.depth = 0 /\ b.base = "on" /\ a.depth = 0
      BY <1>4, <2>3 DEF Legal
    <3>3. On(b) /\ 1..b.depth = {}
      BY <3>2 DEF On
    <3>4. QED
      BY <1>1, <1>5, <3>1, <3>2, <3>3
  <2>4. CASE o.op \notin {"cli", "restore", "sti"}
    <3>1. saved2 = c.saved /\ flag2 = flag
      BY <2>4 DEF Masks, o
    <3>2. b.depth = a.depth /\ b.base = a.base
      BY <1>4, <2>4 DEF Legal
    <3>3. On(b) <=> On(a)
      BY <3>2 DEF On
    <3>4. QED
      BY <1>1, <1>5, <3>1, <3>2, <3>3
  <2>5. QED
    BY <2>1, <2>2, <2>3, <2>4
<1>7. d \in Contexts /\ d.who = c.who /\ d.todo = Tail(c.todo) /\ d.saved = saved2
  BY <1>1, <1>3, <1>6, Zenon DEF Contexts
<1>8. b.who = a.who
  BY <1>4 DEF Legal
<1> HIDE DEF d
<1>9. Runs(d, b, flag2)
  BY <1>1, <1>2, <1>4, <1>6, <1>7, <1>8, SMTT(30) DEF Runs
<1>10. QED
  BY <1>4, <1>7, <1>9 DEF d, o

\* The locks that are taken after an operation.
Taken(op, taken) ==
  IF op.op = "lock" THEN taken \cup {op.lock}
  ELSE IF op.op = "unlock" THEN taken \ {op.lock} ELSE taken

\* What is under a context stays right when it executes an operation: a handler
\* never touches a lock of the code that it interrupted.
LEMMA UnderKept ==
  ASSUME NEW rest, NEW a \in States, NEW b \in States, NEW op, NEW taken,
         Under(rest, a, taken), Legal(op, a, b)
  PROVE  Under(rest, b, Taken(op, taken))
<1>1. b.who = a.who /\ (a.who # "main" => b.base = a.base)
  BY DEF Legal
<1>2. CASE a.who = "main"
  <2>1. Len(rest) = 0 /\ taken = a.held
    BY <1>2 DEF Under
  <2>2. b.held = Taken(op, taken)
    BY <2>1 DEF Legal, Taken
  <2>3. QED
    BY <1>1, <1>2, <2>1, <2>2 DEF Under
<1>3. CASE a.who = "isr" /\ Len(rest) = 1
  <2>1. PICK c : Interrupted(rest[1], c) /\ c.who = "main" /\ taken = a.held \cup c.held
    BY <1>3 DEF Under
  <2>2. a.base = "off"
    BY <1>3 DEF Under
  <2>3. c.held \cap HandlerLocks = {}
    BY <2>1 DEF Interrupted, Runs, States
  <2>4. op.op = "lock" => op.lock \in HandlerLocks
    BY <1>1, <1>3 DEF Legal, States
  <2>5. op.op = "unlock" => op.lock \in HandlerLocks
    BY <1>3 DEF Legal, States
  <2>6. Taken(op, taken) = b.held \cup c.held
    BY <2>1, <2>3, <2>4, <2>5 DEF Legal, Taken
  <2>7. QED
    BY <1>1, <1>3, <2>1, <2>2, <2>6 DEF Under
<1>4. CASE a.who = "isr" /\ Len(rest) = 2
  BY <1>1, <1>4 DEF Under
<1>5. CASE a.who = "panic"
  BY <1>1, <1>5 DEF Under
<1>6. QED
  BY <1>2, <1>3, <1>4, <1>5 DEF Under
-----------------------------------------------------------------------------
(* The steps *)

\* A new context on top of rest.
LEMMA Pushed ==
  ASSUME NEW c \in Contexts, NEW rest \in Seq(Contexts), stack' = <<c>> \o rest, NEW a,
         Runs(c, a, ints'), Under(rest, a, locked')
  PROVE  StackInv'
<1>1. <<c>> \o rest \in Seq(Contexts) /\ <<c>> \o rest # <<>>
      /\ Head(<<c>> \o rest) = c /\ Tail(<<c>> \o rest) = rest
  OBVIOUS
<1>2. stack' \in Seq(Contexts) /\ stack' # <<>> /\ Head(stack') = c /\ Tail(stack') = rest
  BY <1>1
<1>3. QED
  BY <1>2, Zenon DEF StackInv

\* The running context executes an operation.
LEMMA AdvanceKeeps ==
  ASSUME LockInv, Top.todo # <<>>, NEW saved, Advance(saved),
         Masks(Op.op, Top.saved, ints, saved, ints'), locked' = Taken(Op, locked)
  PROVE  StackInv' /\ locked' \subseteq Locks /\ ints' \in BOOLEAN
<1>1. stack \in Seq(Contexts) /\ stack # <<>> /\ locked \subseteq Locks
  BY SMTT(30) DEF LockInv, StackInv, FlagInv
<1>2. PICK a : Runs(Top, a, ints) /\ Under(Tail(stack), a, locked)
  BY DEF LockInv, StackInv, Top
<1> DEFINE d == [Top EXCEPT !.todo = Tail(@), !.saved = saved]
<1>3. d \in Contexts /\ \E b : Legal(Op, a, b) /\ Runs(d, b, ints')
  BY <1>2, RunsOn, Zenon DEF Op
<1>4. PICK b : Legal(Op, a, b) /\ Runs(d, b, ints')
  BY <1>3
<1>5. stack' = <<d>> \o Tail(stack)
  BY DEF Advance
<1> HIDE DEF d
<1>6. a \in States /\ b \in States /\ ints' \in BOOLEAN
  BY <1>2, <1>4 DEF Runs
<1>7. Under(Tail(stack), b, locked')
  BY <1>2, <1>4, <1>6, UnderKept
<1>8. locked' \subseteq Locks
  <2>1. Op.op = "lock" => Op.lock \in b.held
    BY <1>4 DEF Legal
  <2>2. b.held \subseteq Locks
    BY <1>6 DEF States
  <2>3. QED
    BY <1>1, <2>1, <2>2 DEF Taken
<1>9. Tail(stack) \in Seq(Contexts)
  BY <1>1, TailType
<1>10. StackInv'
  BY <1>3, <1>4, <1>5, <1>7, <1>9, Pushed, Zenon
<1>11. QED
  BY <1>6, <1>8, <1>10

\* Which states the running context can be in when it is to return, to panic
\* again or to fault.
LEMMA TopState ==
  ASSUME LockInv, NEW a, Runs(Top, a, ints), Under(Tail(stack), a, locked), Top.todo # <<>>
  PROVE  \E b : Legal(Op, a, b)
BY TakesHead DEF Runs, Op

\* Some operation changes the flags of the model only.
LEMMA ExecuteKeeps ==
  ASSUME LockInv, Lock \/ Unlock \/ Cli \/ Restore \/ Sti \/ Activate \/ Heap
         \/ Printed("reason") \/ Printed("all")
  PROVE  LockInv'
<1>1. ints \in BOOLEAN /\ active \in BOOLEAN /\ heap \in BOOLEAN /\ room \in BOOLEAN
      /\ clean \in BOOLEAN /\ report \in Reports /\ intact \in 0..WALK
  BY DEF LockInv, FlagInv
<1>2. Top.todo # <<>> /\ UNCHANGED <<room, clean, intact>>
  BY DEF Lock, Unlock, Cli, Restore, Sti, Activate, Heap, Printed, Execute
<1>3. active' \in BOOLEAN /\ heap' \in BOOLEAN /\ report' \in Reports
  BY <1>1, Zenon DEF Lock, Unlock, Cli, Restore, Sti, Activate, Heap, Printed, Reports
<1>4. \E saved : /\ Advance(saved)
                 /\ Masks(Op.op, Top.saved, ints, saved, ints')
                 /\ locked' = Taken(Op, locked)
  <2>1. CASE Cli
    <3>1. Op.op = "cli" /\ ints' = FALSE /\ Advance(<<ints>> \o Top.saved) /\ locked' = locked
      BY <2>1 DEF Cli, Execute
    <3>2. QED
      BY <3>1, Zenon DEF Masks, Taken
  <2>2. CASE Restore
    <3>1. Op.op = "restore" /\ ints' = Head(Top.saved) /\ Advance(Tail(Top.saved))
          /\ locked' = locked
      BY <2>2 DEF Restore, Execute
    <3>2. QED
      BY <3>1, Zenon DEF Masks, Taken
  <2>3. CASE Sti
    <3>1. Op.op = "sti" /\ ints' = TRUE /\ Advance(Top.saved) /\ locked' = locked
      BY <2>3 DEF Sti, Execute
    <3>2. QED
      BY <3>1 DEF Masks, Taken
  <2>4. CASE Lock
    <3>1. Op.op = "lock" /\ ints' = ints /\ Advance(Top.saved) /\ locked' = locked \cup {Op.lock}
      BY <2>4 DEF Lock, Execute
    <3>2. QED
      BY <3>1 DEF Masks, Taken
  <2>5. CASE Unlock
    <3>1. Op.op = "unlock" /\ ints' = ints /\ Advance(Top.saved) /\ locked' = locked \ {Op.lock}
      BY <2>5 DEF Unlock, Execute
    <3>2. QED
      BY <3>1 DEF Masks, Taken
  <2>6. CASE Activate \/ Heap \/ Printed("reason") \/ Printed("all")
    <3>1. Op.op \in {"activate", "heap", "reason", "all"} /\ ints' = ints /\ Advance(Top.saved)
          /\ locked' = locked
      BY <2>6 DEF Activate, Heap, Printed, Execute
    <3>2. QED
      BY <3>1 DEF Masks, Taken
  <2>7. QED
    BY <2>1, <2>2, <2>3, <2>4, <2>5, <2>6
<1>5. StackInv' /\ locked' \subseteq Locks /\ ints' \in BOOLEAN
  BY <1>2, <1>4, AdvanceKeeps
<1>6. FlagInv'
  BY <1>1, <1>2, <1>3, <1>5 DEF FlagInv
<1>7. QED
  BY <1>5, <1>6 DEF LockInv

\* A byte is written, or the port is polled again.
LEMMA SendKeeps ==
  ASSUME LockInv, Send
  PROVE  LockInv'
<1>1. Top.todo # <<>> /\ Op.op = "send"
      /\ UNCHANGED <<room, clean, intact, locked, ints, active, heap, report>>
  BY DEF Send, Execute
<1>2. FlagInv'
  BY <1>1 DEF LockInv, FlagInv
<1>3. CASE Advance(Top.saved)
  <2>1. Masks(Op.op, Top.saved, ints, Top.saved, ints') /\ locked' = Taken(Op, locked)
    BY <1>1 DEF Masks, Taken
  <2>2. QED
    BY <1>1, <1>2, <1>3, <2>1, AdvanceKeeps, Zenon DEF LockInv
<1>4. CASE Op.tries > 1 /\ PollAgain(Op.tries - 1)
  <2>1. stack \in Seq(Contexts) /\ stack # <<>>
    BY DEF LockInv, StackInv
  <2>2. PICK a : Runs(Top, a, ints) /\ Under(Tail(stack), a, locked)
    BY DEF LockInv, StackInv, Top
  <2>3. PICK e \in States : e.held = {} /\ e.depth = 0 /\ Takes(Top.todo, a, e)
    BY <2>2 DEF Runs
  <2>4. /\ Op \in Operations /\ a \in States /\ Tail(Top.todo) \in Seq(Operations)
        /\ \E b \in States : Legal(Op, a, b) /\ Takes(Tail(Top.todo), b, e)
    BY <1>1, <2>3, TakesHead DEF Op
  <2>5. PICK b \in States : Legal(Op, a, b) /\ Takes(Tail(Top.todo), b, e)
    BY <2>4
  <2> DEFINE o == [Op EXCEPT !.tries = Op.tries - 1]
             t == <<o>> \o Tail(Top.todo)
             d == [Top EXCEPT !.todo = t]
  <2>6. o \in Operations /\ o.op = "send"
    BY <1>1, <1>4, <2>4 DEF Operations, Ops
  <2>7. stack' = <<d>> \o Tail(stack)
    BY <1>4 DEF PollAgain
  <2> HIDE DEF o
  <2>8. Legal(o, a, b)
    BY <1>1, <2>5, <2>6 DEF Legal
  <2>9. Takes(t, a, e)
    BY <2>4, <2>5, <2>6, <2>8, TakesOne, TakesBoth
  <2> HIDE DEF t
  <2>10. t \in Seq(Operations)
    BY <2>9 DEF Takes
  <2>11. d \in Contexts /\ d.who = Top.who /\ d.todo = t /\ d.saved = Top.saved
    BY <2>2, <2>10 DEF Runs, Contexts
  <2> HIDE DEF d
  <2>12. Runs(d, a, ints)
    BY <2>2, <2>3, <2>9, <2>11 DEF Runs
  <2>13. Tail(stack) \in Seq(Contexts)
    BY <2>1, TailType
  <2>14. Runs(d, a, ints') /\ Under(Tail(stack), a, locked')
    BY <1>1, <2>2, <2>12
  <2>15. StackInv'
    BY <2>7, <2>11, <2>13, <2>14, Pushed, Zenon
  <2>16. QED
    BY <1>2, <2>15 DEF LockInv
<1>5. QED
  BY <1>3, <1>4 DEF Send

\* A handler returns to the code it interrupted, and holds nothing.
LEMMA IretKeeps ==
  ASSUME LockInv, Iret
  PROVE  LockInv'
<1>1. Top.todo # <<>> /\ Op.op = "iret" /\ ints' = TRUE /\ stack' = Tail(stack)
      /\ UNCHANGED <<room, clean, intact, locked, active, heap, report>>
  BY DEF Iret, Execute
<1>2. FlagInv'
  BY <1>1, SMTT(30) DEF LockInv, FlagInv
<1>3. stack \in Seq(Contexts) /\ stack # <<>>
  BY DEF LockInv, StackInv
<1>4. PICK a : Runs(Top, a, ints) /\ Under(Tail(stack), a, locked)
  BY DEF LockInv, StackInv, Top
<1>5. a.who = "isr" /\ a.held = {}
  BY <1>1, <1>4, TopState DEF Legal
<1> DEFINE rest == Tail(stack)
<1>6. rest \in Seq(Contexts) /\ stack' = rest
  BY <1>1, <1>3, TailType
<1> HIDE DEF rest
<1>7. StackInv'
  <2>1. CASE Len(rest) = 1
    <3>1. PICK b : Interrupted(rest[1], b) /\ b.who = "main" /\ locked = a.held \cup b.held
      BY <1>4, <1>5, <2>1 DEF Under, rest
    <3>2. rest # <<>> /\ Head(rest) = rest[1] /\ Len(Tail(rest)) = 0
      BY <1>6, <2>1
    <3>3. Runs(Head(rest), b, ints')
      BY <1>1, <3>1, <3>2, Zenon DEF Interrupted
    <3>4. Under(Tail(rest), b, locked')
      BY <1>1, <1>5, <3>1, <3>2 DEF Under
    <3>5. QED
      BY <1>6, <3>2, <3>3, <3>4 DEF StackInv
  <2>2. CASE Len(rest) = 2
    <3>1. PICK b : Interrupted(rest[1], b) /\ b.who = "panic" /\ rest[2].who = "main"
      BY <1>4, <1>5, <2>2 DEF Under, rest
    <3>2. rest # <<>> /\ Head(rest) = rest[1] /\ Len(Tail(rest)) = 1 /\ Tail(rest)[1] = rest[2]
      BY <1>6, <2>2
    <3>3. Runs(Head(rest), b, ints')
      BY <1>1, <3>1, <3>2, Zenon DEF Interrupted
    <3>4. Under(Tail(rest), b, locked')
      BY <3>1, <3>2 DEF Under
    <3>5. QED
      BY <1>6, <3>2, <3>3, <3>4 DEF StackInv
  <2>3. QED
    BY <1>4, <1>5, <2>1, <2>2 DEF Under, rest
<1>8. QED
  BY <1>2, <1>7 DEF LockInv

\* The panic handler is entered again.
LEMMA PanicRestarts ==
  ASSUME LockInv, NEW fits \in BOOLEAN, NEW n \in Nat, Top.todo # <<>>,
         Op.op \in {"panic", "fault"}, ints' \in BOOLEAN, ints' => ints,
         stack' = <<Context("panic", panic(fits, n))>> \o Tail(stack)
  PROVE  StackInv'
<1>1. stack \in Seq(Contexts) /\ stack # <<>>
  BY DEF LockInv, StackInv
<1>2. PICK a : Runs(Top, a, ints) /\ Under(Tail(stack), a, locked)
  BY DEF LockInv, StackInv, Top
<1>3. a.who = "panic"
  BY <1>2, TopState, Zenon DEF Legal
<1> DEFINE base == IF ints' THEN "on" ELSE "off"
           f == Fresh("panic", base)
           c == Context("panic", panic(fits, n))
<1>4. base \in {"on", "off"} /\ (ints' <=> base = "on") /\ "panic" \in Who
  BY DEF Who
<1> HIDE DEF base
<1>5. f \in States /\ f.who = "panic" /\ f.held = {} /\ f.depth = 0 /\ f.base = base
  BY <1>4, FreshState
<1>6. Takes(panic(fits, n), f, f)
  BY <1>4, PanicTyped
<1>7. c \in Contexts /\ Runs(c, f, ints')
  BY <1>4, <1>5, <1>6, RunsFresh
<1>8. a.base = "off" => base = "off"
  BY <1>2, <1>4 DEF Runs, On
<1> HIDE DEF c, f
<1>9. Under(Tail(stack), f, locked')
  BY <1>2, <1>3, <1>5, <1>8 DEF Under
<1>10. Tail(stack) \in Seq(Contexts) /\ stack' = <<c>> \o Tail(stack)
  BY <1>1, TailType DEF c
<1>11. QED
  BY <1>7, <1>9, <1>10, Pushed, Zenon

\* What a panic that begins does to the flags of the model.
LEMMA PanicFlags ==
  ASSUME LockInv, NEW rest, PanicOn(rest), ints' \in BOOLEAN
  PROVE  /\ FlagInv'
         /\ \E fits \in BOOLEAN, n \in Nat :
              stack' = <<Context("panic", panic(fits, n))>> \o rest
<1>1. UNCHANGED <<locked, active, heap>> /\ report' = "nothing"
  BY DEF PanicOn
<1>2. PICK fits \in {heap, FALSE}, n \in 0..WALK :
        stack' = <<Context("panic", panic(fits, n))>> \o rest /\ room' = fits /\ intact' = n
  BY Zenon DEF PanicOn
<1>3. heap \in BOOLEAN /\ active \in BOOLEAN /\ locked \subseteq Locks
  BY DEF LockInv, FlagInv
<1>4. fits \in BOOLEAN
  BY <1>3, Zenon
<1>5. n \in Nat
  BY LimitAssumption
<1>6. clean' \in BOOLEAN
  BY DEF PanicOn
<1>7. FlagInv'
  BY <1>1, <1>2, <1>3, <1>4, <1>6 DEF FlagInv, Reports
<1>8. QED
  BY <1>2, <1>4, <1>5, <1>7, Zenon

LEMMA PanicAgainKeeps ==
  ASSUME LockInv, PanicAgain
  PROVE  LockInv'
<1>1. Top.todo # <<>> /\ Op.op \in {"panic", "fault"} /\ ints' = ints /\ PanicOn(Tail(stack))
  BY DEF PanicAgain
<1>2. ints' \in BOOLEAN /\ (ints' => ints)
  BY <1>1 DEF LockInv, FlagInv
<1>3. FlagInv' /\ StackInv'
  BY <1>1, <1>2, PanicFlags, PanicRestarts, Zenon
<1>4. QED
  BY <1>3 DEF LockInv

LEMMA WalkFaultKeeps ==
  ASSUME LockInv, WalkFault
  PROVE  LockInv'
<1>1. Top.todo # <<>> /\ Op.op \in {"panic", "fault"} /\ ints' = FALSE /\ PanicOn(Tail(stack))
  BY DEF WalkFault
<1>2. ints' \in BOOLEAN /\ (ints' => ints)
  BY <1>1, Zenon
<1>3. FlagInv' /\ StackInv'
  BY <1>1, <1>2, PanicFlags, PanicRestarts, Zenon
<1>4. QED
  BY <1>3 DEF LockInv

\* A task calls something; it holds nothing.
LEMMA CallKeeps ==
  ASSUME LockInv, Call
  PROVE  LockInv'
<1>1. Top.who = "main" /\ Top.todo = <<>>
      /\ UNCHANGED <<locked, ints, active, heap, room, clean, intact, report>>
  BY DEF Call
<1>2. PICK code \in Commands : stack' = <<Context("main", code)>>
  BY DEF Call
<1>3. FlagInv'
  BY <1>1 DEF LockInv, FlagInv
<1>4. PICK a : Runs(Top, a, ints) /\ Under(Tail(stack), a, locked)
  BY DEF LockInv, StackInv, Top
<1>5. PICK e \in States : e.held = {} /\ e.depth = 0 /\ Takes(Top.todo, a, e)
  BY <1>4 DEF Runs
<1>6. a = e
  BY <1>1, <1>5, TakesDone
<1>7. a.who = "main" /\ a.held = {} /\ a.depth = 0 /\ a.base \in {"on", "off"}
      /\ ints \in BOOLEAN /\ (ints <=> a.base = "on")
  BY <1>1, <1>4, <1>5, <1>6 DEF Runs, States, On
<1>8. locked = {}
  BY <1>4, <1>7 DEF Under
<1> DEFINE f == Fresh("main", a.base)
           c == Context("main", code)
<1>9. f \in States /\ f.who = "main" /\ f.held = {} /\ f.depth = 0 /\ "main" \in Who
  BY <1>7, FreshState DEF Who
<1>10. Takes(code, f, f)
  <2>1. Neutral(code, {"main"}, Locks)
    BY CommandsTyped
  <2> HIDE DEF f
  <2>2. QED
    BY <1>9, <2>1 DEF Neutral
<1>11. c \in Contexts /\ Runs(c, f, ints)
  BY <1>7, <1>9, <1>10, RunsFresh
<1> HIDE DEF c, f
<1>12. stack' = <<c>> \o <<>> /\ <<>> \in Seq(Contexts) /\ Runs(c, f, ints')
  <2>1. <<c>> \o <<>> = <<c>>
    OBVIOUS
  <2>2. stack' = <<c>>
    BY <1>2 DEF c
  <2>3. QED
    BY <1>1, <1>11, <2>1, <2>2
<1>13. Under(<<>>, f, locked')
  <2>1. Len(<<>>) = 0
    OBVIOUS
  <2>2. QED
    BY <1>1, <1>8, <1>9, <2>1 DEF Under
<1>14. StackInv'
  BY <1>11, <1>12, <1>13, Pushed, Zenon
<1>15. QED
  BY <1>3, <1>14 DEF LockInv

\* Interrupts are on only in a task or in a panic on top of one.
LEMMA InterruptKeeps ==
  ASSUME LockInv, Interrupt
  PROVE  LockInv'
<1>1. ints /\ ints' = FALSE /\ UNCHANGED <<locked, active, heap, room, clean, intact, report>>
  BY DEF Interrupt
<1>2. PICK code \in HandlerCode : stack' = <<Context("isr", code)>> \o stack
  BY DEF Interrupt
<1>3. FlagInv'
  BY <1>1, Zenon DEF LockInv, FlagInv
<1>4. stack \in Seq(Contexts) /\ stack # <<>>
  BY DEF LockInv, StackInv
<1>5. PICK a : Runs(Top, a, ints) /\ Under(Tail(stack), a, locked)
  BY DEF LockInv, StackInv, Top
<1>6. a.base = "on"
  BY <1>1, <1>5 DEF Runs, On
<1>7. Interrupted(stack[1], a)
  <2>1. ints = TRUE
    BY <1>1, <1>5 DEF Runs
  <2>2. Head(stack) = stack[1]
    BY <1>4
  <2>3. QED
    BY <1>5, <2>1, <2>2, Zenon DEF Interrupted, Top
<1> DEFINE f == Fresh("isr", "off")
           c == Context("isr", code)
<1>8. f \in States /\ f.who = "isr" /\ f.held = {} /\ f.depth = 0 /\ f.base = "off" /\ "isr" \in Who
  BY FreshState DEF Who
<1>9. Takes(code, f, f)
  BY HandlersTyped
<1>10. FALSE \in BOOLEAN /\ (FALSE <=> "off" = "on")
  OBVIOUS
<1>11. c \in Contexts /\ Runs(c, f, FALSE)
  BY <1>8, <1>9, <1>10, RunsFresh, Zenon
<1>12. stack' = <<c>> \o stack
  BY <1>2
<1> HIDE DEF c, f
<1>13. Runs(c, f, ints')
  BY <1>1, <1>11, Zenon
<1>14. Under(stack, f, locked')
  <2>1. CASE a.who = "main"
    <3>1. Len(Tail(stack)) = 0 /\ locked = a.held
      BY <1>5, <2>1 DEF Under
    <3>2. Len(stack) = 1
      BY <1>4, <3>1
    <3>3. locked' = f.held \cup a.held
      BY <1>1, <1>8, <3>1
    <3>4. QED
      BY <1>7, <1>8, <2>1, <3>2, <3>3 DEF Under
  <2>2. CASE a.who # "main"
    <3>1. a.who = "panic" /\ Len(Tail(stack)) = 1 /\ Tail(stack)[1].who = "main"
      BY <1>5, <1>6, <2>2 DEF Under
    <3>2. Len(stack) = 2 /\ Tail(stack)[1] = stack[2]
      <4>1. Len(Tail(stack)) > 0
        BY <3>1
      <4>2. QED
        BY <1>4, <3>1, <4>1, TailSecond
    <3>3. QED
      BY <1>7, <1>8, <3>1, <3>2, Zenon DEF Under
  <2>3. QED
    BY <2>1, <2>2
<1>15. StackInv'
  BY <1>4, <1>11, <1>12, <1>13, <1>14, Pushed
<1>16. QED
  BY <1>3, <1>15 DEF LockInv

\* The kind of a context is the kind of its state.
LEMMA WhoIsWho ==
  ASSUME LockInv, ~Panicking
  PROVE  /\ stack[1].who \in {"main", "isr"}
         /\ \A a : Runs(Top, a, ints) => a.who \in {"main", "isr"}
<1>1. stack \in Seq(Contexts) /\ stack # <<>>
  BY DEF LockInv, StackInv
<1>2. stack[1].who # "panic" /\ stack[1] = Top /\ stack[1] \in Contexts
  BY <1>1 DEF Panicking, Top
<1>3. QED
  BY <1>2 DEF Runs, Contexts, Who

\* Something fails for the first time.
LEMMA FailKeeps ==
  ASSUME LockInv, Fail
  PROVE  LockInv'
<1>1. ~Panicking /\ PanicOn(stack)
  BY DEF Fail
<1>2. ints' \in BOOLEAN /\ (ints' => ints)
  <2>1. ints' \in {ints, FALSE}
    BY Zenon DEF Fail
  <2>2. CASE ints' = ints
    BY <2>2 DEF LockInv, FlagInv
  <2>3. CASE ints' = FALSE
    BY <2>3, Zenon
  <2>4. QED
    BY <2>1, <2>2, <2>3, Zenon
<1>3. FlagInv' /\ \E fits \in BOOLEAN, n \in Nat :
                    stack' = <<Context("panic", panic(fits, n))>> \o stack
  BY <1>1, <1>2, PanicFlags, Zenon
<1>4. PICK fits \in BOOLEAN, n \in Nat :
        stack' = <<Context("panic", panic(fits, n))>> \o stack
  BY <1>3
<1>5. stack \in Seq(Contexts) /\ stack # <<>>
  BY DEF LockInv, StackInv
<1>6. PICK a : Runs(Top, a, ints) /\ Under(Tail(stack), a, locked)
  BY DEF LockInv, StackInv, Top
<1>7. a.who \in {"main", "isr"} /\ Top = stack[1] /\ stack[1].who = a.who
  BY <1>1, <1>5, <1>6, WhoIsWho DEF Runs, Top
<1> DEFINE base == IF ints' THEN "on" ELSE "off"
           f == Fresh("panic", base)
           c == Context("panic", panic(fits, n))
<1>8. base \in {"on", "off"} /\ (ints' <=> base = "on") /\ "panic" \in Who
  BY DEF Who
<1> HIDE DEF base
<1>9. f \in States /\ f.who = "panic" /\ f.held = {} /\ f.depth = 0 /\ f.base = base
  BY <1>8, FreshState
<1>10. Takes(panic(fits, n), f, f)
  BY <1>8, PanicTyped
<1>11. c \in Contexts /\ Runs(c, f, ints')
  BY <1>2, <1>8, <1>9, <1>10, RunsFresh
<1>12. stack' = <<c>> \o stack
  BY <1>4
<1> HIDE DEF c, f
<1>13. Under(stack, f, locked')
  <2>1. CASE a.who = "main"
    <3>1. Len(Tail(stack)) = 0
      BY <1>6, <2>1 DEF Under
    <3>2. Len(stack) = 1
      BY <1>5, <3>1
    <3>3. QED
      BY <1>7, <1>9, <2>1, <3>2 DEF Under
  <2>2. CASE a.who = "isr"
    <3>1. base = "off"
      BY <1>2, <1>6, <1>8, <2>2 DEF Under, Runs, On
    <3>2. Len(Tail(stack)) = 1 /\ Tail(stack)[1].who = "main"
      <4>1. ASSUME Len(Tail(stack)) = 2, Tail(stack)[1].who = "panic" PROVE FALSE
        <5>1. Len(Tail(stack)) > 0
          BY <4>1
        <5>2. Tail(stack)[1] = stack[2] /\ 2 \in DOMAIN stack
          BY <1>5, <5>1, TailSecond, Zenon
        <5>3. QED
          BY <1>1, <4>1, <5>2, Zenon DEF Panicking
      <4>2. QED
        BY <1>6, <2>2, <4>1, UnderHandler, Zenon
    <3>3. Len(stack) = 2 /\ Tail(stack)[1] = stack[2]
      BY <1>5, <3>2
    <3>4. QED
      BY <1>7, <1>9, <2>2, <3>1, <3>2, <3>3, Zenon DEF Under
  <2>3. QED
    BY <1>7, <2>1, <2>2
<1>14. StackInv'
  BY <1>5, <1>11, <1>12, <1>13, Pushed
<1>15. QED
  BY <1>3, <1>14 DEF LockInv
-----------------------------------------------------------------------------
(* Theorems *)

LEMMA LockInvInit == Init => LockInv
<1> SUFFICES ASSUME Init PROVE LockInv
  OBVIOUS
<1>1. PICK has_apic \in BOOLEAN : stack = <<Context("main", Boot(has_apic))>>
  BY DEF Init
<1> DEFINE c == Context("main", Boot(has_apic))
           f == Fresh("main", "off")
           e == Fresh("main", "on")
<1>2. f.who = "main" /\ f.held = {} /\ e \in States /\ e.held = {} /\ e.depth = 0 /\ "main" \in Who
  BY FreshState DEF Who
<1>3. Takes(Boot(has_apic), f, e)
  BY BootTyped
<1>4. FALSE \in BOOLEAN /\ (FALSE <=> "off" = "on")
  OBVIOUS
<1>5. c \in Contexts /\ Runs(c, f, FALSE)
  BY <1>2, <1>3, <1>4, RunsFresh, Zenon
<1> HIDE DEF f, e
<1>6. stack = <<c>>
  BY <1>1
<1> HIDE DEF c
<1>7. stack \in Seq(Contexts) /\ stack # <<>> /\ Head(stack) = c /\ Len(Tail(stack)) = 0
  BY <1>5, <1>6
<1>8. Runs(Head(stack), f, ints)
  BY <1>5, <1>7, Zenon DEF Init
<1>9. Under(Tail(stack), f, locked)
  BY <1>2, <1>7 DEF Init, Under
<1>10. FlagInv
  <2>1. {ints, active, heap, room, clean} \subseteq BOOLEAN
    BY Zenon DEF Init
  <2>2. locked \subseteq Locks /\ intact \in 0..WALK /\ report \in Reports
    BY LimitAssumption DEF Init, Reports
  <2>3. QED
    BY <2>1, <2>2 DEF FlagInv
<1>11. QED
  BY <1>7, <1>8, <1>9, <1>10 DEF LockInv, StackInv

LEMMA LockInvNext == LockInv /\ [Next]_vars => LockInv'
<1> SUFFICES ASSUME LockInv, [Next]_vars PROVE LockInv'
  OBVIOUS
<1>1. CASE Lock \/ Unlock \/ Cli \/ Restore \/ Sti \/ Activate \/ Heap
           \/ Printed("reason") \/ Printed("all")
  BY <1>1, ExecuteKeeps
<1>2. CASE Iret
  BY <1>2, IretKeeps
<1>3. CASE Send
  BY <1>3, SendKeeps
<1>4. CASE PanicAgain
  BY <1>4, PanicAgainKeeps
<1>5. CASE WalkFault
  BY <1>5, WalkFaultKeeps
<1>6. CASE Call
  BY <1>6, CallKeeps
<1>7. CASE Interrupt
  BY <1>7, InterruptKeeps
<1>8. CASE Fail
  BY <1>8, FailKeeps
<1>9. CASE UNCHANGED vars
  BY <1>9 DEF vars, LockInv, StackInv, FlagInv
<1>10. CASE Spin \/ HltLoop
  BY <1>9, <1>10 DEF Spin, HltLoop
<1>11. QED
  BY <1>1, <1>2, <1>3, <1>4, <1>5, <1>6, <1>7, <1>8, <1>9, <1>10 DEF Next, Step

\* What every context that will still run has left to do is typed: it takes only
\* locks that it does not hold, gives back what it took, masks interrupts while
\* it holds a lock of the handlers, and ends with nothing held.
THEOREM LockInvariant == Spec => []LockInv
BY LockInvInit, LockInvNext, PTL DEF Spec

LEMMA LockInvType == LockInv => TypeOK
<1> SUFFICES ASSUME LockInv PROVE TypeOK
  OBVIOUS
<1>1. stack \in Seq(Contexts) /\ stack # <<>>
  BY DEF LockInv, StackInv
<1>2. PICK a : Runs(Top, a, ints) /\ Under(Tail(stack), a, locked)
  BY DEF LockInv, StackInv, Top
<1> DEFINE rest == Tail(stack)
           n == Len(rest)
<1>3. n \in Nat /\ Len(stack) = n + 1 /\ stack[1].who = a.who /\ DOMAIN stack = 1..n + 1
  BY <1>1, <1>2, TailType DEF Runs, Top
<1>4. n > 0 => rest[1] = stack[2]
  BY <1>1
<1>5. n > 1 => rest[2] = stack[3]
  BY <1>1
<1>6. /\ n \in 0..2
      /\ n = 0 => stack[1].who = "main"
      /\ n = 1 => stack[2].who = "main"
      /\ n = 2 => /\ stack[3].who = "main"
                 /\ {stack[1].who, stack[2].who} = {"isr", "panic"}
  <2>1. CASE a.who = "main"
    BY <1>2, <1>3, <2>1 DEF Under
  <2>2. CASE a.who = "panic"
    BY <1>2, <1>3, <1>4, <1>5, <2>2 DEF Under
  <2>3. CASE a.who = "isr"
    <3>1. \/ n = 1 /\ rest[1].who = "main"
          \/ n = 2 /\ rest[1].who = "panic" /\ rest[2].who = "main"
      BY <1>2, <2>3, UnderHandler, Zenon
    <3>2. QED
      BY <1>3, <1>4, <1>5, <2>3, <3>1
  <2>4. QED
    BY <1>2, <2>1, <2>2, <2>3 DEF Under
<1> HIDE DEF n, rest
<1>7. Len(stack) \in 1..3 /\ stack[Len(stack)].who = "main"
  BY <1>3, <1>6
<1>8. \A i, j \in DOMAIN stack : stack[i].who = "isr" /\ stack[j].who = "isr" => i = j
  <2> SUFFICES ASSUME NEW i \in 1..n + 1, NEW j \in 1..n + 1,
                      stack[i].who = "isr", stack[j].who = "isr"
               PROVE  i = j
    BY <1>3, <1>6
  <2>1. i # n + 1 /\ j # n + 1
    BY <1>6
  <2>2. n = 2 => ~(stack[1].who = "isr" /\ stack[2].who = "isr")
    BY <1>6
  <2>3. QED
    BY <1>6, <2>1, <2>2
<1>9. QED
  BY <1>7, <1>8 DEF TypeOK, LockInv, FlagInv, Reports

\* Contexts stack up to three levels, and handlers run one at a time although
\* they disable and restore interrupts themselves, for every number of polls and
\* of frames walked.
THEOREM HandlersOneAtATime == Spec => []TypeOK
BY LockInvariant, LockInvType, PTL

LEMMA LockInvFree == LockInv => NobodySpins
<1> SUFFICES ASSUME LockInv, ~Panicking, Top.todo # <<>>, Op.op = "lock"
             PROVE  Op.lock \notin locked
  BY DEF NobodySpins
<1>1. PICK a : Runs(Top, a, ints) /\ Under(Tail(stack), a, locked)
  BY DEF LockInv, StackInv, Top
<1>2. a.who \in {"main", "isr"} /\ a \in States
  BY <1>1, WhoIsWho, SMTT(30) DEF Runs
<1>3. PICK b \in States : Legal(Op, a, b)
  BY <1>1, TakesHead DEF Runs, Op
<1>4. Op.lock \notin a.held /\ Op.lock \in b.held /\ b.who = a.who
  BY <1>3 DEF Legal
<1>5. CASE a.who = "main"
  BY <1>1, <1>4, <1>5 DEF Under
<1>6. CASE a.who = "isr"
  <2>1. Op.lock \in HandlerLocks
    BY <1>3, <1>4, <1>6 DEF States
  <2>2. Len(Tail(stack)) = 1
    <3>1. SUFFICES ASSUME Len(Tail(stack)) = 2 PROVE FALSE
      BY <1>1, <1>6 DEF Under
    <3>2. \E c : Interrupted(Tail(stack)[1], c) /\ c.who = "panic"
      BY <1>1, <1>6, <3>1 DEF Under
    <3>3. Tail(stack)[1].who = "panic"
      BY <3>2, Zenon DEF Interrupted, Runs
    <3>4. stack \in Seq(Contexts) /\ stack # <<>>
      BY DEF LockInv, StackInv
    <3>5. Tail(stack)[1] = stack[2] /\ 2 \in DOMAIN stack
      BY <3>1, <3>4, TailSecond
    <3>6. QED
      BY <3>3, <3>5 DEF Panicking
  <2>3. PICK c : Interrupted(Tail(stack)[1], c) /\ locked = a.held \cup c.held
    BY <1>1, <1>6, <2>2 DEF Under
  <2>4. c.held \cap HandlerLocks = {}
    BY <2>3 DEF Interrupted, Runs, States
  <2>5. QED
    BY <1>4, <2>1, <2>3, <2>4
<1>7. QED
  BY <1>2, <1>5, <1>6

\* Until something fails, no context ever finds the lock taken that it is about
\* to take: whoever holds a lock that a handler takes has interrupts disabled.
THEOREM LocksAreFree == Spec => []NobodySpins
BY LockInvariant, LockInvFree, PTL
=============================================================================
