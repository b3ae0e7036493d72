--------------------------------- MODULE Trace ---------------------------------
(***************************************************************************)
(* The trace ring of trace.rs.  record and dump_last run with interrupts   *)
(* disabled, so each is one step.  Who calls them, and when, is in module  *)
(* Monitor.                                                                *)
(***************************************************************************)
EXTENDS Naturals, Sequences

CONSTANTS
  BUFFER_SIZE, \* slots of the ring
  Events,      \* what is recorded
  MaxEvents,   \* bound: events recorded in a behaviour
  Requests     \* the arguments of dump_last

ASSUME TraceAssumption ==
  BUFFER_SIZE \in Nat \ {0} /\ MaxEvents \in Nat /\ Requests \subseteq Nat

Zeroed == "zeroed"
ASSUME ZeroedIsNoEvent == Zeroed \notin Events

VARIABLES
  entries, write_idx, overflow_count, initialized,
  recorded, \* history: every event recorded
  request,  \* the last argument of dump_last
  dump      \* the entries it printed

vars == <<entries, write_idx, overflow_count, initialized, recorded, request, dump>>

Init ==
  /\ entries = [i \in 0..BUFFER_SIZE - 1 |-> Zeroed]
  /\ write_idx = 0
  /\ overflow_count = 0
  /\ initialized = FALSE
  /\ recorded = <<>>
  /\ request = 0
  /\ dump = <<>>

init ==
  /\ ~initialized
  /\ initialized' = TRUE
  /\ UNCHANGED <<entries, write_idx, overflow_count, recorded, request, dump>>

Slot(i) == i % BUFFER_SIZE

Overflow(i) == IF Slot(i) = 0 THEN 1 ELSE 0

record(e) ==
  /\ initialized
  /\ Len(recorded) < MaxEvents
  /\ write_idx' = write_idx + 1
  /\ overflow_count' = overflow_count + Overflow(write_idx)
  /\ entries' = [entries EXCEPT ![Slot(write_idx)] = e]
  /\ recorded' = Append(recorded, e)
  /\ UNCHANGED <<initialized, request, dump>>

\* Before init nothing is recorded.
RecordNothing == ~initialized /\ UNCHANGED vars

\* Mutant: the range starts one entry late.
Start_late(n) == IF write_idx >= n THEN write_idx - n + 1 ELSE 0

Start(n) == IF write_idx >= n THEN write_idx - n ELSE 0

dump_last(n) ==
  /\ request' = n
  /\ dump' = [k \in 1..write_idx - Start(n) |-> entries[(Start(n) + k - 1) % BUFFER_SIZE]]
  /\ UNCHANGED <<entries, write_idx, overflow_count, initialized, recorded>>

-----------------------------------------------------------------------------
(* Properties *)

Last(n, s) == SubSeq(s, IF Len(s) >= n THEN Len(s) - n + 1 ELSE 1, Len(s))

\* A dump of at most BUFFER_SIZE events prints the last events recorded, oldest
\* first: no slot that was never written, none overwritten meanwhile.
DumpsTheLast ==
  [][\A n \in Requests : n <= BUFFER_SIZE /\ dump_last(n) => dump' = Last(n, recorded)]_vars
=============================================================================
