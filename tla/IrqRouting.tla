------------------------------ MODULE IrqRouting ------------------------------
(***************************************************************************)
(* Interrupt controllers during and after boot: lib.rs init and main.rs    *)
(* init_apic, ACPI detection and set-up (apic/mod.rs, apic/lapic.rs,       *)
(* apic/ioapic.rs), the legacy PICs (pic.rs), and the end of the two       *)
(* device handlers (interrupts.rs), which has to acknowledge the           *)
(* interrupt to the controller it came from.                               *)
(*                                                                         *)
(* The controllers are hardware: an edge of a device is latched by the PIC *)
(* even on a masked line, and by the local APIC when the I/O APIC has an   *)
(* entry for the pin that names this core.  The latches wait until         *)
(* interrupts are enabled.                                                 *)
(***************************************************************************)
EXTENDS Integers, Sequences, FiniteSetsExt

CONSTANTS Machines,      \* what ACPI tables and wiring the kernel may meet
          FirmwareMasks, \* PIC lines the firmware may have left masked
          FirmwareDests, \* destinations it may have left in the I/O APIC
          MAX_IOAPICS, MAX_OVERRIDES,
          None

Irq == [timer |-> 0, keyboard |-> 1]
Devices == DOMAIN Irq
PIC_1_OFFSET == 32
Vector(d) == PIC_1_OFFSET + Irq[d]   \* InterruptIndex
IDT == {Vector(d) : d \in Devices}
NoRoute == 0

ASSUME LimitAssumption ==
  /\ MAX_IOAPICS \in Nat \ {0} /\ MAX_OVERRIDES \in Nat
  /\ None \notin Nat /\ None \notin [vector : IDT, at : {"body", "eoi"}]
  /\ \A mask \in FirmwareMasks : mask \subseteq 0..15

\* The MADT entries that override the ISA line of a device.
OverridesOf(m, d) ==
  {i \in DOMAIN m.madt : m.madt[i].kind = "override" /\ m.madt[i].source = Irq[d]}

\* A machine's MADT tells the truth: a device is wired to the GSI of the one
\* override of its line, or to the line's own number if there is none.  The
\* devices have lines of their own, anywhere among the GSIs, and the I/O APIC has
\* at most 24 pins.
ASSUME MachineAssumption ==
  \A m \in Machines :
    /\ DOMAIN m.madt = 1..Len(m.madt) /\ Len(m.madt) \in Nat
    /\ \A i \in DOMAIN m.madt : m.madt[i].kind = "ioapic" =>
         m.madt[i].gsi_base \in Nat /\ m.madt[i].max_redirs \in 0..23
    /\ Cardinality({i \in DOMAIN m.madt : m.madt[i].kind = "override"}) <= MAX_OVERRIDES
    /\ \A d \in Devices :
         /\ m.wires[d] \in Nat
         /\ \/ OverridesOf(m, d) = {} /\ m.wires[d] = Irq[d]
            \/ \E i \in DOMAIN m.madt :
                 OverridesOf(m, d) = {i} /\ m.wires[d] = m.madt[i].gsi
    /\ m.wires["timer"] # m.wires["keyboard"]

VARIABLES
  machine, \* the machine booted on
  pc,      \* where kernel_main is
  ints,    \* RFLAGS.IF
  pic,     \* the PICs: offset, mask, irr (latched), isr (in service)
  redir,   \* redirection table of the first I/O APIC: pin |-> vector and dest
  lapic,   \* the local APIC: enabled, irr, isr
  eoi_ptr, \* LAPIC_EOI_PTR is set
  apic,    \* APIC is Some
  full,    \* the keyboard controller holds a scancode
  fresh,   \* devices with an edge that no handler has been started for
  serving  \* the interrupt being handled: its vector and the handler's step

vars == <<machine, pc, ints, pic, redir, lapic, eoi_ptr, apic, full, fresh, serving>>
state == <<eoi_ptr, apic>>
-----------------------------------------------------------------------------
(* ACPI tables *)

\* parse_rsdp: the MADT is looked for in the XSDT if there is one, else in the
\* RSDT; both are searched for the first table with the signature "APIC".
parse_rsdp(m) ==
  LET root == IF m.revision >= 2 /\ m.xsdt # None THEN m.xsdt ELSE m.rsdt
  IN  m.signature /\ \E i \in DOMAIN root : root[i] = "APIC"

\* Where the first n entries of a kind are; further ones are ignored.
Entries(madt, kind, n) ==
  {i \in DOMAIN madt : /\ madt[i].kind = kind
                       /\ Cardinality({j \in 1..i : madt[j].kind = kind}) <= n}

parse_madt(madt) ==
  [ioapics |-> Entries(madt, "ioapic", MAX_IOAPICS),
   overrides |-> Entries(madt, "override", MAX_OVERRIDES)]

\* Mutant: the first override of the table is not applied.
build_irq_gsi_map_skips_first(overrides) ==
  [irq \in 0..15 |->
     LET of == {i \in overrides :
                  machine.madt[i].source = irq /\ \E earlier \in overrides : earlier < i}
     IN  IF of = {} THEN irq ELSE machine.madt[Max(of)].gsi]

\* Identity, with the overrides applied in order: the last one of a line counts.
build_irq_gsi_map(overrides) ==
  [irq \in 0..15 |->
     LET of == {i \in overrides : machine.madt[i].source = irq}
     IN  IF of = {} THEN irq ELSE machine.madt[Max(of)].gsi]

info == parse_madt(machine.madt)

\* detect: a MADT with at least one I/O APIC.
detect == parse_rsdp(machine) /\ info.ioapics # {}
-----------------------------------------------------------------------------
(* Boot *)

Goto(from, to) == pc = from /\ pc' = to
Quiet == UNCHANGED <<machine, full, fresh, serving>>

Init ==
  /\ machine \in Machines
  /\ pc = "init"
  /\ ints = FALSE
  /\ \E mask \in FirmwareMasks :
       pic = [offset |-> 8, mask |-> mask, irr |-> {}, isr |-> {}]
  /\ \E dest \in FirmwareDests :
       redir = [pin \in 0..23 |-> [vector |-> NoRoute, dest |-> dest]]
  /\ lapic = [enabled |-> FALSE, irr |-> {}, isr |-> {}]
  /\ eoi_ptr = FALSE
  /\ apic = FALSE
  /\ full = FALSE
  /\ fresh = {}
  /\ serving = None

\* Mutant: the masks are restored and the offsets are not programmed.
initialize_keeps_offset ==
  /\ Goto("init", "rsdp")
  /\ pic' = [pic EXCEPT !.irr = {}, !.isr = {}]
  /\ Quiet
  /\ UNCHANGED <<ints, redir, lapic, state>>

\* ChainedPics::initialize: ICW1 drops what is latched, ICW2 sets the offset,
\* the masks found are put back.
initialize ==
  /\ Goto("init", "rsdp")
  /\ pic' = [pic EXCEPT !.offset = PIC_1_OFFSET, !.irr = {}, !.isr = {}]
  /\ Quiet
  /\ UNCHANGED <<ints, redir, lapic, state>>

\* init_apic without RSDP, or when detect finds nothing: PIC fallback.
PicFallback ==
  /\ Goto("rsdp", "running")
  /\ ~machine.rsdp \/ ~detect
  /\ ints' = TRUE
  /\ Quiet
  /\ UNCHANGED <<pic, redir, lapic, state>>

Detected ==
  /\ Goto("rsdp", "lapic")
  /\ machine.rsdp /\ detect
  /\ ints' = FALSE
  /\ Quiet
  /\ UNCHANGED <<pic, redir, lapic, state>>

Panic == pc' = "panicked" /\ UNCHANGED <<ints, pic, redir, lapic, state>> /\ Quiet

ioapic == machine.madt[Min(info.ioapics)]

\* What Lapic::new, id and version assert.
LapicPresent(l) == l.base # 0 /\ l.id % 256 < 16 /\ l.version % 256 > 0

\* apic::init up to Lapic::enable, which reads back whether the bit has stuck; the
\* first I/O APIC of the MADT must have an address.
EnableLapic ==
  /\ pc = "lapic"
  /\ IF ioapic.addr # 0 /\ LapicPresent(machine.lapic) /\ machine.lapic.enables
       THEN /\ pc' = "ioapic"
            /\ lapic' = [lapic EXCEPT !.enabled = TRUE]
            /\ Quiet
            /\ UNCHANGED <<ints, pic, redir, state>>
       ELSE Panic

\* IoApic::new, with that I/O APIC.
NewIoApic ==
  /\ pc = "ioapic"
  /\ IF ioapic.max_redirs > 0
       THEN pc' = "timer" /\ Quiet /\ UNCHANGED <<ints, pic, redir, lapic, state>>
       ELSE Panic

Gsi(d) == build_irq_gsi_map(info.overrides)[Irq[d]]

\* The argument of set_irq: the offset of the line, cut to 8 bits.
PinArgument(d) == (Gsi(d) - ioapic.gsi_base) % 256

\* IoApic::set_irq up to the low half of the entry: the pin now raises
\* interrupts, at the destination the high half still names.
WriteLow(d, from, to) ==
  /\ pc = from
  /\ IF Gsi(d) >= ioapic.gsi_base /\ PinArgument(d) <= ioapic.max_redirs
       THEN /\ pc' = to
            /\ redir' = [redir EXCEPT ![PinArgument(d)].vector = Vector(d)]
            /\ Quiet
            /\ UNCHANGED <<ints, pic, lapic, state>>
       ELSE Panic

\* The high half: destination 0.
WriteHigh(d, from, to) ==
  /\ Goto(from, to)
  /\ redir' = [redir EXCEPT ![PinArgument(d)].dest = 0]
  /\ Quiet
  /\ UNCHANGED <<ints, pic, lapic, state>>

\* The EOI pointer and the runtime state are stored; init answers true.
Activate ==
  /\ Goto("activate", "mask")
  /\ eoi_ptr' = TRUE
  /\ apic' = TRUE
  /\ Quiet
  /\ UNCHANGED <<ints, pic, redir, lapic>>

\* Mutant: only the first PIC line is masked.
mask_all_timer_only ==
  /\ Goto("mask", "enable")
  /\ pic' = [pic EXCEPT !.mask = @ \cup {0}]
  /\ Quiet
  /\ UNCHANGED <<ints, redir, lapic, state>>

mask_all ==
  /\ Goto("mask", "enable")
  /\ pic' = [pic EXCEPT !.mask = 0..15]
  /\ Quiet
  /\ UNCHANGED <<ints, redir, lapic, state>>

EnableInterrupts ==
  /\ Goto("enable", "running")
  /\ ints' = TRUE
  /\ Quiet
  /\ UNCHANGED <<pic, redir, lapic, state>>

\* hlt_loop after a panic.
HltLoop == pc = "panicked" /\ UNCHANGED vars

Boot ==
  \/ initialize \/ PicFallback \/ Detected \/ EnableLapic
  \/ NewIoApic
  \/ WriteLow("timer", "timer", "timer_high")
  \/ WriteHigh("timer", "timer_high", "keyboard")
  \/ WriteLow("keyboard", "keyboard", "keyboard_high")
  \/ WriteHigh("keyboard", "keyboard_high", "activate")
  \/ Activate \/ mask_all \/ EnableInterrupts
-----------------------------------------------------------------------------
(* Hardware *)

\* The pin of the first I/O APIC a device is wired to, or None.
Pin(d) ==
  LET pin == machine.wires[d] - ioapic.gsi_base
  IN  IF info.ioapics # {} /\ pin \in 0..ioapic.max_redirs THEN pin ELSE None

\* The I/O APIC sends an edge of d to this core with the vector.
Sends(d, vector) ==
  Pin(d) # None /\ redir[Pin(d)] = [vector |-> vector, dest |-> machine.lapic.id]

\* The line of a device rises.
Edge(d) ==
  /\ fresh' = fresh \cup {d}
  /\ pic' = [pic EXCEPT !.irr = @ \cup {Irq[d]}]
  /\ lapic' = IF lapic.enabled
                THEN [lapic EXCEPT !.irr = @ \cup {vector \in IDT : Sends(d, vector)}]
                ELSE lapic
  /\ UNCHANGED <<machine, pc, ints, redir, state, serving>>

Tick == Edge("timer") /\ UNCHANGED full

\* The keyboard controller raises its line when its output register fills, and
\* not again before the register is read.
Key == ~full /\ full' = TRUE /\ Edge("keyboard")

\* What the controllers would deliver: nothing while an interrupt of the same
\* or of a higher priority is in service.
PicPending == IF pic.isr = {} THEN pic.irr \ pic.mask ELSE {}
LapicPending == IF lapic.isr = {} THEN lapic.irr ELSE {}

Take(vector) ==
  /\ ints /\ serving = None
  /\ ints' = FALSE
  /\ serving' = [vector |-> vector, at |-> "body"]
  /\ fresh' = {d \in fresh : Vector(d) # vector}
  /\ UNCHANGED <<machine, pc, redir, state, full>>

\* The PIC prefers the lower line, the local APIC the higher vector.
PicDelivers(irq) ==
  /\ irq \in PicPending /\ \A other \in PicPending : irq <= other
  /\ Take(pic.offset + irq)
  /\ pic' = [pic EXCEPT !.irr = @ \ {irq}, !.isr = @ \cup {irq}]
  /\ UNCHANGED lapic

LapicDelivers(vector) ==
  /\ vector \in LapicPending /\ \A other \in LapicPending : vector >= other
  /\ Take(vector)
  /\ lapic' = [lapic EXCEPT !.irr = @ \ {vector}, !.isr = @ \cup {vector}]
  /\ UNCHANGED pic

Deliver(d) == PicDelivers(Irq[d]) \/ LapicDelivers(Vector(d))
-----------------------------------------------------------------------------
(* Handlers *)

\* The keyboard handler reads the scancode; the timer handler counts.
Body ==
  /\ serving # None /\ serving.at = "body"
  /\ serving' = [serving EXCEPT !.at = "eoi"]
  /\ full' = IF serving.vector = Vector("keyboard") THEN FALSE ELSE full
  /\ UNCHANGED <<machine, pc, ints, pic, redir, lapic, state, fresh>>

\* apic::end_of_interrupt asserts that the EOI pointer is set.
lapic_end_of_interrupt ==
  /\ lapic' = IF eoi_ptr THEN [lapic EXCEPT !.isr = {}] ELSE lapic
  /\ pc' = IF eoi_ptr THEN pc ELSE "panicked"
  /\ UNCHANGED pic

\* Mutant: a vector the second PIC does not handle is not acknowledged.
notify_second_only == UNCHANGED <<pic, lapic, pc>>

\* notify_end_of_interrupt: both vectors belong to the first PIC.
notify_end_of_interrupt ==
  /\ pic' = [pic EXCEPT !.isr = {irq \in @ : \E higher \in @ : higher < irq}]
  /\ UNCHANGED <<lapic, pc>>

\* Mutant: the acknowledgement always goes to the PIC.
AcknowledgePic == notify_end_of_interrupt

\* is_active chooses the controller.
Acknowledge == IF apic THEN lapic_end_of_interrupt ELSE notify_end_of_interrupt

EndOfInterrupt ==
  /\ serving # None /\ serving.at = "eoi"
  /\ Acknowledge
  /\ ints' = TRUE
  /\ serving' = None
  /\ UNCHANGED <<machine, redir, state, full, fresh>>
-----------------------------------------------------------------------------
Next ==
  \/ Boot \/ HltLoop
  \/ Tick \/ Key
  \/ \E d \in Devices : Deliver(d)
  \/ Body \/ EndOfInterrupt

\* Boot code and handlers keep executing, and the core takes an interrupt that
\* is the most urgent one again and again: it looks for one after every
\* instruction.
Fairness ==
  /\ WF_vars(Boot)
  /\ WF_vars(Body)
  /\ WF_vars(EndOfInterrupt)
  /\ \A d \in Devices : SF_vars(Deliver(d))

Spec == Init /\ [][Next]_vars /\ Fairness
-----------------------------------------------------------------------------
(* Properties *)

\* The controllers only ever hold interrupts of the two devices, and every
\* interrupt taken has its entry in the IDT (before initialize IRQ 0 would be a
\* double fault).
TypeOK ==
  /\ pic.mask \subseteq 0..15
  /\ pic.irr \subseteq {0, 1} /\ pic.isr \subseteq {0, 1}
  /\ redir \in [0..23 -> [vector : IDT \cup {NoRoute}, dest : {0} \cup FirmwareDests]]
  /\ lapic.irr \subseteq IDT /\ lapic.isr \subseteq IDT
  /\ fresh \subseteq Devices
  /\ full \in BOOLEAN
  /\ serving # None => serving.vector \in IDT

\* Between handlers nothing is in service: each handler has acknowledged to the
\* controller the interrupt came from, so that controller delivers the next.
NothingStuckInService == serving = None => pic.isr = {} /\ lapic.isr = {}

\* The lines are within 256 of the first line of the I/O APIC, so that init cuts
\* nothing off their offsets when it makes them bytes.
OffsetsFit ==
  info.ioapics # {} => \A d \in Devices : machine.wires[d] - ioapic.gsi_base < 256

\* An interrupt of d waits in a controller that forwards it.
Latched(d) == Irq[d] \in pic.irr \ pic.mask \/ Vector(d) \in lapic.irr

\* An edge starts at most one handler, and that of its device, although both
\* controllers latch it while apic::init has routed the line and mask_all has not
\* yet masked the PIC.  (A line whose offset init cuts gets the pin of another.)
EdgesDeliveredOnce == OffsetsFit => \A d \in Devices : Latched(d) => d \in fresh

\* Once the APIC is active each device's own pin sends its own vector to the
\* booting core, if that has APIC id 0, whatever overrides the MADT lists and
\* whatever the firmware left in the entries.  Where init cuts an offset to a byte
\* it accepts a line the I/O APIC does not serve, and nothing is promised.
RoutesMatchWiring ==
  OffsetsFit /\ apic /\ machine.lapic.id = 0 => \A d \in Devices : Sends(d, Vector(d))

\* A latched interrupt is handled once interrupts are on: no order of ticks,
\* keys and acknowledgements blocks a device, unless the other device's line
\* never pauses.
LatchedIsServed ==
  \A d \in Devices :
    (\A other \in Devices \ {d} : []<>(ints /\ ~Latched(other)))
      => ((ints /\ Latched(d)) ~> (serving # None /\ serving.vector = Vector(d)))
=============================================================================
