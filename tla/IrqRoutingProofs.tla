--------------------------- MODULE IrqRoutingProofs ---------------------------
(***************************************************************************)
(* For every machine whose MADT tells the truth, whatever masks and        *)
(* destinations its firmware left: the invariants of IrqRouting.           *)
(***************************************************************************)
EXTENDS IrqRouting, FiniteSetTheorems, WellFoundedInduction, TLAPS

-----------------------------------------------------------------------------
(* The inductive invariant *)

Points ==
  {"init", "rsdp", "lapic", "ioapic", "timer", "timer_high", "keyboard",
   "keyboard_high", "activate", "mask", "enable", "running", "panicked"}

TypeInv ==
  /\ machine \in Machines
  /\ pc \in Points
  /\ ints \in BOOLEAN
  /\ pic \in [offset : {8, PIC_1_OFFSET}, mask : SUBSET (0..15),
              irr : SUBSET {0, 1}, isr : SUBSET {0, 1}]
  /\ redir \in [0..23 -> [vector : IDT \cup {NoRoute}, dest : {0} \cup FirmwareDests]]
  /\ lapic \in [enabled : BOOLEAN, irr : SUBSET IDT, isr : SUBSET IDT]
  /\ eoi_ptr \in BOOLEAN /\ apic \in BOOLEAN /\ full \in BOOLEAN
  /\ fresh \subseteq Devices
  /\ serving # None => serving \in [vector : IDT, at : {"body", "eoi"}]

\* What boot has done by the time it reaches a point.
BootInv ==
  /\ pc # "init" => pic.offset = PIC_1_OFFSET
  /\ pc # "running" => ~ints /\ serving = None
  /\ apic => eoi_ptr /\ pc \in {"mask", "enable", "running"}
  /\ pc \in {"mask", "enable"} => apic
  /\ apic /\ pc \in {"enable", "running"} => pic.mask = 0..15
  /\ ~apic /\ pc \in {"init", "rsdp", "lapic", "running"} => ~lapic.enabled
  /\ ~lapic.enabled => lapic.irr = {} /\ lapic.isr = {}

\* One interrupt at a time, at the controller that is_active would choose.
ServiceInv ==
  /\ serving = None => pic.isr = {} /\ lapic.isr = {}
  /\ serving # None =>
       /\ ~ints
       /\ apic => pic.isr = {}
       /\ ~apic => lapic.isr = {} /\ \E irq \in {0, 1} : pic.isr = {irq}

\* The low half of the entry of d is written, then the high half.
LowWritten(d) ==
  apic \/ pc \in IF d = "timer" THEN {"timer_high", "keyboard", "keyboard_high", "activate"}
                               ELSE {"keyboard_high", "activate"}
HighWritten(d) ==
  apic \/ pc \in IF d = "timer" THEN {"keyboard", "keyboard_high", "activate"}
                               ELSE {"activate"}

\* From detection on there is an I/O APIC, and set_irq writes to pins it can have.
PinInv ==
  /\ apic \/ pc \in {"lapic", "ioapic", "timer", "keyboard"} => info.ioapics # {}
  /\ \A d \in Devices : LowWritten(d) => info.ioapics # {} /\ PinArgument(d) \in 0..23

\* Only the pin of a device raises its vector, and it does once it is written.
RouteInv ==
  OffsetsFit =>
    \A d \in Devices :
      /\ \A pin \in 0..23 : redir[pin].vector = Vector(d) => pin = Pin(d)
      /\ LowWritten(d) => Pin(d) \in 0..23 /\ redir[Pin(d)].vector = Vector(d)
      /\ HighWritten(d) => redir[Pin(d)].dest = 0
      /\ LowWritten(d) => Pin(d) = PinArgument(d)

IrqInv == TypeInv /\ BootInv /\ ServiceInv /\ PinInv /\ RouteInv /\ EdgesDeliveredOnce
-----------------------------------------------------------------------------
(* What the tables say *)

\* The two devices and their vectors.
LEMMA Vectors ==
  /\ Devices = {"timer", "keyboard"}
  /\ Irq["timer"] = 0 /\ Irq["keyboard"] = 1
  /\ Vector("timer") = 32 /\ Vector("keyboard") = 33
  /\ IDT = {32, 33} /\ PIC_1_OFFSET = 32 /\ NoRoute = 0
  BY DEF Devices, Irq, Vector, IDT, PIC_1_OFFSET, NoRoute

\* A set of naturals has a least element, so the first entry of a kind exists.
LEMMA LeastElement ==
  ASSUME NEW T, T \subseteq Nat, T # {}
  PROVE  Min(T) \in T
<1> DEFINE R == {ss \in Nat \X Nat : ss[1] < ss[2]}
<1>1. IsWellFoundedOn(R, Nat)
  BY NatLessThanWellFounded, Zenon DEF OpToRel
<1>2. \A x, y \in Nat : y < x => <<y, x>> \in R
  OBVIOUS
<1> HIDE DEF R
<1>3. PICK x \in T : \A y \in T : ~(<<y, x>> \in R)
  BY <1>1, WFMin, Zenon
<1>4. ASSUME NEW y \in T PROVE x <= y
  <2>1. x \in Nat /\ y \in Nat /\ ~(<<y, x>> \in R)
    BY <1>3
  <2>2. ~(y < x)
    BY <1>2, <2>1
  <2>3. QED
    BY <2>1, <2>2
<1>5. QED
  BY <1>4, Zenon DEF Min

\* detect keeps at least one I/O APIC, and the first one is an I/O APIC entry.
LEMMA IoApicType ==
  ASSUME machine \in Machines, info.ioapics # {}
  PROVE  ioapic.gsi_base \in Nat /\ ioapic.max_redirs \in 0..23
<1> DEFINE S == info.ioapics
<1>1. /\ S \subseteq DOMAIN machine.madt
      /\ \A i \in S : machine.madt[i].kind = "ioapic"
  BY DEF info, parse_madt, Entries
<1>2. DOMAIN machine.madt \subseteq Nat
  <2>1. DOMAIN machine.madt = 1..Len(machine.madt)
    BY MachineAssumption
  <2>2. QED
    BY <2>1
<1>3. Min(S) \in S
  <2>1. S \subseteq Nat /\ S # {}
    BY <1>1, <1>2
  <2> HIDE DEF S
  <2>2. QED
    BY <2>1, LeastElement, Zenon
<1>4. QED
  BY <1>1, <1>3, MachineAssumption, Zenon DEF ioapic

\* The table of overrides has room for all of them, so the map the kernel
\* builds agrees with the wiring.
LEMMA GsiIsWire ==
  ASSUME machine \in Machines, NEW d \in Devices
  PROVE  Gsi(d) = machine.wires[d]
<1> DEFINE madt == machine.madt
           all == {i \in DOMAIN madt : madt[i].kind = "override"}
<1>1. DOMAIN madt = 1..Len(madt) /\ Len(madt) \in Nat /\ Cardinality(all) <= MAX_OVERRIDES
  BY MachineAssumption
<1>2. IsFiniteSet(all) /\ Cardinality(all) \in Nat
  <2>1. IsFiniteSet(1..Len(madt)) /\ all \subseteq 1..Len(madt)
    BY <1>1, FS_Interval
  <2> HIDE DEF all
  <2>2. QED
    BY <2>1, FS_Subset, FS_CardinalityType, Zenon
<1>3. \A i \in all : Cardinality({j \in 1..i : madt[j].kind = "override"}) <= MAX_OVERRIDES
  <2> TAKE i \in all
  <2> DEFINE before == {j \in 1..i : madt[j].kind = "override"}
  <2>1. before \subseteq all
    BY <1>1
  <2> HIDE DEF before, all
  <2>2. Cardinality(before) <= Cardinality(all) /\ Cardinality(before) \in Nat
    BY <1>2, <2>1, FS_Subset, FS_CardinalityType
  <2>3. Cardinality(before) <= MAX_OVERRIDES
    BY <1>1, <1>2, <2>2, LimitAssumption
  <2>4. QED
    BY <2>3 DEF before
<1>4. info.overrides = all
  BY <1>3 DEF info, parse_madt, Entries
<1> DEFINE of == {i \in info.overrides : madt[i].source = Irq[d]}
<1>5. of = OverridesOf(machine, d)
  BY <1>4 DEF OverridesOf
<1>6. Irq[d] \in 0..15
  BY Vectors
<1>7. Gsi(d) = IF of = {} THEN Irq[d] ELSE madt[Max(of)].gsi
  BY <1>6, Zenon DEF Gsi, build_irq_gsi_map
<1> HIDE DEF of
<1>8. CASE OverridesOf(machine, d) = {} /\ machine.wires[d] = Irq[d]
  BY <1>5, <1>7, <1>8
<1>9. ASSUME NEW i \in DOMAIN madt, OverridesOf(machine, d) = {i}, machine.wires[d] = madt[i].gsi
      PROVE  Gsi(d) = machine.wires[d]
  <2>1. Max({i}) = i
    BY <1>1, <1>9 DEF Max
  <2>2. QED
    BY <1>5, <1>7, <1>9, <2>1
<1>10. QED
  BY <1>8, <1>9, MachineAssumption, Zenon

\* A pin set_irq accepts is one of the I/O APIC's.
LEMMA PinAccepted ==
  ASSUME machine \in Machines, info.ioapics # {}, NEW d \in Devices,
         PinArgument(d) <= ioapic.max_redirs
  PROVE  PinArgument(d) \in 0..23
<1> DEFINE base == ioapic.gsi_base
           top == ioapic.max_redirs
           wire == machine.wires[d]
<1>1. wire \in Nat
  BY MachineAssumption, Zenon
<1>2. base \in Nat /\ top \in 0..23 /\ Gsi(d) = wire
  BY GsiIsWire, IoApicType
<1>3. PinArgument(d) = (wire - base) % 256 /\ PinArgument(d) <= top
  BY <1>2 DEF PinArgument
<1> HIDE DEF base, top, wire
<1>4. QED
  BY ONLY <1>1, <1>2, <1>3

\* If its offset fits a byte, that is the pin of the device.
LEMMA PinWritten ==
  ASSUME machine \in Machines, info.ioapics # {}, OffsetsFit, NEW d \in Devices,
         Gsi(d) >= ioapic.gsi_base, PinArgument(d) <= ioapic.max_redirs
  PROVE  Pin(d) = PinArgument(d)
<1> DEFINE base == ioapic.gsi_base
           top == ioapic.max_redirs
           wire == machine.wires[d]
<1>1. wire \in Nat
  BY MachineAssumption, Zenon
<1>2. base \in Nat /\ top \in 0..23 /\ Gsi(d) = wire
  BY GsiIsWire, IoApicType
<1>3. PinArgument(d) = (wire - base) % 256 /\ PinArgument(d) <= top
  BY <1>2 DEF PinArgument
<1>4. wire >= base
  BY <1>2
<1>5. Pin(d) = IF wire - base \in 0..top THEN wire - base ELSE None
  BY DEF Pin
<1>6. wire - base < 256
  BY DEF OffsetsFit
<1> HIDE DEF base, top, wire
<1>7. wire - base \in 0..255
  BY ONLY <1>1, <1>2, <1>4, <1>6
<1>8. PinArgument(d) = wire - base
  BY ONLY <1>3, <1>7
<1>9. wire - base \in 0..top
  <2>1. wire - base <= top
    BY <1>3, <1>8
  <2>2. QED
    BY ONLY <1>2, <1>7, <2>1
<1>10. QED
  BY <1>5, <1>8, <1>9, Zenon

\* The two devices have pins of their own.
LEMMA PinsDiffer ==
  ASSUME machine \in Machines, NEW d \in Devices, NEW e \in Devices,
         Pin(d) # None, Pin(d) = Pin(e)
  PROVE  d = e
<1>1. info.ioapics # {}
  BY DEF Pin
<1> DEFINE base == ioapic.gsi_base
           x == machine.wires[d]
           y == machine.wires[e]
<1>2. Pin(d) = x - base /\ Pin(e) = y - base
  BY DEF Pin
<1>3. x \in Nat
  BY MachineAssumption, Zenon
<1>4. y \in Nat
  BY MachineAssumption, Zenon
<1>5. base \in Nat
  BY <1>1, IoApicType
<1>6. x = y => d = e
  <2>1. machine.wires["timer"] # machine.wires["keyboard"]
    BY MachineAssumption, Zenon
  <2>2. QED
    BY <2>1 DEF Devices, Irq
<1> HIDE DEF base, x, y
<1>7. x - base = y - base
  BY <1>2, Zenon
<1>8. x = y
  BY ONLY <1>3, <1>4, <1>5, <1>7
<1>9. QED
  BY <1>6, <1>8

\* An edge reaches the local APIC as the device's own vector, or not at all.
LEMMA SendsOwnVector ==
  ASSUME TypeInv, RouteInv, OffsetsFit, NEW d \in Devices, NEW vector \in IDT,
         Sends(d, vector)
  PROVE  vector = Vector(d)
<1>1. PICK e \in Devices : vector = Vector(e)
  BY DEF IDT
<1>2. Pin(d) # None /\ redir[Pin(d)].vector = vector
  BY DEF Sends
<1>3. Pin(d) \in 0..23
  <2>1. info.ioapics # {} /\ Pin(d) \in 0..ioapic.max_redirs
    BY <1>2 DEF Pin
  <2>2. QED
    BY <2>1, IoApicType DEF TypeInv
<1>4. Pin(d) = Pin(e)
  BY <1>1, <1>2, <1>3 DEF RouteInv
<1>5. QED
  BY <1>1, <1>2, <1>4, PinsDiffer DEF TypeInv

\* Tables and wiring do not change.
LEMMA WiringFixed ==
  ASSUME machine' = machine, NEW d \in Devices
  PROVE  /\ info' = info /\ ioapic' = ioapic
         /\ Pin(d)' = Pin(d) /\ PinArgument(d)' = PinArgument(d)
<1>1. info' = info
  BY DEF info
<1>2. ioapic' = ioapic
  BY <1>1 DEF ioapic
<1>3. Gsi(d)' = Gsi(d)
  BY <1>1 DEF Gsi, build_irq_gsi_map
<1>4. QED
  BY <1>1, <1>2, <1>3 DEF Pin, PinArgument

\* So whether the offsets fit does not change either.
LEMMA OffsetsFixed ==
  ASSUME machine' = machine
  PROVE  OffsetsFit' <=> OffsetsFit
<1>1. info' = info /\ ioapic' = ioapic
  BY WiringFixed, Vectors
<1>2. QED
  BY <1>1 DEF OffsetsFit
-----------------------------------------------------------------------------
(* Initial states and steps *)

\* Firmware hands over with everything latched by nobody.
LEMMA IrqInvInit == Init => IrqInv
<1> SUFFICES ASSUME Init PROVE IrqInv
  OBVIOUS
<1>1. TypeInv
  <2>1. PICK mask \in FirmwareMasks :
          pic = [offset |-> 8, mask |-> mask, irr |-> {}, isr |-> {}]
    BY Zenon DEF Init
  <2>2. PICK dest \in FirmwareDests :
          redir = [pin \in 0..23 |-> [vector |-> NoRoute, dest |-> dest]]
    BY DEF Init
  <2>3. mask \subseteq 0..15
    BY LimitAssumption
  <2>4. QED
    BY <2>1, <2>2, <2>3, Zenon DEF Init, TypeInv, Points
<1>2. BootInv /\ ServiceInv
  BY DEF Init, BootInv, ServiceInv
<1>3. PinInv /\ RouteInv
  BY Vectors DEF Init, PinInv, RouteInv, LowWritten, HighWritten
<1>4. EdgesDeliveredOnce
  BY DEF Init, EdgesDeliveredOnce, Latched
<1>5. QED
  BY <1>1, <1>2, <1>3, <1>4 DEF IrqInv

\* Boot steps that touch neither the routes nor what is latched.
LEMMA QuietBoot ==
  ASSUME IrqInv, Quiet, UNCHANGED redir,
         pic'.irr \subseteq pic.irr, pic'.isr \subseteq pic.isr, pic.mask \subseteq pic'.mask,
         lapic'.irr = lapic.irr, lapic'.isr = lapic.isr,
         lapic.enabled => lapic'.enabled,
         TypeInv', BootInv',
         serving = None,
         apic' => apic \/ pc = "activate",
         pc' \in {"lapic", "ioapic"} => info.ioapics # {},
         pc' \in {"timer_high", "keyboard", "keyboard_high", "activate"} => pc' = pc,
         pc' = "timer" => pc = "ioapic"
  PROVE  IrqInv'
<1>1. UNCHANGED <<machine, fresh, serving, redir>>
  BY DEF Quiet
<1>2. ServiceInv'
  BY <1>1 DEF IrqInv, ServiceInv
<1>3. EdgesDeliveredOnce'
  BY <1>1, OffsetsFixed DEF IrqInv, EdgesDeliveredOnce, Latched
<1>4. PinInv' /\ RouteInv'
  <2>1. \A d \in Devices : (LowWritten(d)' => LowWritten(d)) /\ (HighWritten(d)' => HighWritten(d))
    BY Vectors DEF LowWritten, HighWritten
  <2>2. (apic' \/ pc' \in {"lapic", "ioapic", "timer", "keyboard"}) => info.ioapics # {}
    <3>1. CASE apic'
      <4>1. apic \/ pc = "activate"
        BY <3>1
      <4>2. LowWritten("timer")
        BY <4>1 DEF LowWritten
      <4>3. QED
        BY <4>2, Vectors DEF IrqInv, PinInv
    <3>2. CASE pc' = "timer"
      BY <3>2 DEF IrqInv, PinInv
    <3>3. CASE pc' = "keyboard"
      BY <3>3 DEF IrqInv, PinInv
    <3>4. QED
      BY <3>1, <3>2, <3>3
  <2>3. \A d \in Devices : info' = info /\ Pin(d)' = Pin(d) /\ PinArgument(d)' = PinArgument(d)
    BY <1>1, WiringFixed
  <2>4. info' = info
    BY <2>3, Vectors
  <2>5. PinInv'
    BY <2>1, <2>2, <2>3, <2>4 DEF IrqInv, PinInv
  <2>6. RouteInv'
    BY <1>1, <2>1, <2>3, OffsetsFixed DEF IrqInv, RouteInv
  <2>7. QED
    BY <2>5, <2>6
<1>5. QED
  BY <1>2, <1>3, <1>4 DEF IrqInv

\* set_irq writes the low half of the entry.
LEMMA WriteLowStep ==
  ASSUME IrqInv, NEW d \in Devices,
         \/ d = "timer" /\ WriteLow(d, "timer", "timer_high")
         \/ d = "keyboard" /\ WriteLow(d, "keyboard", "keyboard_high"),
         pc' # "panicked"
  PROVE  IrqInv'
<1>1. /\ pc = d /\ ~apic
      /\ Gsi(d) >= ioapic.gsi_base /\ PinArgument(d) <= ioapic.max_redirs
      /\ redir' = [redir EXCEPT ![PinArgument(d)].vector = Vector(d)]
      /\ UNCHANGED <<machine, full, fresh, serving, ints, pic, lapic, eoi_ptr, apic>>
      /\ pc' = IF d = "timer" THEN "timer_high" ELSE "keyboard_high"
  BY Vectors DEF WriteLow, Panic, Quiet, state, IrqInv, BootInv
<1>2. machine \in Machines /\ info.ioapics # {}
  BY <1>1, Vectors DEF IrqInv, TypeInv, PinInv
<1>3. PinArgument(d) \in 0..23
  BY <1>1, <1>2, PinAccepted
<1>4. Vector(d) \in IDT
  BY DEF IDT
<1>5. TypeInv'
  <2>1. redir' \in [0..23 -> [vector : IDT \cup {NoRoute}, dest : {0} \cup FirmwareDests]]
    BY <1>1, <1>3, <1>4 DEF IrqInv, TypeInv
  <2>2. QED
    BY <1>1, <2>1, Vectors DEF IrqInv, TypeInv, Points
<1>6. BootInv'
  BY <1>1, Vectors DEF IrqInv, BootInv
<1>7. ServiceInv' /\ EdgesDeliveredOnce'
  BY <1>1, OffsetsFixed DEF IrqInv, ServiceInv, EdgesDeliveredOnce, Latched
<1>8. \A e \in Devices : info' = info /\ Pin(e)' = Pin(e) /\ PinArgument(e)' = PinArgument(e)
  BY <1>1, WiringFixed
<1>9. PinInv'
  <2>1. \A e \in Devices : LowWritten(e)' => e = d \/ LowWritten(e)
    BY <1>1, Vectors DEF LowWritten
  <2>2. \A e \in Devices : LowWritten(e)' => PinArgument(e) \in 0..23
    BY <1>3, <2>1 DEF IrqInv, PinInv
  <2>3. info' = info
    BY <1>8, Vectors
  <2>4. QED
    BY <1>2, <1>8, <2>2, <2>3 DEF PinInv
<1>10. RouteInv'
  <2> SUFFICES ASSUME OffsetsFit PROVE RouteInv'
    BY <1>1, OffsetsFixed DEF RouteInv
  <2>1. Pin(d) = PinArgument(d) /\ Pin(d) \in 0..23
    BY <1>1, <1>2, <1>3, PinWritten
  <2>2. /\ redir'[Pin(d)].vector = Vector(d) /\ redir'[Pin(d)].dest = redir[Pin(d)].dest
        /\ \A pin \in 0..23 : pin # Pin(d) => redir'[pin] = redir[pin]
    BY <1>1, <2>1, Zenon DEF IrqInv, TypeInv
  <2>3. \A e \in Devices : e # d => Pin(e) # Pin(d) \/ Pin(e) = None
    BY <1>2, PinsDiffer
  <2>4. None \notin 0..23
    BY LimitAssumption
  <2>5. \A e \in Devices : e # d => Vector(e) # Vector(d)
    BY Vectors
  <2>6. ASSUME NEW e \in Devices, NEW pin \in 0..23, redir'[pin].vector = Vector(e)
        PROVE  pin = Pin(e)
    <3>1. CASE pin = Pin(d)
      BY <2>2, <2>5, <2>6, <3>1
    <3>2. CASE pin # Pin(d)
      BY <2>2, <2>6, <3>2 DEF IrqInv, RouteInv
    <3>3. QED
      BY <3>1, <3>2
  <2>7. ASSUME NEW e \in Devices, LowWritten(e)'
        PROVE  /\ Pin(e) \in 0..23 /\ redir'[Pin(e)].vector = Vector(e)
               /\ Pin(e) = PinArgument(e)
               /\ HighWritten(e)' => redir'[Pin(e)].dest = 0
    <3>1. CASE e = d
      <4>1. ~HighWritten(d)'
        BY <1>1, Vectors DEF HighWritten
      <4>2. QED
        BY <2>1, <2>2, <3>1, <4>1
    <3>2. CASE e # d
      <4>1. LowWritten(e) /\ (HighWritten(e)' => HighWritten(e))
        BY <1>1, <2>7, <3>2, Vectors DEF LowWritten, HighWritten
      <4>2. QED
        BY <2>2, <2>3, <2>4, <3>2, <4>1 DEF IrqInv, RouteInv
    <3>3. QED
      BY <3>1, <3>2
  <2>8. \A e \in Devices : HighWritten(e)' => LowWritten(e)'
    BY DEF HighWritten, LowWritten
  <2>9. QED
    BY <1>8, <2>6, <2>7, <2>8 DEF RouteInv
<1>11. QED
  BY <1>5, <1>6, <1>7, <1>9, <1>10 DEF IrqInv

\* set_irq writes the high half.
LEMMA WriteHighStep ==
  ASSUME IrqInv, NEW d \in Devices,
         \/ d = "timer" /\ WriteHigh(d, "timer_high", "keyboard")
         \/ d = "keyboard" /\ WriteHigh(d, "keyboard_high", "activate")
  PROVE  IrqInv'
<1>1. /\ pc = IF d = "timer" THEN "timer_high" ELSE "keyboard_high"
      /\ pc' = IF d = "timer" THEN "keyboard" ELSE "activate"
      /\ ~apic
      /\ redir' = [redir EXCEPT ![PinArgument(d)].dest = 0]
      /\ UNCHANGED <<machine, full, fresh, serving, ints, pic, lapic, eoi_ptr, apic>>
  BY Vectors DEF WriteHigh, Goto, Quiet, state, IrqInv, BootInv
<1>2. LowWritten(d)
  BY <1>1 DEF LowWritten
<1>3. PinArgument(d) \in 0..23 /\ info.ioapics # {}
  BY <1>2 DEF IrqInv, PinInv
<1>4. TypeInv'
  <2>1. redir' \in [0..23 -> [vector : IDT \cup {NoRoute}, dest : {0} \cup FirmwareDests]]
    BY <1>1, <1>3 DEF IrqInv, TypeInv
  <2>2. QED
    BY <1>1, <2>1, Vectors DEF IrqInv, TypeInv, Points
<1>5. BootInv'
  BY <1>1, Vectors DEF IrqInv, BootInv
<1>6. ServiceInv' /\ EdgesDeliveredOnce'
  BY <1>1, OffsetsFixed DEF IrqInv, ServiceInv, EdgesDeliveredOnce, Latched
<1>7. \A e \in Devices : info' = info /\ Pin(e)' = Pin(e) /\ PinArgument(e)' = PinArgument(e)
  BY <1>1, WiringFixed
<1>8. \A e \in Devices : LowWritten(e)' => LowWritten(e)
  BY <1>1, Vectors DEF LowWritten
<1>9. PinInv'
  BY <1>3, <1>7, <1>8, Vectors DEF IrqInv, PinInv
<1>10. RouteInv'
  <2> SUFFICES ASSUME OffsetsFit PROVE RouteInv'
    BY <1>1, OffsetsFixed DEF RouteInv
  <2>1. Pin(d) = PinArgument(d)
    BY <1>2 DEF IrqInv, RouteInv
  <2>2. /\ redir'[Pin(d)].dest = 0
        /\ \A pin \in 0..23 : redir'[pin].vector = redir[pin].vector
        /\ \A pin \in 0..23 : redir[pin].dest = 0 => redir'[pin].dest = 0
    BY <1>1, <1>3, <2>1 DEF IrqInv, TypeInv
  <2>3. \A e \in Devices : HighWritten(e)' => LowWritten(e) /\ (e = d \/ HighWritten(e))
    BY <1>1, Vectors DEF LowWritten, HighWritten
  <2>4. \A e \in Devices : LowWritten(e) => Pin(e) \in 0..23
    BY DEF IrqInv, RouteInv
  <2>5. \A e \in Devices : HighWritten(e)' => redir'[Pin(e)].dest = 0
    BY <2>2, <2>3, <2>4 DEF IrqInv, RouteInv
  <2>6. \A e \in Devices : LowWritten(e)' =>
          Pin(e) \in 0..23 /\ redir'[Pin(e)].vector = Vector(e) /\ Pin(e) = PinArgument(e)
    BY <1>8, <2>2 DEF IrqInv, RouteInv
  <2>7. \A e \in Devices : \A pin \in 0..23 : redir'[pin].vector = Vector(e) => pin = Pin(e)
    BY <2>2 DEF IrqInv, RouteInv
  <2>8. QED
    BY <1>7, <2>5, <2>6, <2>7 DEF RouteInv
<1>11. QED
  BY <1>4, <1>5, <1>6, <1>9, <1>10 DEF IrqInv

\* A failed assertion of the drivers: the machine halts as it is.
LEMMA PanicStep ==
  ASSUME IrqInv, Panic, pc \in {"lapic", "ioapic", "timer", "keyboard"}
  PROVE  IrqInv'
<1>1. /\ pc' = "panicked"
      /\ UNCHANGED <<ints, pic, redir, lapic, eoi_ptr, apic>> /\ Quiet
  BY DEF Panic, state
<1>2. ~apic /\ serving = None
  BY DEF IrqInv, BootInv
<1>3. TypeInv' /\ BootInv'
  BY <1>1, <1>2 DEF IrqInv, TypeInv, BootInv, Quiet, Points
<1>4. QED
  BY <1>1, <1>2, <1>3, QuietBoot

\* kernel_main up to the point where interrupts are enabled.
LEMMA BootStep ==
  ASSUME IrqInv, Boot
  PROVE  IrqInv'
<1>1. TypeInv /\ BootInv
  BY DEF IrqInv
<1>2. CASE initialize
  <2>1. /\ pc = "init" /\ pc' = "rsdp" /\ Quiet /\ serving = None /\ ~apic
        /\ pic' = [pic EXCEPT !.offset = PIC_1_OFFSET, !.irr = {}, !.isr = {}]
        /\ UNCHANGED <<ints, redir, lapic, eoi_ptr, apic>>
    BY <1>1, <1>2 DEF initialize, Goto, state, BootInv
  <2>2. /\ pic'.offset = PIC_1_OFFSET /\ pic'.irr = {} /\ pic'.isr = {}
        /\ pic'.mask = pic.mask
        /\ pic' \in [offset : {8, PIC_1_OFFSET}, mask : SUBSET (0..15),
                     irr : SUBSET {0, 1}, isr : SUBSET {0, 1}]
    BY <1>1, <2>1, Zenon DEF TypeInv
  <2>3. TypeInv' /\ BootInv'
    BY <1>1, <2>1, <2>2 DEF TypeInv, BootInv, Quiet, Points
  <2>4. QED
    BY <2>1, <2>2, <2>3, QuietBoot
<1>3. CASE PicFallback
  <2>1. /\ pc = "rsdp" /\ pc' = "running" /\ Quiet /\ serving = None /\ ~apic /\ ints' = TRUE
        /\ UNCHANGED <<pic, redir, lapic, eoi_ptr, apic>>
    BY <1>1, <1>3 DEF PicFallback, Goto, state, BootInv
  <2>2. TypeInv' /\ BootInv'
    BY <1>1, <2>1 DEF TypeInv, BootInv, Quiet, Points
  <2>3. QED
    BY <2>1, <2>2, QuietBoot
<1>4. CASE Detected
  <2>1. /\ pc = "rsdp" /\ pc' = "lapic" /\ Quiet /\ serving = None /\ ~apic /\ ints' = FALSE
        /\ UNCHANGED <<pic, redir, lapic, eoi_ptr, apic>>
        /\ info.ioapics # {}
    BY <1>1, <1>4 DEF Detected, Goto, state, BootInv, detect
  <2>2. TypeInv' /\ BootInv'
    BY <1>1, <2>1, Zenon DEF TypeInv, BootInv, Quiet, Points
  <2>3. QED
    BY <2>1, <2>2, QuietBoot
<1>5. CASE EnableLapic
  <2>1. CASE Panic
    BY <1>5, <2>1, PanicStep DEF EnableLapic
  <2>2. CASE ~Panic
    <3>1. /\ pc = "lapic" /\ pc' = "ioapic" /\ Quiet /\ serving = None /\ ~apic
          /\ lapic' = [lapic EXCEPT !.enabled = TRUE]
          /\ UNCHANGED <<ints, pic, redir, eoi_ptr, apic>>
      BY <1>1, <1>5, <2>2 DEF EnableLapic, state, BootInv
    <3>2. /\ lapic'.enabled = TRUE /\ lapic'.irr = lapic.irr /\ lapic'.isr = lapic.isr
          /\ lapic' \in [enabled : BOOLEAN, irr : SUBSET IDT, isr : SUBSET IDT]
      BY <1>1, <3>1, Zenon DEF TypeInv
    <3>3. TypeInv' /\ BootInv' /\ info.ioapics # {}
      BY <1>1, <3>1, <3>2 DEF TypeInv, BootInv, Quiet, Points, IrqInv, PinInv
    <3>4. QED
      BY <3>1, <3>2, <3>3, QuietBoot
  <2>3. QED
    BY <2>1, <2>2
<1>6. CASE NewIoApic
  <2>1. CASE Panic
    BY <1>6, <2>1, PanicStep DEF NewIoApic
  <2>2. CASE ~Panic
    <3>1. /\ pc = "ioapic" /\ pc' = "timer" /\ Quiet /\ serving = None /\ ~apic
          /\ UNCHANGED <<ints, pic, redir, lapic, eoi_ptr, apic>>
      BY <1>1, <1>6, <2>2 DEF NewIoApic, state, BootInv
    <3>2. TypeInv' /\ BootInv'
      BY <1>1, <3>1 DEF TypeInv, BootInv, Quiet, Points
    <3>3. QED
      BY <3>1, <3>2, QuietBoot
  <2>3. QED
    BY <2>1, <2>2
<1>7. ASSUME NEW d \in Devices,
             \/ d = "timer" /\ WriteLow(d, "timer", "timer_high")
             \/ d = "keyboard" /\ WriteLow(d, "keyboard", "keyboard_high")
      PROVE  IrqInv'
  <2>1. CASE Panic
    BY <1>7, <2>1, PanicStep DEF WriteLow
  <2>2. CASE ~Panic
    <3>1. pc' # "panicked"
      BY <1>7, <2>2 DEF WriteLow
    <3>2. QED
      BY <1>7, <3>1, WriteLowStep
  <2>3. QED
    BY <2>1, <2>2
<1>8. CASE \/ WriteHigh("timer", "timer_high", "keyboard")
           \/ WriteHigh("keyboard", "keyboard_high", "activate")
  BY <1>8, WriteHighStep, Vectors
<1>9. CASE Activate
  <2>1. /\ pc = "activate" /\ pc' = "mask" /\ Quiet /\ serving = None /\ ~apic
        /\ eoi_ptr' = TRUE /\ apic' = TRUE /\ UNCHANGED <<ints, pic, redir, lapic>>
    BY <1>1, <1>9 DEF Activate, Goto, BootInv
  <2>2. TypeInv' /\ BootInv'
    BY <1>1, <2>1 DEF TypeInv, BootInv, Quiet, Points
  <2>3. QED
    BY <2>1, <2>2, QuietBoot
<1>10. CASE mask_all
  <2>1. /\ pc = "mask" /\ pc' = "enable" /\ Quiet /\ serving = None /\ apic
        /\ pic' = [pic EXCEPT !.mask = 0..15]
        /\ UNCHANGED <<ints, redir, lapic, eoi_ptr, apic>>
    BY <1>1, <1>10 DEF mask_all, Goto, state, BootInv
  <2>2. /\ pic'.offset = pic.offset /\ pic'.irr = pic.irr /\ pic'.isr = pic.isr
        /\ pic'.mask = 0..15 /\ pic.mask \subseteq 0..15
        /\ pic' \in [offset : {8, PIC_1_OFFSET}, mask : SUBSET (0..15),
                     irr : SUBSET {0, 1}, isr : SUBSET {0, 1}]
    BY <1>1, <2>1 DEF TypeInv
  <2>3. TypeInv' /\ BootInv'
    BY <1>1, <2>1, <2>2 DEF TypeInv, BootInv, Quiet, Points
  <2>4. QED
    BY <2>1, <2>2, <2>3, QuietBoot
<1>11. CASE EnableInterrupts
  <2>1. /\ pc = "enable" /\ pc' = "running" /\ Quiet /\ serving = None /\ apic /\ ints' = TRUE
        /\ UNCHANGED <<pic, redir, lapic, eoi_ptr, apic>>
    BY <1>1, <1>11 DEF EnableInterrupts, Goto, state, BootInv
  <2>2. TypeInv' /\ BootInv'
    BY <1>1, <2>1 DEF TypeInv, BootInv, Quiet, Points
  <2>3. QED
    BY <2>1, <2>2, QuietBoot
<1>12. QED
  BY <1>2, <1>3, <1>4, <1>5, <1>6, <1>7, <1>8, <1>9, <1>10, <1>11, Vectors DEF Boot

\* Steps after which the routes are what they were.
LEMMA RoutesKept ==
  ASSUME PinInv, RouteInv, UNCHANGED <<machine, redir, apic, pc>>
  PROVE  PinInv' /\ RouteInv'
<1>1. \A d \in Devices : Pin(d)' = Pin(d) /\ PinArgument(d)' = PinArgument(d) /\ info' = info
  BY WiringFixed
<1>2. info' = info
  BY <1>1, Vectors
<1>3. \A d \in Devices : (LowWritten(d)' <=> LowWritten(d)) /\ (HighWritten(d)' <=> HighWritten(d))
  BY DEF LowWritten, HighWritten
<1>4. PinInv'
  BY <1>1, <1>2, <1>3 DEF PinInv
<1>5. RouteInv'
  BY <1>1, <1>3, OffsetsFixed DEF RouteInv
<1>6. QED
  BY <1>4, <1>5

\* A line rises: the device is fresh, and both controllers may latch it.
LEMMA EdgeStep ==
  ASSUME IrqInv, NEW d \in Devices, Edge(d), full' \in BOOLEAN
  PROVE  IrqInv'
<1>1. /\ fresh' = fresh \cup {d}
      /\ pic' = [pic EXCEPT !.irr = @ \cup {Irq[d]}]
      /\ UNCHANGED <<machine, pc, ints, redir, eoi_ptr, apic, serving>>
  BY DEF Edge, state
<1>2. /\ pic'.irr = pic.irr \cup {Irq[d]} /\ pic'.isr = pic.isr
      /\ pic'.mask = pic.mask /\ pic'.offset = pic.offset
      /\ pic' \in [offset : {8, PIC_1_OFFSET}, mask : SUBSET (0..15),
                   irr : SUBSET {0, 1}, isr : SUBSET {0, 1}]
  BY <1>1, Vectors DEF IrqInv, TypeInv
<1>3. OffsetsFit => \A vector \in IDT : Sends(d, vector) => vector = Vector(d)
  BY SendsOwnVector DEF IrqInv
<1>4. /\ lapic'.enabled = lapic.enabled /\ lapic'.isr = lapic.isr
      /\ OffsetsFit => lapic'.irr \subseteq lapic.irr \cup {Vector(d)}
      /\ ~lapic.enabled => lapic' = lapic
      /\ lapic' \in [enabled : BOOLEAN, irr : SUBSET IDT, isr : SUBSET IDT]
  <2>1. CASE lapic.enabled
    <3> DEFINE sent == {vector \in IDT : Sends(d, vector)}
    <3>1. sent \subseteq IDT /\ (OffsetsFit => sent \subseteq {Vector(d)})
      BY <1>3
    <3>2. lapic' = [lapic EXCEPT !.irr = @ \cup sent]
      BY <2>1 DEF Edge
    <3> HIDE DEF sent
    <3>3. QED
      BY <2>1, <3>1, <3>2, Zenon DEF IrqInv, TypeInv
  <2>2. CASE ~lapic.enabled
    BY <2>2 DEF Edge, IrqInv, TypeInv
  <2>3. QED
    BY <2>1, <2>2
<1>5. TypeInv'
  BY <1>1, <1>2, <1>4 DEF IrqInv, TypeInv
<1>6. BootInv' /\ ServiceInv'
  BY <1>1, <1>2, <1>4 DEF IrqInv, BootInv, ServiceInv
<1>7. PinInv' /\ RouteInv'
  BY <1>1, RoutesKept DEF IrqInv
<1>8. EdgesDeliveredOnce'
  <2>1. \A e \in Devices : e # d => Irq[e] # Irq[d] /\ Vector(e) # Vector(d)
    BY Vectors
  <2>2. ASSUME OffsetsFit, NEW e \in Devices, Latched(e)' PROVE e \in fresh'
    <3>1. CASE e = d
      BY <1>1, <3>1
    <3>2. CASE e # d
      <4>1. Latched(e)
        BY <1>2, <1>4, <2>1, <2>2, <3>2 DEF Latched
      <4>2. QED
        BY <1>1, <2>2, <4>1 DEF IrqInv, EdgesDeliveredOnce
    <3>3. QED
      BY <3>1, <3>2
  <2>3. QED
    BY <1>1, <2>2, OffsetsFixed DEF EdgesDeliveredOnce
<1>9. QED
  BY <1>5, <1>6, <1>7, <1>8 DEF IrqInv

\* The PIC delivers: only before mask_all could it, so the APIC is not in use.
LEMMA PicStep ==
  ASSUME IrqInv, NEW d \in Devices, PicDelivers(Irq[d])
  PROVE  IrqInv'
<1>1. /\ ints /\ serving = None /\ pic.isr = {}
      /\ Irq[d] \in pic.irr /\ Irq[d] \notin pic.mask /\ Irq[d] \in {0, 1}
  BY Vectors DEF PicDelivers, Take, PicPending
<1>2. pc = "running" /\ ~apic /\ pic.offset = 32
  BY <1>1, Vectors DEF IrqInv, BootInv
<1>3. ~lapic.enabled /\ lapic.irr = {} /\ lapic.isr = {}
  BY <1>2 DEF IrqInv, BootInv
<1>4. pic.offset + Irq[d] = Vector(d) /\ Vector(d) \in IDT
  BY <1>2, Vectors
<1>5. /\ ints' = FALSE /\ serving' = [vector |-> Vector(d), at |-> "body"]
      /\ fresh' = {e \in fresh : Vector(e) # Vector(d)}
      /\ UNCHANGED <<machine, pc, redir, eoi_ptr, apic, full, lapic>>
  BY <1>4 DEF PicDelivers, Take, state
<1>6. /\ pic'.irr = pic.irr \ {Irq[d]} /\ pic'.isr = {Irq[d]}
      /\ pic'.mask = pic.mask /\ pic'.offset = pic.offset
      /\ pic' \in [offset : {8, PIC_1_OFFSET}, mask : SUBSET (0..15),
                   irr : SUBSET {0, 1}, isr : SUBSET {0, 1}]
  BY <1>1, Zenon DEF PicDelivers, IrqInv, TypeInv
<1>7. TypeInv'
  BY <1>4, <1>5, <1>6, Zenon DEF IrqInv, TypeInv
<1>8. serving' # None
  BY <1>4, <1>5, LimitAssumption
<1>9. BootInv' /\ ServiceInv'
  BY <1>1, <1>2, <1>3, <1>5, <1>6, <1>8 DEF IrqInv, BootInv, ServiceInv
<1>10. PinInv' /\ RouteInv'
  BY <1>5, RoutesKept DEF IrqInv
<1>11. EdgesDeliveredOnce'
  <2>1. ASSUME OffsetsFit, NEW e \in Devices, Latched(e)' PROVE e \in fresh'
    <3>1. Irq[e] \in pic.irr \ pic.mask /\ Irq[e] # Irq[d]
      BY <1>3, <1>5, <1>6, <2>1 DEF Latched
    <3>2. Vector(e) # Vector(d)
      BY <3>1, Vectors
    <3>3. e \in fresh
      BY <2>1, <3>1 DEF IrqInv, EdgesDeliveredOnce, Latched
    <3>4. QED
      BY <1>5, <3>2, <3>3
  <2>2. QED
    BY <1>5, <2>1, OffsetsFixed DEF EdgesDeliveredOnce
<1>12. QED
  BY <1>7, <1>9, <1>10, <1>11 DEF IrqInv

\* The local APIC delivers: every PIC line is masked by then.
LEMMA LapicStep ==
  ASSUME IrqInv, NEW d \in Devices, LapicDelivers(Vector(d))
  PROVE  IrqInv'
<1>1. ints /\ serving = None /\ lapic.isr = {} /\ Vector(d) \in lapic.irr /\ Vector(d) \in IDT
  BY Vectors DEF LapicDelivers, Take, LapicPending
<1>2. pc = "running" /\ apic /\ pic.mask = 0..15 /\ pic.isr = {}
  BY <1>1 DEF IrqInv, BootInv, ServiceInv
<1>3. /\ ints' = FALSE /\ serving' = [vector |-> Vector(d), at |-> "body"]
      /\ fresh' = {e \in fresh : Vector(e) # Vector(d)}
      /\ UNCHANGED <<machine, pc, redir, eoi_ptr, apic, full, pic>>
  BY DEF LapicDelivers, Take, state
<1>4. /\ lapic'.irr = lapic.irr \ {Vector(d)} /\ lapic'.enabled = lapic.enabled
      /\ lapic' \in [enabled : BOOLEAN, irr : SUBSET IDT, isr : SUBSET IDT]
  BY <1>1, Zenon DEF LapicDelivers, IrqInv, TypeInv
<1>5. TypeInv'
  BY <1>1, <1>3, <1>4, Zenon DEF IrqInv, TypeInv
<1>6. serving' # None
  BY <1>1, <1>3, LimitAssumption
<1>7. lapic.enabled
  BY <1>1 DEF IrqInv, BootInv
<1>8. BootInv' /\ ServiceInv'
  BY <1>1, <1>2, <1>3, <1>4, <1>6, <1>7, Zenon DEF IrqInv, BootInv, ServiceInv
<1>9. PinInv' /\ RouteInv'
  BY <1>3, RoutesKept DEF IrqInv
<1>10. EdgesDeliveredOnce'
  <2>1. ASSUME OffsetsFit, NEW e \in Devices, Latched(e)' PROVE e \in fresh'
    <3>1. Irq[e] \in 0..15
      BY Vectors
    <3>2. Vector(e) \in lapic.irr /\ Vector(e) # Vector(d)
      BY <1>2, <1>3, <1>4, <2>1, <3>1 DEF Latched
    <3>3. e \in fresh
      BY <2>1, <3>2 DEF IrqInv, EdgesDeliveredOnce, Latched
    <3>4. QED
      BY <1>3, <3>2, <3>3
  <2>2. QED
    BY <1>3, <2>1, OffsetsFixed DEF EdgesDeliveredOnce
<1>11. QED
  BY <1>5, <1>8, <1>9, <1>10 DEF IrqInv

\* The handler's work before the acknowledgement.
LEMMA BodyStep ==
  ASSUME IrqInv, Body
  PROVE  IrqInv'
<1>1. /\ serving # None
      /\ serving' = [serving EXCEPT !.at = "eoi"]
      /\ full' = IF serving.vector = Vector("keyboard") THEN FALSE ELSE full
      /\ UNCHANGED <<machine, pc, ints, pic, redir, lapic, eoi_ptr, apic, fresh>>
  BY DEF Body, state
<1>2. serving' \in [vector : IDT, at : {"body", "eoi"}]
  BY <1>1 DEF IrqInv, TypeInv
<1>3. serving' # None
  BY <1>2, LimitAssumption
<1>4. full' \in BOOLEAN
  BY <1>1, Zenon DEF IrqInv, TypeInv
<1>5. TypeInv'
  BY <1>1, <1>2, <1>4, Zenon DEF IrqInv, TypeInv
<1>6. BootInv' /\ ServiceInv'
  BY <1>1, <1>3 DEF IrqInv, BootInv, ServiceInv
<1>7. PinInv' /\ RouteInv'
  BY <1>1, RoutesKept DEF IrqInv
<1>8. EdgesDeliveredOnce'
  BY <1>1, OffsetsFixed DEF IrqInv, EdgesDeliveredOnce, Latched
<1>9. QED
  BY <1>5, <1>6, <1>7, <1>8 DEF IrqInv

\* The acknowledgement reaches the controller that delivered.
LEMMA EoiStep ==
  ASSUME IrqInv, EndOfInterrupt
  PROVE  IrqInv'
<1>1. /\ serving # None /\ Acknowledge /\ ints' = TRUE /\ serving' = None
      /\ UNCHANGED <<machine, redir, eoi_ptr, apic, full, fresh>>
  BY DEF EndOfInterrupt, state
<1>2. pc = "running"
  BY <1>1 DEF IrqInv, BootInv
<1>3. CASE apic
  <2>1. eoi_ptr /\ pic.isr = {}
    BY <1>1, <1>3 DEF IrqInv, BootInv, ServiceInv
  <2>2. lapic' = [lapic EXCEPT !.isr = {}] /\ pc' = pc /\ pic' = pic
    BY <1>1, <1>3, <2>1 DEF Acknowledge, lapic_end_of_interrupt
  <2>3. /\ lapic'.irr = lapic.irr /\ lapic'.isr = {} /\ lapic'.enabled = lapic.enabled
        /\ lapic' \in [enabled : BOOLEAN, irr : SUBSET IDT, isr : SUBSET IDT]
    BY <2>2 DEF IrqInv, TypeInv
  <2>4. TypeInv'
    BY <1>1, <2>2, <2>3 DEF IrqInv, TypeInv
  <2>5. BootInv' /\ ServiceInv'
    BY <1>1, <1>2, <1>3, <2>1, <2>2, <2>3 DEF IrqInv, BootInv, ServiceInv
  <2>6. PinInv' /\ RouteInv'
    BY <1>1, <2>2, RoutesKept DEF IrqInv
  <2>7. EdgesDeliveredOnce'
    BY <1>1, <2>2, <2>3, OffsetsFixed DEF IrqInv, EdgesDeliveredOnce, Latched
  <2>8. QED
    BY <2>4, <2>5, <2>6, <2>7 DEF IrqInv
<1>4. CASE ~apic
  <2>1. PICK irq \in {0, 1} : pic.isr = {irq}
    BY <1>1, <1>4 DEF IrqInv, ServiceInv
  <2>2. /\ pic' = [pic EXCEPT !.isr = {i \in @ : \E higher \in @ : higher < i}]
        /\ lapic' = lapic /\ pc' = pc
    BY <1>1, <1>4 DEF Acknowledge, notify_end_of_interrupt
  <2>3. {i \in pic.isr : \E higher \in pic.isr : higher < i} = {}
    BY <2>1
  <2>4. /\ pic'.irr = pic.irr /\ pic'.isr = {} /\ pic'.mask = pic.mask
        /\ pic'.offset = pic.offset
        /\ pic' \in [offset : {8, PIC_1_OFFSET}, mask : SUBSET (0..15),
                     irr : SUBSET {0, 1}, isr : SUBSET {0, 1}]
    BY <2>2, <2>3 DEF IrqInv, TypeInv
  <2>5. TypeInv'
    BY <1>1, <2>2, <2>4 DEF IrqInv, TypeInv
  <2>6. BootInv' /\ ServiceInv'
    BY <1>1, <1>2, <1>4, <2>2, <2>4 DEF IrqInv, BootInv, ServiceInv
  <2>7. PinInv' /\ RouteInv'
    BY <1>1, <2>2, RoutesKept DEF IrqInv
  <2>8. EdgesDeliveredOnce'
    BY <1>1, <2>2, <2>4, OffsetsFixed DEF IrqInv, EdgesDeliveredOnce, Latched
  <2>9. QED
    BY <2>5, <2>6, <2>7, <2>8 DEF IrqInv
<1>5. QED
  BY <1>3, <1>4

\* Every step keeps the invariant.
LEMMA IrqInvNext == IrqInv /\ [Next]_vars => IrqInv'
<1> SUFFICES ASSUME IrqInv, [Next]_vars PROVE IrqInv'
  OBVIOUS
<1>1. CASE Boot
  BY <1>1, BootStep
<1>2. CASE Tick
  <2>1. full' \in BOOLEAN
    BY <1>2 DEF Tick, IrqInv, TypeInv
  <2>2. QED
    BY <1>2, <2>1, EdgeStep, Vectors DEF Tick
<1>3. CASE Key
  <2>1. full' \in BOOLEAN
    BY <1>3 DEF Key
  <2>2. QED
    BY <1>3, <2>1, EdgeStep, Vectors DEF Key
<1>4. ASSUME NEW d \in Devices, Deliver(d) PROVE IrqInv'
  BY <1>4, PicStep, LapicStep DEF Deliver
<1>5. CASE Body
  BY <1>5, BodyStep
<1>6. CASE EndOfInterrupt
  BY <1>6, EoiStep
<1>7. CASE UNCHANGED vars
  <2>1. UNCHANGED <<machine, pc, ints, pic, redir, lapic, eoi_ptr, apic, full, fresh, serving>>
    BY <1>7 DEF vars, state
  <2>2. PinInv' /\ RouteInv'
    BY <2>1, RoutesKept DEF IrqInv
  <2>3. QED
    BY <2>1, <2>2, OffsetsFixed
       DEF IrqInv, TypeInv, BootInv, ServiceInv, EdgesDeliveredOnce, Latched
<1>8. QED
  BY <1>1, <1>2, <1>3, <1>4, <1>5, <1>6, <1>7 DEF Next, HltLoop
-----------------------------------------------------------------------------
(* Theorems *)

\* The invariant holds in every reachable state, with or without fairness.
THEOREM IrqInvariant == Spec => []IrqInv
  BY IrqInvInit, IrqInvNext, PTL DEF Spec

\* Every interrupt taken has a handler, on every machine: initialize moves the PIC
\* off the exception vectors before interrupts are enabled, and set_irq writes only
\* the vectors of the IDT.
THEOREM EveryInterruptHasHandler == Spec => []TypeOK
<1>1. IrqInv => TypeOK
  BY DEF IrqInv, TypeInv, TypeOK
<1>2. QED
  BY <1>1, IrqInvariant, PTL

\* Each handler acknowledges to the controller that delivered, for whichever of the
\* two init_apic chose.
THEOREM AcknowledgedWhereDelivered == Spec => []NothingStuckInService
<1>1. IrqInv => NothingStuckInService
  BY DEF IrqInv, ServiceInv, NothingStuckInService
<1>2. QED
  BY <1>1, IrqInvariant, PTL

\* No edge is handled twice, although apic::init routes the lines before mask_all
\* masks the PIC, on every machine whose lines are within 256 of the I/O APIC's first.
THEOREM NoEdgeHandledTwice == Spec => []EdgesDeliveredOnce
<1>1. IrqInv => EdgesDeliveredOnce
  BY DEF IrqInv
<1>2. QED
  BY <1>1, IrqInvariant, PTL

\* The routes build_irq_gsi_map and set_irq program are the machine's wiring, for
\* every MADT that describes it and has the lines within 256 of the first line of the
\* I/O APIC: beyond that init cuts the offset to a byte.
THEOREM RoutesAreTheWiring == Spec => []RoutesMatchWiring
<1>1. IrqInv => RoutesMatchWiring
  <2> SUFFICES ASSUME IrqInv, OffsetsFit, apic, machine.lapic.id = 0, NEW d \in Devices
               PROVE  Sends(d, Vector(d))
    BY DEF RoutesMatchWiring
  <2>1. /\ Pin(d) \in 0..23 /\ redir[Pin(d)].vector = Vector(d)
        /\ redir[Pin(d)].dest = 0
    BY DEF IrqInv, RouteInv, LowWritten, HighWritten
  <2>2. redir[Pin(d)] \in [vector : IDT \cup {NoRoute}, dest : {0} \cup FirmwareDests]
    BY <2>1 DEF IrqInv, TypeInv
  <2>3. redir[Pin(d)] = [vector |-> Vector(d), dest |-> machine.lapic.id]
    BY <2>1, <2>2
  <2>4. Pin(d) # None
    BY <2>1, LimitAssumption
  <2>5. QED
    BY <2>3, <2>4 DEF Sends
<1>2. QED
  BY <1>1, IrqInvariant, PTL
=============================================================================
