----------------------------- MODULE MCIrqRouting -----------------------------
(* Machines for TLC. *)
EXTENDS IrqRouting

IoApic(gsi_base, max_redirs) ==
  [kind |-> "ioapic", addr |-> 1, gsi_base |-> gsi_base, max_redirs |-> max_redirs]
Override(source, gsi) == [kind |-> "override", source |-> source, gsi |-> gsi]
Lapic == [kind |-> "lapic"]

\* An ordinary PC: the timer is wired to pin 2.
PC ==
  [rsdp |-> TRUE, signature |-> TRUE, revision |-> 2,
   xsdt |-> <<"FACP", "APIC">>, rsdt |-> <<"APIC">>,
   lapic |-> [base |-> 1, id |-> 0, version |-> 20, enables |-> TRUE],
   madt |-> <<Lapic, IoApic(0, 23), Override(0, 2), Override(9, 9)>>,
   wires |-> [timer |-> 2, keyboard |-> 1]]

\* Without overrides, found through the RSDT.
OldPC ==
  [PC EXCEPT !.revision = 0, !.xsdt = None, !.madt = <<IoApic(0, 23)>>,
             !.wires = [timer |-> 0, keyboard |-> 1]]

\* Both lines moved, a second I/O APIC, the overrides before the I/O APICs.
Server ==
  [PC EXCEPT !.madt = <<Override(1, 3), Override(0, 2), IoApic(0, 15), IoApic(16, 15)>>,
             !.wires = [timer |-> 2, keyboard |-> 3]]

NoRsdp == [PC EXCEPT !.rsdp = FALSE]
NoMadt == [PC EXCEPT !.xsdt = <<"FACP">>]
NoIoApic == [PC EXCEPT !.madt = <<Lapic, Override(0, 2)>>]

\* The second I/O APIC is listed first.
Reversed ==
  [PC EXCEPT !.madt = <<IoApic(16, 7), IoApic(0, 15), Override(0, 2)>>]

\* The keyboard's line is below those of the I/O APIC, which has the timer's on
\* its first pin: set-up fails when the timer is routed already.
HalfServed ==
  [PC EXCEPT !.madt = <<IoApic(2, 21), IoApic(0, 1), Override(0, 2)>>]

\* The keyboard's line is the second one of another I/O APIC, 256 lines further on
\* than the timer's, and is taken for it.
WideLines ==
  [PC EXCEPT !.madt = <<IoApic(0, 23), IoApic(257, 7), Override(0, 2), Override(1, 258)>>,
             !.wires = [timer |-> 2, keyboard |-> 258]]

\* Controllers that fail one of the drivers' assertions.
NoLapic == [PC EXCEPT !.lapic.version = 256]
LockedLapic == [PC EXCEPT !.lapic.enables = FALSE]
NoAddress == [PC EXCEPT !.madt = <<[IoApic(0, 23) EXCEPT !.addr = 0], Override(0, 2)>>]
EmptyIoApic == [PC EXCEPT !.madt = <<IoApic(0, 0), Override(0, 2)>>]

\* A machine that boots on a core other than core 0.
OtherCore == [PC EXCEPT !.lapic.id = 3]

Bootable == {PC, OldPC, Server, NoRsdp, NoMadt, NoIoApic}
AllMachines ==
  Bootable \cup {Reversed, HalfServed, WideLines, OtherCore}
           \cup {NoLapic, LockedLapic, NoAddress, EmptyIoApic}

\* What firmware leaves masked: all but timer, keyboard and cascade, or all
\* but the cascade.
Masks == {3..15, 0..15 \ {2}}
=============================================================================
