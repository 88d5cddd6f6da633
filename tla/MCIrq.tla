--------------------------------- MODULE MCIrq ---------------------------------
(***************************************************************************)
(* Machines: without a MADT; with x2APICs, told after the IOAPIC; with one *)
(* IOAPIC and the usual override of the PIT, as hardware and as emulator,  *)
(* the latter with an earlier, wrong override; with the wrong IOAPIC first *)
(* in the table; with a first IOAPIC that ends at the RTC's irq; with an   *)
(* override into the second IOAPIC.                                        *)
(***************************************************************************)
EXTENDS Irq

Wired(pit, rtc) == [d \in Device |-> CASE d = "PIT" -> pit [] d = "Keyboard" -> 1 [] d = "RTC" -> rtc]
Io(base, entries) == [type |-> "IOAPIC", base |-> base, entries |-> entries]
Iso(source, gsi) == [type |-> "override", source |-> source, gsi |-> gsi]
Other(type) == [type |-> type]
Machine(found, latches, madt, gsi) == [found |-> found, latches |-> latches, madt |-> madt, gsi |-> gsi]

Lapic == Other("LAPIC")

MCMachines == {
    Machine(FALSE, FALSE, <<>>, Wired(2, 8)),
    Machine(TRUE, TRUE, <<Lapic, Io(0, 12), Iso(0, 2), Other("x2LAPIC")>>, Wired(2, 8)),
    Machine(TRUE, FALSE, <<Lapic, Io(0, 12), Iso(0, 2)>>, Wired(2, 8)),
    Machine(TRUE, TRUE, <<Iso(0, 5), Io(0, 12), Iso(0, 2), Iso(9, 9), Other("other")>>, Wired(2, 8)),
    Machine(TRUE, TRUE, <<Io(9, 3), Lapic, Io(0, 9), Iso(0, 2)>>, Wired(2, 8)),
    Machine(TRUE, FALSE, <<Iso(0, 2), Io(0, 8), Io(8, 4)>>, Wired(2, 8)),
    Machine(TRUE, TRUE, <<Io(0, 9), Io(9, 3), Iso(8, 10), Iso(0, 2)>>, Wired(2, 10))}
=============================================================================
