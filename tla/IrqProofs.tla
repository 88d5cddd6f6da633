------------------------------- MODULE IrqProofs -------------------------------
(***************************************************************************)
(* Theorems about Irq for every set of machines.                           *)
(***************************************************************************)
EXTENDS Irq, TLAPS

\* The phases of the boot: interrupts are off until the scheduler starts, and
\* again while the controllers are exchanged.
Early == {"exceptions", "mask", "rtc", "scheduler"}
Exchange == {"disable pic", "initialize apic"}
Writing == {"PIT", "RTC", "Keyboard", "enable"}
Phase ==
    /\ pc \in Early \cup Exchange \cup Writing => ~interrupts /\ handling = <<>>
    /\ pc \in Early \cup Exchange \cup {"acpi"} => ~inUse
    /\ pc \in Writing => inUse /\ ~enabled /\ UsableAPIC(machine)
    /\ pc = "done" => (inUse <=> UsableAPIC(machine))
    /\ pc \in Exchange => UsableAPIC(machine)
    /\ ~inUse => ~enabled
    /\ inUse => ~picWired
    /\ handling # <<>> => ~interrupts

\* The PIT's stub, which ends nothing, never runs; the cascade stays closed.
Closed ==
    /\ pc # "exceptions" => pitHandler # "stub"
    /\ pc = "exceptions" => inService = {}
    /\ Cascade \in masked

\* What is in service is what the handler that runs will end.
OneInService ==
    IF handling # <<>> /\ handling[2] # "return"
    THEN IF inUse THEN inService = {} /\ isr = {handling[1]}
         ELSE inService = {Irq[handling[1]]} /\ Irq[handling[1]] \in Master /\ isr = {}
    ELSE inService = {} /\ isr = {}

\* The entries that SetEntry has written by now.
Opened ==
    CASE pc = "PIT" -> {}
      [] pc = "RTC" -> {"PIT"}
      [] pc = "Keyboard" -> {"PIT", "RTC"}
      [] OTHER -> Device
WrittenSoFar ==
    inUse => \A g \in Gsi, d \in Device :
        entry[g] = d <=> g \in Written(d) /\ d \in Opened

Inv == TypeOK /\ Phase /\ Closed /\ OneInService /\ WrittenSoFar

-----------------------------------------------------------------------------
\* The numbers of the three lines.
LEMMA IrqValues ==
    /\ Irq["PIT"] = 0 /\ Irq["Keyboard"] = 1 /\ Irq["RTC"] = 8
    /\ Device = {"PIT", "Keyboard", "RTC"}
    /\ Irq \in [Device -> {0, 1, 8}]
    /\ \A d, e \in Device : Irq[d] = Irq[e] => d = e
  <1>1. Irq["PIT"] = 0 /\ Irq["Keyboard"] = 1 /\ Irq["RTC"] = 8
    BY DEF Irq, Device
  <1>2. Irq \in [Device -> {0, 1, 8}]
    BY DEF Irq, Device
  <1> QED BY <1>1, <1>2 DEF Device

\* The least of one.
LEMMA MinOfOne == ASSUME NEW i \in Int PROVE Min({i}) = i
  BY DEF Min

\* With the cascade masked only the master's own inputs are heard.
LEMMA MasterOnly ==
    ASSUME TypeOK, Closed, OneInService, handling = <<>>, MasterAsks # {}
    PROVE  /\ Min(MasterAsks) \in {0, 1}
           /\ Min(MasterAsks) \in Master
  <1>1. inService = {}
    BY DEF OneInService
  <1>2. MasterAsks \subseteq {0, 1}
    <2>1. Cascade \in masked
      BY DEF Closed
    <2>2. requested \subseteq {0, 1, 8}
      BY DEF TypeOK
    <2>3. Asking(Master) \subseteq {0, 1}
      BY <2>2 DEF Asking, Master
    <2> QED BY <2>1, <2>3 DEF MasterAsks
  <1>3. MasterAsks = {0} \/ MasterAsks = {1} \/ MasterAsks = {0, 1}
    BY <1>2
  <1>4. Min({0, 1}) = 0
    BY DEF Min
  <1> QED BY <1>3, <1>4, MinOfOne DEF Master

-----------------------------------------------------------------------------
\* The machine is one of the assumed ones.
LEMMA MachineOK ==
    ASSUME TypeOK
    PROVE  /\ machine.gsi \in [Device -> Gsi]
           /\ \A d, e \in Device : machine.gsi[d] = machine.gsi[e] => d = e
           /\ UsableAPIC(machine) =>
                \A d \in Device : GetRemappedIRQ(machine, Irq[d]) = machine.gsi[d]
  BY MachineAssumption DEF TypeOK

\* Steps that touch neither the entries nor the boot's progress.
LEMMA SameEntries ==
    ASSUME WrittenSoFar, UNCHANGED <<machine, pc, inUse, entry>>
    PROVE  WrittenSoFar'
  <1>1. ASSUME NEW n PROVE Candidates(n)' = Candidates(n)
    BY DEF Candidates
  <1>2. ASSUME NEW d \in Device PROVE Written(d)' = Written(d)
    BY <1>1 DEF Written, HasInput
  <1>3. Opened' = Opened
    BY DEF Opened
  <1> QED BY <1>2, <1>3 DEF WrittenSoFar

\* The invariant holds when the kernel starts.
LEMMA InitInv == Init => Inv
  <1> SUFFICES ASSUME Init PROVE Inv OBVIOUS
  <1>1. TypeOK
    <2>1. line \subseteq Device \ {"PIT"}
      BY DEF Init, Device
    <2>2. masked \subseteq 0 .. 15
      BY DEF Init, Master, Slave
    <2>3. entry \in [Gsi -> Device \cup {"masked"}]
      BY DEF Init
    <2> QED BY <2>1, <2>2, <2>3 DEF Init, TypeOK
  <1>2. Phase BY DEF Init, Phase, Early, Exchange, Writing
  <1>3. Closed BY DEF Init, Closed, Master, Cascade
  <1>4. OneInService BY DEF Init, OneInService
  <1>5. WrittenSoFar BY DEF Init, WrittenSoFar
  <1> QED BY <1>1, <1>2, <1>3, <1>4, <1>5 DEF Inv

\* An edge changes what is asked for, and nothing else of the invariant.
LEMMA RiseStep ==
    ASSUME Inv, NEW d \in Device, Rise(d), line' \subseteq Device \ {"PIT"}
    PROVE  Inv'
  <1> USE DEF Inv
  <1>1. entry[machine.gsi[d]] \in Device \cup {"masked"}
    BY MachineOK DEF TypeOK
  <1>2. requested' \subseteq {0, 1, 8}
    BY IrqValues DEF Rise, TypeOK
  <1>3. irr' \subseteq Device /\ latched' \subseteq Device
    BY <1>1 DEF Rise, TypeOK, Reaches
  <1>4. TypeOK' BY <1>2, <1>3, ZenonT(60) DEF Rise, TypeOK
  <1>5. Phase' BY DEF Rise, Phase
  <1>6. Closed' BY DEF Rise, Closed
  <1>7. OneInService' BY DEF Rise, OneInService
  <1>8. WrittenSoFar' BY SameEntries DEF Rise
  <1> QED BY <1>4, <1>5, <1>6, <1>7, <1>8

\* The devices' edges preserve it.
LEMMA Edges ==
    ASSUME Inv, Tick \/ KeyByte \/ RtcPeriod
    PROVE  Inv'
  <1>1. CASE Tick
    BY <1>1, RiseStep DEF Tick, Inv, TypeOK, Device
  <1>2. CASE KeyByte
    BY <1>2, RiseStep DEF KeyByte, Inv, TypeOK, Device
  <1>3. CASE RtcPeriod
    BY <1>3, RiseStep DEF RtcPeriod, Inv, TypeOK, Device
  <1> QED BY <1>1, <1>2, <1>3

\* The PIC's interrupt is the master's own, so its end will find it.
LEMMA TakeFromPicStep == ASSUME Inv, TakeFromPic PROVE Inv'
  <1> USE DEF Inv
  <1> DEFINE i == Min(MasterAsks)
  <1>1. handling = <<>> /\ picWired /\ interrupts /\ interrupts' = FALSE /\ ~inUse
    BY DEF TakeFromPic, Phase, TypeOK
  <1>2. i \in {0, 1} /\ i \in Master /\ i # Cascade
    BY <1>1, MasterOnly DEF TakeFromPic, Cascade
  <1>3. inService = {} /\ isr = {}
    BY <1>1 DEF OneInService
  <1>4. /\ inService' = inService \cup {i}
        /\ requested' = requested \ {i}
        /\ \E d \in Device : Irq[d] = i /\ handling' = <<d, "device">>
    BY <1>2 DEF TakeFromPic
  <1> HIDE DEF i
  <1>5. PICK d \in Device : Irq[d] = i /\ handling' = <<d, "device">>
    BY <1>4
  <1>6. UNCHANGED <<machine, pc, line, ticking, masked, picWired, entry, latched,
                    enabled, irr, isr, inUse, pitHandler, deaf>>
    BY DEF TakeFromPic, apic
  <1>7. TypeOK' BY <1>1, <1>2, <1>3, <1>4, <1>5, <1>6 DEF TypeOK, Cascade
  <1>8. Phase' BY <1>1, <1>5, <1>6 DEF Phase
  <1>9. Closed' BY <1>1, <1>2, <1>3, <1>4, <1>6 DEF Closed, Phase, Early
  <1>10. OneInService' BY <1>1, <1>2, <1>3, <1>4, <1>5, <1>6 DEF OneInService
  <1>11. WrittenSoFar' BY <1>1, <1>6 DEF WrittenSoFar
  <1> QED BY <1>7, <1>8, <1>9, <1>10, <1>11

\* The local APIC's interrupt is put in service there and nowhere else.
LEMMA TakeFromApicStep == ASSUME Inv, TakeFromApic PROVE Inv'
  <1> USE DEF Inv
  <1>1. handling = <<>> /\ enabled /\ interrupts /\ interrupts' = FALSE /\ inUse
    BY DEF TakeFromApic, Phase, TypeOK
  <1>2. PICK d \in Device : handling' = <<d, "device">> /\ irr' = irr \ {d} /\ isr' = {d}
    BY DEF TakeFromApic, TypeOK
  <1>3. UNCHANGED <<machine, pc, line, ticking, masked, requested, inService, picWired,
                    entry, latched, enabled, inUse, pitHandler, deaf>>
    BY DEF TakeFromApic, pic
  <1>4. TypeOK' BY <1>1, <1>2, <1>3 DEF TypeOK
  <1>5. Phase' BY <1>1, <1>2, <1>3 DEF Phase
  <1>6. Closed' BY <1>1, <1>3 DEF Closed
  <1>7. OneInService' BY <1>1, <1>2, <1>3 DEF OneInService
  <1>8. WrittenSoFar' BY <1>3, SameEntries
  <1> QED BY <1>4, <1>5, <1>6, <1>7, <1>8

\* A handler serves its device; the PIT's is never the stub.
LEMMA ServeDeviceStep == ASSUME Inv, ServeDevice PROVE Inv'
  <1> USE DEF Inv
  <1>1. /\ handling # <<>> /\ handling[1] \in Device /\ handling[2] = "device"
        /\ handling' = <<handling[1], "end">>
    BY DEF ServeDevice, TypeOK, Phase, Closed, Early
  <1>2. UNCHANGED <<machine, pc, interrupts, ticking, masked, requested, inService, picWired,
                    entry, latched, enabled, irr, isr, inUse, pitHandler, deaf>>
    BY DEF ServeDevice, pic, apic
  <1>3. line' \subseteq Device \ {"PIT"}
    BY DEF ServeDevice, TypeOK
  <1>4. TypeOK' BY <1>1, <1>2, <1>3 DEF TypeOK
  <1>5. Phase' BY <1>1, <1>2 DEF Phase
  <1>6. Closed' BY <1>2 DEF Closed
  <1>7. OneInService' BY <1>1, <1>2 DEF OneInService
  <1>8. WrittenSoFar' BY <1>2, SameEntries
  <1> QED BY <1>4, <1>5, <1>6, <1>7, <1>8

\* SendEIO finds the one interrupt in service.
LEMMA EndOfInterruptStep == ASSUME Inv, EndOfInterrupt PROVE Inv'
  <1> USE DEF Inv
  <1> DEFINE d == handling[1]
  <1>1. /\ handling # <<>> /\ d \in Device /\ handling[2] = "end"
        /\ handling' = <<d, "return">>
    BY DEF EndOfInterrupt, TypeOK
  <1>2. UNCHANGED <<machine, pc, interrupts, line, ticking, masked, requested, picWired,
                    entry, latched, enabled, irr, inUse, pitHandler, deaf>>
    BY DEF EndOfInterrupt
  <1>3. inService' = {} /\ isr' = {}
    <2>1. CASE inUse
      BY <1>1, <2>1 DEF EndOfInterrupt, OneInService
    <2>2. CASE ~inUse
      <3>1. inService = {Irq[d]} /\ Irq[d] \in Master /\ isr = {}
        BY <1>1, <2>2 DEF OneInService
      <3>2. inService \cap Master = {Irq[d]}
        BY <3>1
      <3>3. Irq[d] \in Int
        BY <3>1 DEF Master
      <3>4. Min(inService \cap Master) = Irq[d]
        BY <3>2, <3>3, MinOfOne
      <3> QED BY <2>2, <3>1, <3>4 DEF EndOfInterrupt, SendEIO
    <2> QED BY <2>1, <2>2
  <1>4. TypeOK' BY <1>1, <1>2, <1>3 DEF TypeOK
  <1>5. Phase' BY <1>1, <1>2 DEF Phase
  <1>6. Closed' BY <1>2, <1>3 DEF Closed
  <1>7. OneInService' BY <1>1, <1>2, <1>3 DEF OneInService
  <1>8. WrittenSoFar' BY <1>2, SameEntries
  <1> QED BY <1>4, <1>5, <1>6, <1>7, <1>8

\* iret, with nothing left in service.
LEMMA ReturnStep == ASSUME Inv, Return PROVE Inv'
  <1> USE DEF Inv
  <1>1. handling # <<>> /\ handling[2] = "return" /\ handling' = <<>> /\ interrupts' = TRUE
    BY DEF Return
  <1>2. UNCHANGED <<machine, pc, line, ticking, masked, requested, inService, picWired,
                    entry, latched, enabled, irr, isr, inUse, pitHandler, deaf>>
    BY DEF Return, pic, apic
  <1>3. TypeOK' BY <1>1, <1>2 DEF TypeOK
  <1>4. Phase' BY <1>1, <1>2 DEF Phase
  <1>5. Closed' BY <1>2 DEF Closed
  <1>6. OneInService' BY <1>1, <1>2 DEF OneInService
  <1>7. WrittenSoFar' BY <1>2, SameEntries
  <1> QED BY <1>3, <1>4, <1>5, <1>6, <1>7

-----------------------------------------------------------------------------
(* The boot.  Before the APIC is in use no entry has to be written.        *)

\* PIC::Disable masks every input.
LEMMA AllMasked ==
    /\ Master \cup Slave \subseteq 0 .. 15
    /\ Cascade \in Master \cup Slave
  BY DEF Master, Slave, Cascade

\* Remap starts the PICs anew, all inputs masked.
LEMMA InitializeExceptionsStep == ASSUME Inv, InitializeExceptions PROVE Inv'
  <1> USE DEF Inv, InitializeExceptions, Boot, pic, apic
  <1>0. masked' \subseteq 0 .. 15 /\ Cascade \in masked'
    BY AllMasked
  <1>1. TypeOK' BY <1>0 DEF TypeOK
  <1>2. Phase' BY DEF Phase, Early, Exchange, Writing
  <1>3. Closed' BY <1>0 DEF Closed
  <1>4. OneInService' BY DEF OneInService
  <1>5. WrittenSoFar' BY DEF WrittenSoFar, Phase, Early
  <1> QED BY <1>1, <1>2, <1>3, <1>4, <1>5

\* PIC::Mask opens the three devices and leaves the cascade closed.
LEMMA MaskEarlyStep == ASSUME Inv, MaskEarly PROVE Inv'
  <1> USE DEF Inv, MaskEarly, Boot, pic, apic
  <1>0. masked' \subseteq 0 .. 15 /\ Cascade \in masked'
    BY IrqValues DEF Unmasked, Cascade, TypeOK, Closed
  <1>1. TypeOK' BY <1>0 DEF TypeOK
  <1>2. Phase' BY DEF Phase, Early, Exchange, Writing
  <1>3. Closed' BY <1>0 DEF Closed
  <1>4. OneInService' BY DEF OneInService
  <1>5. WrittenSoFar' BY DEF WrittenSoFar, Phase, Early
  <1> QED BY <1>1, <1>2, <1>3, <1>4, <1>5

\* RTC::Initialize.
LEMMA InitializeRtcStep == ASSUME Inv, InitializeRtc PROVE Inv'
  <1> USE DEF Inv, InitializeRtc, Boot, pic, apic
  <1>1. TypeOK' BY DEF TypeOK
  <1>2. Phase' BY DEF Phase, Early, Exchange, Writing
  <1>3. Closed' BY DEF Closed
  <1>4. OneInService' BY DEF OneInService
  <1>5. WrittenSoFar' BY DEF WrittenSoFar, Phase, Early
  <1> QED BY <1>1, <1>2, <1>3, <1>4, <1>5

\* Start, and the first sti.
LEMMA StartSchedulerStep == ASSUME Inv, StartScheduler PROVE Inv'
  <1> USE DEF Inv, StartScheduler, Boot, pic, apic
  <1>1. TypeOK' BY DEF TypeOK
  <1>2. Phase' BY DEF Phase, Early, Exchange, Writing
  <1>3. Closed' BY DEF Closed
  <1>4. OneInService' BY DEF OneInService
  <1>5. WrittenSoFar' BY DEF WrittenSoFar, Phase, Early
  <1> QED BY <1>1, <1>2, <1>3, <1>4, <1>5

\* With an APIC the exchange begins with interrupts off.
LEMMA InitializeSMPStep == ASSUME Inv, InitializeSMP PROVE Inv'
  <1> USE DEF Inv, InitializeSMP, Boot, pic, apic
  <1>1. TypeOK' BY DEF TypeOK
  <1>2. Phase' BY MachineOK DEF Phase, Early, Exchange, Writing, TypeOK
  <1>3. Closed' BY DEF Closed
  <1>4. OneInService' BY DEF OneInService
  <1>5. WrittenSoFar' BY DEF WrittenSoFar, Phase
  <1> QED BY <1>1, <1>2, <1>3, <1>4, <1>5

\* The PICs are silenced before the APIC is set up.
LEMMA DisablePicStep == ASSUME Inv, DisablePic PROVE Inv'
  <1> USE DEF Inv, DisablePic, Boot, pic, apic
  <1>0. masked' \subseteq 0 .. 15 /\ Cascade \in masked'
    BY AllMasked
  <1>1. TypeOK' BY <1>0 DEF TypeOK
  <1>2. Phase' BY DEF Phase, Early, Exchange, Writing
  <1>3. Closed' BY <1>0 DEF Closed
  <1>4. OneInService' BY DEF OneInService
  <1>5. WrittenSoFar' BY DEF WrittenSoFar, Phase, Exchange
  <1> QED BY <1>1, <1>2, <1>3, <1>4, <1>5

\* APIC::Initialize masks every entry.
LEMMA InitializeApicStep == ASSUME Inv, InitializeApic PROVE Inv'
  <1> USE DEF Inv, InitializeApic, Boot, pic, apic
  <1>1. TypeOK' BY DEF TypeOK
  <1>2. Phase' BY DEF Phase, Early, Exchange, Writing
  <1>3. Closed' BY DEF Closed
  <1>4. OneInService' BY DEF OneInService, Phase, Exchange
  <1>5. WrittenSoFar'
    <2>1. Opened' = {}
      BY DEF Opened
    <2>2. "masked" \notin Device
      BY DEF Device
    <2> QED BY <2>1, <2>2 DEF WrittenSoFar
  <1> QED BY <1>1, <1>2, <1>3, <1>4, <1>5

\* One entry at a time: no two devices are wired to one input, so a write
\* leaves the earlier ones alone.
LEMMA SetEntryStep ==
    ASSUME Inv, NEW d \in Device, NEW next,
           \/ d = "PIT" /\ next = "RTC"
           \/ d = "RTC" /\ next = "Keyboard"
           \/ d = "Keyboard" /\ next = "enable",
           SetEntry(d, next)
    PROVE  Inv'
  <1> USE DEF Inv
  <1>1. /\ handling = <<>> /\ pc = d /\ pc' = next /\ machine' = machine
        /\ entry' = [g \in Gsi |-> IF g \in Written(d) THEN d ELSE entry[g]]
        /\ UNCHANGED <<interrupts, line, ticking, masked, requested, inService, picWired,
                       latched, enabled, irr, isr, inUse, pitHandler, handling, deaf>>
    BY DEF SetEntry, Boot, pic
  <1>2. TypeOK' BY <1>1 DEF TypeOK
  <1>3. Phase' BY <1>1 DEF Phase, Early, Exchange, Writing
  <1>4. Closed' BY <1>1 DEF Closed
  <1>5. OneInService' BY <1>1 DEF OneInService
  <1>6. WrittenSoFar'
    <2>1. ASSUME NEW n PROVE Candidates(n)' = Candidates(n)
      BY <1>1 DEF Candidates
    <2>2. ASSUME NEW e \in Device PROVE Written(e)' = Written(e)
      BY <1>1, <2>1 DEF Written, HasInput
    <2>3. Opened' = Opened \cup {d} /\ d \notin Opened
      BY <1>1 DEF Opened, Device
    <2>4. inUse
      BY <1>1 DEF Phase, Writing
    <2>5. \A g \in Gsi, e \in Device : entry[g] = e <=> g \in Written(e) /\ e \in Opened
      BY <2>4 DEF WrittenSoFar
    <2>6. ASSUME NEW e \in Device, NEW g \in Written(d), g \in Written(e) PROVE e = d
      <3>1. UsableAPIC(machine)
        BY <1>1 DEF Phase, Writing
      <3>2. g = machine.gsi[d] /\ g = machine.gsi[e]
        BY <2>6, <3>1, MachineOK DEF Written
      <3> QED BY <3>2, MachineOK
    <2>7. ASSUME NEW g \in Gsi, NEW e \in Device
          PROVE  entry'[g] = e <=> g \in Written(e) /\ e \in Opened \cup {d}
      BY <1>1, <2>3, <2>5, <2>6
    <2> QED BY <2>2, <2>3, <2>7 DEF WrittenSoFar
  <1> QED BY <1>2, <1>3, <1>4, <1>5, <1>6

\* APIC::Enable finds all three entries written.
LEMMA EnableStep == ASSUME Inv, Enable PROVE Inv'
  <1> USE DEF Inv, Enable, Boot, pic
  <1>1. TypeOK'
    <2>1. irr' \subseteq Device /\ latched' \subseteq Device
      BY DEF TypeOK
    <2>2. deaf' \subseteq Device
      BY DEF TypeOK
    <2> QED BY <2>1, <2>2 DEF TypeOK
  <1>2. Phase' BY DEF Phase, Early, Exchange, Writing
  <1>3. Closed' BY DEF Closed
  <1>4. OneInService' BY DEF OneInService
  <1>5. WrittenSoFar'
    <2>1. ASSUME NEW n PROVE Candidates(n)' = Candidates(n)
      BY DEF Candidates
    <2>2. ASSUME NEW e \in Device PROVE Written(e)' = Written(e)
      BY <2>1 DEF Written, HasInput
    <2>3. Opened' = Opened
      BY DEF Opened
    <2> QED BY <2>2, <2>3 DEF WrittenSoFar
  <1> QED BY <1>1, <1>2, <1>3, <1>4, <1>5

-----------------------------------------------------------------------------
\* Every step preserves the invariant.
LEMMA NextInv == ASSUME Inv, [Next]_vars PROVE Inv'
  <1>1. CASE Tick \/ KeyByte \/ RtcPeriod
    BY <1>1, Edges
  <1>2. CASE Handle
    BY <1>2, TakeFromPicStep, TakeFromApicStep, ServeDeviceStep, EndOfInterruptStep,
       ReturnStep DEF Handle
  <1>3. CASE BootStep
    <2>1. "PIT" \in Device /\ "RTC" \in Device /\ "Keyboard" \in Device
      BY DEF Device
    <2>2. CASE SetEntry("PIT", "RTC")
      BY <2>1, <2>2, SetEntryStep
    <2>3. CASE SetEntry("RTC", "Keyboard")
      BY <2>1, <2>3, SetEntryStep
    <2>4. CASE SetEntry("Keyboard", "enable")
      BY <2>1, <2>4, SetEntryStep
    <2> QED
      BY <1>3, <2>2, <2>3, <2>4, InitializeExceptionsStep, MaskEarlyStep, InitializeRtcStep,
         StartSchedulerStep, InitializeSMPStep, DisablePicStep, InitializeApicStep, EnableStep
         DEF BootStep
  <1>4. CASE UNCHANGED vars
    <2>1. UNCHANGED <<machine, pc, interrupts, line, ticking, masked, requested, inService,
                      picWired, entry, latched, enabled, irr, isr, inUse, pitHandler,
                      handling, deaf>>
      BY <1>4 DEF vars, pic, apic
    <2>2. TypeOK' BY <2>1, ZenonT(60) DEF Inv, TypeOK
    <2>3. Phase' BY <2>1 DEF Inv, Phase
    <2>4. Closed' BY <2>1 DEF Inv, Closed
    <2>5. OneInService' BY <2>1 DEF Inv, OneInService
    <2>6. WrittenSoFar' BY <2>1, SameEntries DEF Inv
    <2> QED BY <2>2, <2>3, <2>4, <2>5, <2>6 DEF Inv
  <1> QED BY <1>1, <1>2, <1>3, <1>4 DEF Next

\* Quiet: what is in service belongs to a handler that runs.
LEMMA InvQuiet == Inv => Quiet
  BY DEF Inv, OneInService, Quiet

\* Routed: with the local APIC on, the boot has written all entries.
LEMMA InvRouted == Inv => Routed
  <1> SUFFICES ASSUME Inv, enabled PROVE Routed
    BY DEF Routed
  <1>1. inUse /\ Opened = Device /\ UsableAPIC(machine)
    BY DEF Inv, TypeOK, Phase, Early, Exchange, Writing, Opened
  <1>2. ASSUME NEW g \in Gsi, NEW d \in Device
        PROVE  entry[g] = d <=> g \in Written(d)
    BY <1>1 DEF Inv, WrittenSoFar
  <1>3. ASSUME NEW g \in Gsi, NEW d \in Device
        PROVE  g \in Written(d) <=> g = machine.gsi[d] /\ d \notin Mislaid
    <2>1. machine.gsi[d] \in Gsi /\ GetRemappedIRQ(machine, Irq[d]) = machine.gsi[d]
      BY <1>1, MachineOK DEF Inv
    <2> QED BY <2>1 DEF Written, Mislaid
  <1> QED BY <1>2, <1>3 DEF Routed

\* The state has its types (the machine's masks, vectors and handlers).
THEOREM TypeCorrect == Spec => []TypeOK
  <1>1. Inv => TypeOK BY DEF Inv
  <1> QED BY <1>1, InitInv, NextInv, PTL DEF Spec

\* Whatever the machine's IOAPICs and overrides are, nothing stays in service
\* in a PIC or the local APIC when its handler has returned.
THEOREM QuietHolds == Spec => []Quiet
  BY InitInv, NextInv, InvQuiet, PTL DEF Spec

\* Once the local APIC is on, an input carries a device's vector exactly when
\* the device is wired to it and SetEntry did not lose it.
THEOREM RoutedHolds == Spec => []Routed
  BY InitInv, NextInv, InvRouted, PTL DEF Spec
=============================================================================
