---------------------------------- MODULE Irq ----------------------------------
(***************************************************************************)
(* Interrupt lines from the device to the handler and back: the boot order *)
(* of InitializeKernel and InitializeSMP (KernelUtils.cpp), PIC.cpp, the   *)
(* IOAPIC and the local APIC, and the handlers of Interrupts.cpp.          *)
(*                                                                         *)
(* Lines are edge triggered: no redirection entry asks for anything else.  *)
(* The PIT gives an edge at every tick; the keyboard's line is high while  *)
(* a byte waits at port 0x60, the RTC's while register C is unread, and    *)
(* neither rises again before it fell.  What an edge is worth at an entry  *)
(* that is masked, or at a local APIC that is not enabled, depends on the  *)
(* machine: real hardware drops it, emulators deliver it later (latches).  *)
(*                                                                         *)
(* deaf is a history variable: the devices whose line was high when the    *)
(* controller that should see it rise was started.                         *)
(***************************************************************************)
EXTENDS Integers, Sequences, FiniteSets

CONSTANTS
    Machines,   \* [madt : Seq(Record), found, latches, gsi : [Device -> Gsi]]
    MaxGsi      \* highest number of an IOAPIC input

Device == {"PIT", "Keyboard", "RTC"}

\* irqVector - IRQ_OFFSET.
Irq == [d \in Device |-> CASE d = "PIT" -> 0 [] d = "Keyboard" -> 1 [] d = "RTC" -> 8]
Gsi == 0 .. MaxGsi
Master == 0 .. 7
Slave == 8 .. 15
Cascade == 2

\* The records of the firmware's MADT; what ParseMADT passes over is "other".
Record ==
    [type : {"LAPIC", "x2LAPIC", "other"}]
        \cup [type : {"IOAPIC"}, base : Nat, entries : Nat]
        \cup [type : {"override"}, source : 0 .. 15, gsi : Gsi]

\* ParseMADT: the IOAPICs in the table's order; the last override of an irq,
\* which is its place in IRQOverrides; no APIC without a table (found), or when
\* the processors have an x2APIC.
Parsed(m, type) == {i \in DOMAIN m.madt : m.madt[i].type = type}
UsableAPIC(m) == m.found /\ Parsed(m, "x2LAPIC") = {}
IOAPICs(m) == SelectSeq(m.madt, LAMBDA r : r.type = "IOAPIC")
Overrides(m, irq) == {i \in Parsed(m, "override") : m.madt[i].source = irq}
GetRemappedIRQ(m, irq) ==
    IF Overrides(m, irq) = {} THEN irq
    ELSE m.madt[CHOOSE i \in Overrides(m, irq) : \A j \in Overrides(m, irq) : j <= i].gsi

\* The table says how the devices are wired, each to an input of its own:
\* of two that share one, SetEntry's second write would be the last.
ASSUME MachineAssumption ==
    \A m \in Machines :
        /\ m.madt \in Seq(Record)
        /\ m.found \in BOOLEAN /\ m.latches \in BOOLEAN
        /\ m.gsi \in [Device -> Gsi]
        /\ \A d, e \in Device : m.gsi[d] = m.gsi[e] => d = e
        /\ UsableAPIC(m) => \A d \in Device : GetRemappedIRQ(m, Irq[d]) = m.gsi[d]

VARIABLES
    machine,    \* what the firmware's MADT and the hardware are, never changed
    pc,         \* how far the boot thread has come
    interrupts, \* the processor's interrupt flag
    line,       \* the devices whose line is high
    ticking,    \* the RTC's interrupt is enabled
    masked, requested, inService,   \* IMR, IRR and ISR of both PICs
    picWired,   \* LINT0 passes the PIC's interrupt on
    entry,      \* IOAPIC redirection entries: the vector's device, or "masked"
    latched,    \* devices whose edge the IOAPIC or local APIC keeps for later
    enabled, irr, isr,  \* the local APIC: software enable, IRR, ISR
    inUse,      \* APIC::InUse
    pitHandler, \* GlobalInterruptTable[PIT]
    handling,   \* <<>> or <<device, step>> of the handler that runs
    deaf

pic == <<masked, requested, inService, picWired>>
apic == <<entry, latched, enabled, irr, isr>>
vars == <<machine, pc, interrupts, line, ticking, pic, apic, inUse, pitHandler,
          handling, deaf>>

Init ==
    /\ machine \in Machines
    /\ pc = "exceptions"
    /\ interrupts = FALSE                       \* cli
    /\ line \in {{}, {"Keyboard"}}
    /\ ticking = FALSE
    /\ masked = Master \cup Slave /\ requested = {} /\ inService = {}
    /\ picWired = TRUE
    /\ entry = [g \in Gsi |-> "masked"]
    /\ latched = {} /\ enabled = FALSE /\ irr = {} /\ isr = {}
    /\ inUse = FALSE
    /\ pitHandler = "stub"
    /\ handling = <<>>
    /\ deaf = {}

Min(S) == CHOOSE x \in S : \A y \in S : x <= y

-----------------------------------------------------------------------------
(***************************************************************************)
(* The devices and the controllers.                                        *)
(***************************************************************************)
\* What becomes of an edge of d at the IOAPIC, given its entries.
Reaches(d) == entry[machine.gsi[d]] \in Device

Rise(d) ==
    /\ requested' = requested \cup {Irq[d]}
    /\ IF Reaches(d) /\ enabled
       THEN irr' = irr \cup {entry[machine.gsi[d]]} /\ UNCHANGED latched
       ELSE latched' = (IF machine.latches THEN latched \cup {d} ELSE latched) /\ UNCHANGED irr
    /\ UNCHANGED <<machine, pc, interrupts, ticking, masked, inService, picWired,
                   entry, enabled, isr, inUse, pitHandler, handling, deaf>>

Tick == Rise("PIT") /\ UNCHANGED line

KeyByte == "Keyboard" \notin line /\ line' = line \cup {"Keyboard"} /\ Rise("Keyboard")

RtcPeriod == ticking /\ "RTC" \notin line /\ line' = line \cup {"RTC"} /\ Rise("RTC")

\* The 8259s' fully nested priorities: an interrupt in service holds off its
\* equals and all below it.  The slave speaks through the master's input 2.
Asking(S) ==
    {i \in (requested \cap S) \ masked : \A j \in inService \cap S : i < j}

MasterAsks ==
    {i \in Asking(Master) \cup (IF Asking(Slave) # {} /\ Cascade \notin masked THEN {Cascade} ELSE {}) :
        \A j \in inService \cap Master : i < j}

TakeFromPic ==
    /\ interrupts /\ handling = <<>> /\ picWired
    /\ MasterAsks # {}
    /\ LET i == Min(MasterAsks)
           n == IF i = Cascade THEN Min(Asking(Slave)) ELSE i
       IN  /\ inService' = inService \cup {i, n}
           /\ requested' = requested \ {n}
           /\ \E d \in Device : Irq[d] = n /\ handling' = <<d, "device">>
    /\ interrupts' = FALSE
    /\ UNCHANGED <<machine, pc, line, ticking, masked, picWired, apic, inUse,
                   pitHandler, deaf>>

\* All three vectors are of one priority class; the highest goes first.
TakeFromApic ==
    /\ interrupts /\ handling = <<>> /\ enabled
    /\ irr # {} /\ isr = {}
    /\ \E d \in irr :
         /\ \A x \in irr : Irq[x] <= Irq[d]
         /\ handling' = <<d, "device">>
         /\ irr' = irr \ {d} /\ isr' = {d}
    /\ interrupts' = FALSE
    /\ UNCHANGED <<machine, pc, line, ticking, pic, entry, latched, enabled, inUse,
                   pitHandler, deaf>>

-----------------------------------------------------------------------------
(***************************************************************************)
(* The handlers: hKeyboardInt reads the byte, hRtcTick reads register C,   *)
(* hPitTick or hPitScheduler needs nothing of its device.                  *)
(***************************************************************************)
ServeDevice ==
    /\ handling # <<>> /\ handling[2] = "device"
    /\ line' = line \ {handling[1]}
    /\ handling' = <<handling[1], IF handling[1] = "PIT" /\ pitHandler = "stub"
                                  THEN "return" ELSE "end">>
    /\ UNCHANGED <<machine, pc, interrupts, ticking, pic, apic, inUse, pitHandler, deaf>>

\* PIC::SendEIO(false), which every handler here sends, the RTC's too.
SendEIO == inService' = inService \ {Min(inService \cap Master)}

EndOfInterrupt ==
    /\ handling # <<>> /\ handling[2] = "end"
    /\ handling' = <<handling[1], "return">>
    /\ IF inUse THEN isr' = {} /\ UNCHANGED inService
       ELSE SendEIO /\ UNCHANGED isr
    /\ UNCHANGED <<machine, pc, interrupts, line, ticking, masked, requested, picWired,
                   entry, latched, enabled, irr, inUse, pitHandler, deaf>>

Return ==
    /\ handling # <<>> /\ handling[2] = "return"
    /\ handling' = <<>>
    /\ interrupts' = TRUE
    /\ UNCHANGED <<machine, pc, line, ticking, pic, apic, inUse, pitHandler, deaf>>

-----------------------------------------------------------------------------
(***************************************************************************)
(* The boot thread.                                                        *)
(***************************************************************************)
Boot(from, to) == handling = <<>> /\ pc = from /\ pc' = to /\ UNCHANGED machine

\* InitializeExceptions: PIC::Disable, then Remap, which starts both PICs
\* anew, puts the mask it found back and forgets every edge seen so far.
InitializeExceptions ==
    /\ Boot("exceptions", "mask")
    /\ masked' = Master \cup Slave
    /\ requested' = {} /\ inService' = {}
    /\ pitHandler' = "tick"
    /\ deaf' = line
    /\ UNCHANGED <<interrupts, line, ticking, picWired, apic, inUse, handling>>

\* Mutants of Unmasked: Mask takes its state the other way round; the cascade is opened too,
\* as it has to be for the RTC.
MaskedInstead(mask) == mask \cup {Irq["Keyboard"], Irq["PIT"], Irq["RTC"]}

UnmaskedAll(mask) == mask \ {Irq["Keyboard"], Irq["PIT"], Irq["RTC"], Cascade}

\* PIC::Mask(Keyboard | PIT | RTC, true)
Unmasked(mask) == mask \ {Irq["Keyboard"], Irq["PIT"], Irq["RTC"]}

MaskEarly ==
    /\ Boot("mask", "rtc")
    /\ masked' = Unmasked(masked)
    /\ UNCHANGED <<interrupts, line, ticking, requested, inService, picWired, apic,
                   inUse, pitHandler, handling, deaf>>

\* RTC::Initialize reads register C once.
InitializeRtc ==
    /\ Boot("rtc", "scheduler")
    /\ ticking' = TRUE
    /\ line' = line \ {"RTC"}
    /\ UNCHANGED <<interrupts, pic, apic, inUse, pitHandler, handling, deaf>>

StartScheduler ==
    /\ Boot("scheduler", "acpi")
    /\ pitHandler' = "scheduler"
    /\ interrupts' = TRUE                       \* sti
    /\ UNCHANGED <<line, ticking, pic, apic, inUse, handling, deaf>>

\* InitializeACPI finds the MADT, or not; InitializeSMP clears the flag.
InitializeSMP ==
    /\ \/ UsableAPIC(machine) /\ Boot("acpi", "disable pic") /\ interrupts' = FALSE
       \/ ~UsableAPIC(machine) /\ Boot("acpi", "done") /\ UNCHANGED interrupts
    /\ UNCHANGED <<line, ticking, pic, apic, inUse, pitHandler, handling, deaf>>

DisablePic ==
    /\ Boot("disable pic", "initialize apic")
    /\ masked' = Master \cup Slave
    /\ UNCHANGED <<interrupts, line, ticking, requested, inService, picWired, apic,
                   inUse, pitHandler, handling, deaf>>

\* APIC::Initialize: LINT0 masked, the local APIC off, all entries masked.
InitializeApic ==
    /\ Boot("initialize apic", "PIT")
    /\ picWired' = FALSE
    /\ enabled' = FALSE
    /\ entry' = [g \in Gsi |-> "masked"]
    /\ inUse' = TRUE
    /\ UNCHANGED <<interrupts, line, ticking, masked, requested, inService, latched,
                   irr, isr, pitHandler, handling, deaf>>

\* The IOAPIC that SetEntry takes for irq: the first whose inputs irq is
\* among, or is the one right behind.
Candidates(irq) ==
    {x \in DOMAIN IOAPICs(machine) :
        LET io == IOAPICs(machine)[x] IN io.base <= irq /\ io.base + io.entries >= irq}

\* WriteIOAPICRedirectionEntry writes to an input of this IOAPIC only.
HasInput(x, g) ==
    LET io == IOAPICs(machine)[x] IN g \in io.base .. io.base + io.entries - 1

\* Mutant of Written: the interrupt source override is not looked up.
WrittenUnmapped(d) ==
    {g \in Gsi : g = Irq[d] /\ Candidates(g) # {} /\ HasInput(Min(Candidates(g)), g)}

\* The entry that SetEntry writes for d, none when it is not the IOAPIC's.
Written(d) ==
    {g \in Gsi : /\ g = GetRemappedIRQ(machine, Irq[d])
                 /\ Candidates(Irq[d]) # {}
                 /\ HasInput(Min(Candidates(Irq[d])), g)}

\* Mutant: the irq is written where the vector belongs, an exception's number.
SetEntryIrq(d, next) ==
    /\ Boot(d, next)
    /\ entry' = [g \in Gsi |-> IF g \in Written(d) THEN "exception" ELSE entry[g]]
    /\ UNCHANGED <<interrupts, line, ticking, pic, latched, enabled, irr, isr, inUse,
                   pitHandler, handling, deaf>>

SetEntry(d, next) ==
    /\ Boot(d, next)
    /\ entry' = [g \in Gsi |-> IF g \in Written(d) THEN d ELSE entry[g]]
    /\ UNCHANGED <<interrupts, line, ticking, pic, latched, enabled, irr, isr, inUse,
                   pitHandler, handling, deaf>>

\* APIC::Enable and popfq.  Kept edges of open entries arrive now.
Enable ==
    /\ Boot("enable", "done")
    /\ enabled' = TRUE
    /\ irr' = irr \cup {d \in latched : Reaches(d)}
    /\ latched' = {d \in latched : ~Reaches(d)}
    /\ deaf' = IF machine.latches THEN deaf ELSE deaf \cup line
    /\ interrupts' = TRUE
    /\ UNCHANGED <<line, ticking, pic, entry, isr, inUse, pitHandler, handling>>

BootStep ==
    \/ InitializeExceptions \/ MaskEarly \/ InitializeRtc \/ StartScheduler
    \/ InitializeSMP \/ DisablePic \/ InitializeApic
    \/ SetEntry("PIT", "RTC") \/ SetEntry("RTC", "Keyboard") \/ SetEntry("Keyboard", "enable")
    \/ Enable

Handle == TakeFromPic \/ TakeFromApic \/ ServeDevice \/ EndOfInterrupt \/ Return

Next == Tick \/ KeyByte \/ RtcPeriod \/ Handle \/ BootStep

(***************************************************************************)
(* The timer chip and the RTC never stop, a handler runs to its end, and   *)
(* the boot thread goes on whenever none runs: a handler returns to it,    *)
(* and no other thread exists yet.  No source interrupts so often that     *)
(* another that could be taken again and again never is: a handler takes   *)
(* microseconds, the fastest source comes every millisecond.               *)
(***************************************************************************)
Take(d) == (TakeFromPic \/ TakeFromApic) /\ handling'[1] = d

Pending(d) ==
    /\ interrupts /\ handling = <<>>
    /\ \/ /\ picWired
          /\ \/ Irq[d] \in Asking(Master)
             \/ Irq[d] \in Asking(Slave) /\ Cascade \notin masked
          /\ \A j \in inService \cap Master : Irq[d] < j
       \/ enabled /\ d \in irr /\ isr = {}

Fairness ==
    /\ WF_vars(Tick) /\ WF_vars(RtcPeriod)
    /\ WF_vars(ServeDevice \/ EndOfInterrupt \/ Return)
    /\ SF_vars(BootStep)
    /\ \A d \in Device : <>[]~Pending(d) \/ []<><<Take(d)>>_vars

Spec == Init /\ [][Next]_vars /\ Fairness

-----------------------------------------------------------------------------
TypeOK ==
    /\ machine \in Machines
    /\ pc \in {"exceptions", "mask", "rtc", "scheduler", "acpi", "disable pic",
               "initialize apic", "PIT", "RTC", "Keyboard", "enable", "done"}
    /\ interrupts \in BOOLEAN /\ ticking \in BOOLEAN /\ picWired \in BOOLEAN
    /\ enabled \in BOOLEAN /\ inUse \in BOOLEAN
    /\ line \subseteq Device \ {"PIT"} /\ latched \subseteq Device
    /\ irr \subseteq Device /\ isr \subseteq Device /\ deaf \subseteq Device
    /\ masked \subseteq 0 .. 15 /\ requested \subseteq {0, 1, 8}
    /\ inService \subseteq {0, 1, Cascade, 8}
    /\ entry \in [Gsi -> Device \cup {"masked"}]
    /\ pitHandler \in {"stub", "tick", "scheduler"}
    /\ handling = <<>> \/ handling \in Device \X {"device", "end", "return"}

\* No interrupt stays in service when its handler has returned, in the PIC or
\* in the local APIC, on either side of the switch.  That hRtcTick does not
\* end its interrupt at the slave does no harm: the cascade is never opened.
Quiet == handling = <<>> => inService = {} /\ isr = {}

\* The devices that SetEntry loses: the override leads to an input of another
\* IOAPIC than the one that was found, or an IOAPIC that ends right below the
\* irq was found first.
Mislaid ==
    {d \in Device : \/ Candidates(Irq[d]) = {}
                    \/ ~HasInput(Min(Candidates(Irq[d])), machine.gsi[d])}

\* With the APIC in use exactly the inputs that the three devices are wired
\* to carry their vectors, each its own.
Routed ==
    enabled => \A g \in Gsi, d \in Device :
        entry[g] = d <=> g = machine.gsi[d] /\ d \notin Mislaid

\* The timer interrupts the processor for ever, before and after the switch,
\* as the scheduler needs.  A byte of the keyboard and a period of the RTC
\* are served, unless the line rose before the controller was started that
\* should have seen it: then never again.  What is asked of the RTC here is
\* asked of the APIC's; RtcFires asks it of the PIC's.
TimerRuns == []<>(handling # <<>> /\ handling[1] = "PIT" /\ handling[2] = "end")

Served ==
    /\ "PIT" \notin Mislaid \/ ~UsableAPIC(machine) => TimerRuns
    /\ \A d \in {"Keyboard", "RTC"} :
        d \in line ~> \/ d \notin line
                      \/ d \in deaf
                      \/ UsableAPIC(machine) /\ d \in Mislaid
                      \/ d = "RTC" /\ ~UsableAPIC(machine)

\* The kernel unmasks the RTC at the PIC (KernelUtils.cpp:50), which stays in
\* use without an APIC, "USING FALLBACK PIC!" (line 102), and reads register
\* C "Just to make sure it will fire ints" (RTC.cpp:18).  It never fires one
\* there: Mask leaves the master's input from the slave masked.
RtcFires ==
    ~UsableAPIC(machine) => []<>(handling # <<>> /\ handling[1] = "RTC")
=============================================================================
