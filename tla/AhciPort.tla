------------------------------- MODULE AhciPort -------------------------------
(***************************************************************************)
(* ATAPort of IO/AHCI.cpp: threads read sectors through the one command    *)
(* slot and the one buffer of a port, which a yielding mutex guards.  The  *)
(* device works at a pace of its own, may fail a command or never answer,  *)
(* and goes on with a command that the driver has given up.                *)
(*                                                                         *)
(* The loops that poll a register 100000 times are "go on, or give up once *)
(* the condition was seen not to hold": how many polls the device needs is *)
(* not related to anything.  Sectors hold their own number.                *)
(***************************************************************************)
EXTENDS Integers, Sequences, FiniteSets

CONSTANTS
    Threads,
    Boot,            \* the thread that constructs the AHCIDriver
    Requests,        \* the reads: records [bytes, sector, size]
    SectorSize,      \* bytes of a sector, 512 in the code
    BufferSectors,   \* mBufferSize / SECTOR_SIZE, 8 in the code
    LbaLow,          \* lba0, lba1 and lba2 carry sectorL modulo this, 2^24
    Word,            \* sectorL is the sector modulo this, 2^32
    Junk,            \* what a byte is that was not read from the disk
    Blank            \* a command table full of zeroes

ASSUME AhciAssumption ==
    /\ Boot \in Threads
    /\ Requests \subseteq [bytes : BOOLEAN, sector : Nat, size : Nat \ {0}]
    /\ SectorSize \in Nat \ {0} /\ BufferSectors \in Nat \ {0}
    /\ LbaLow \in Nat \ {0} /\ Word \in Nat \ {0} /\ LbaLow <= Word
    /\ Junk \notin Int
    /\ Blank \notin [lba : Nat, count : Nat]

VARIABLES
    mutex,          \* mMutex
    pc,             \* where each thread is in Configure or Read
    request,        \* the read each thread called
    job,            \* the locals of that read
    table,          \* the command header and table of slot 0
    mBuffer,        \* the sector in each part of the port's buffer
    commandIssue,   \* bit 0 of CommandIssue
    taskFileError,  \* HbaPxIS_TFES of InterruptStatus
    start,          \* HbaPxCMD_ST of cmdStatus
    listRunning,    \* HbaPxCMD_CR and HbaPxCMD_FR of cmdStatus
    busy,           \* AtaDevBusy of TaskFileData: the device executes a command
    armed,          \* the device has not served the last write to CommandIssue
    command,        \* the command the device executes, as it was read
    late            \* history: a driver gave up a command it had issued

registers == <<commandIssue, taskFileError, start, listRunning, busy, armed, command>>
vars == <<mutex, pc, request, job, table, mBuffer, registers, late>>

\* Configure, and Read and ReadBytes with ReadFillBuffer.
BootLabels == {"stop", "stopping", "configure", "start"}
Labels == BootLabels \cup
    {"idle", "lock", "clear", "fill", "busy", "issue", "wait", "over", "copy",
     "success", "fail"}
Inside == Labels \ {"idle", "lock", "stop", "configure", "start"}

-----------------------------------------------------------------------------
(***************************************************************************)
(* What a read computes before the first command: how often it fills the   *)
(* whole buffer, how many sectors are left then, and how many bytes of     *)
(* those it copies.  ReadBytes counts one sector more than it needs when   *)
(* the size is a multiple of the sector size.                              *)
(***************************************************************************)
SectorCount(r) == IF r.bytes THEN r.size \div SectorSize + 1 ELSE r.size

Fills(r) == SectorCount(r) \div BufferSectors

RestOfAll(r) == SectorCount(r)      \* mutant of Rest: the fills are not taken off

Rest(r) == SectorCount(r) % BufferSectors

RestBytes(r) ==
    IF Rest(r) = 0 THEN 0
    ELSE IF r.bytes THEN r.size - Fills(r) * BufferSectors * SectorSize
    ELSE Rest(r) * SectorSize

NewJob(r) == [sector |-> r.sector, fills |-> Fills(r), rest |-> Rest(r),
              tail |-> RestBytes(r), retried |-> FALSE, out |-> <<>>]

\* lba0 to lba2 are taken from the low word of the sector, lba3 to lba5 from
\* the high word: the bits of the low word from LbaLow on go nowhere.
Lba(sector) == ((sector % Word) % LbaLow) + (sector \div Word) * LbaLow

\* What is left of j after the buffer was filled; a mutant stays in place.
Stayed(j) == [j EXCEPT !.fills = @ - 1, !.retried = FALSE]

Advanced(j) == [j EXCEPT !.fills = @ - 1, !.sector = @ + BufferSectors, !.retried = FALSE]

\* The command of the next round of j.
Command(j) == [lba   |-> Lba(j.sector),
               count |-> IF j.fills > 0 THEN BufferSectors ELSE j.rest]

\* What memcpy takes from byte x of mBuffer, as an address on the disk.
ByteAt(x) ==
    LET sector == mBuffer[x \div SectorSize]
    IN  IF sector = Junk THEN Junk ELSE sector * SectorSize + (x % SectorSize)

Bytes(n) == [x \in 1 .. n |-> ByteAt(x - 1)]
-----------------------------------------------------------------------------
NoRequest == [bytes |-> FALSE, sector |-> 0, size |-> 0]
NoJob == [sector |-> 0, fills |-> 0, rest |-> 0, tail |-> 0, retried |-> FALSE, out |-> <<>>]

\* The firmware may leave the port running.
Init ==
    /\ mutex = FALSE
    /\ pc = [t \in Threads |-> IF t = Boot THEN "stop" ELSE "idle"]
    /\ request = [t \in Threads |-> NoRequest]
    /\ job = [t \in Threads |-> NoJob]
    /\ table = Blank
    /\ mBuffer = [x \in 0 .. BufferSectors - 1 |-> Junk]
    /\ commandIssue = FALSE /\ taskFileError = FALSE
    /\ start \in BOOLEAN /\ listRunning = start
    /\ busy = FALSE /\ armed = FALSE /\ command = Blank
    /\ late = FALSE

Goto(t, label) == pc' = [pc EXCEPT ![t] = label]

(***************************************************************************)
(* Configure, called by the constructor before anybody else has the port.  *)
(* StopCMD and StartCMD say whether they timed out, and nobody asks.       *)
(***************************************************************************)
StopCMD ==
    /\ pc[Boot] = "stop"
    /\ mutex' = TRUE
    /\ start' = FALSE
    /\ Goto(Boot, "stopping")
    /\ UNCHANGED <<request, job, table, mBuffer, commandIssue, taskFileError,
                   listRunning, busy, armed, command, late>>

\* The list has stopped, or the loop has seen it running often enough.
StoppedOrTimedOut ==
    /\ pc[Boot] = "stopping"
    /\ mutex' = FALSE
    /\ Goto(Boot, "configure")
    /\ UNCHANGED <<request, job, table, mBuffer, registers, late>>

\* New pages for the list and the tables, which are cleared.
Configure ==
    /\ pc[Boot] = "configure"
    /\ table' = Blank
    /\ Goto(Boot, "start")
    /\ UNCHANGED <<mutex, request, job, mBuffer, registers, late>>

StartCMD ==
    /\ pc[Boot] = "start"
    /\ \/ ~listRunning /\ start' = TRUE
       \/ listRunning /\ UNCHANGED start
    /\ Goto(Boot, "idle")
    /\ UNCHANGED <<mutex, request, job, table, mBuffer, commandIssue, taskFileError,
                   listRunning, busy, armed, command, late>>

-----------------------------------------------------------------------------
\* Read or ReadBytes is called, and waits in MutexLock.
Read(t, r) ==
    /\ pc[t] = "idle" /\ pc[Boot] \notin BootLabels
    /\ request' = [request EXCEPT ![t] = r]
    /\ Goto(t, "lock")
    /\ UNCHANGED <<mutex, job, table, mBuffer, registers, late>>

LockAnyway(t) ==         \* mutant of Lock: the bit is not tested
    /\ pc[t] = "lock"
    /\ mutex' = TRUE
    /\ job' = [job EXCEPT ![t] = NewJob(request[t])]
    /\ Goto(t, "clear")
    /\ UNCHANGED <<request, table, mBuffer, registers, late>>

Lock(t) ==
    /\ pc[t] = "lock"
    /\ ~mutex
    /\ mutex' = TRUE
    /\ job' = [job EXCEPT ![t] = NewJob(request[t])]
    /\ Goto(t, "clear")
    /\ UNCHANGED <<request, table, mBuffer, registers, late>>

\* A round begins: InterruptStatus is reset and the table cleared.
Clear(t) ==
    /\ pc[t] = "clear"
    /\ taskFileError' = FALSE
    /\ table' = Blank
    /\ Goto(t, "fill")
    /\ UNCHANGED <<mutex, request, job, mBuffer, commandIssue, start, listRunning,
                   busy, armed, command, late>>

\* The region and the command are written.
Fill(t) ==
    /\ pc[t] = "fill"
    /\ table' = Command(job[t])
    /\ Goto(t, "busy")
    /\ UNCHANGED <<mutex, request, job, mBuffer, registers, late>>

IdleAssumed(t) ==        \* mutant of AwaitIdle: TaskFileData is not looked at
    /\ pc[t] = "busy"
    /\ Goto(t, "issue")
    /\ UNCHANGED <<mutex, request, job, table, mBuffer, registers, late>>

\* TaskFileData is polled: the device is idle, or was seen busy too often.
AwaitIdle(t) ==
    /\ pc[t] = "busy"
    /\ Goto(t, IF busy THEN "over" ELSE "issue")
    /\ UNCHANGED <<mutex, request, job, table, mBuffer, registers, late>>

\* The bit of a command that is being executed is set already.
Issue(t) ==
    /\ pc[t] = "issue"
    /\ commandIssue' = TRUE
    /\ armed' = (armed \/ ~busy)
    /\ Goto(t, "wait")
    /\ UNCHANGED <<mutex, request, job, table, mBuffer, taskFileError, start, listRunning,
                   busy, command, late>>

AwaitNothing(t) ==       \* mutant of Await: CommandIssue is not looked at
    /\ pc[t] = "wait"
    /\ Goto(t, "copy")
    /\ UNCHANGED <<mutex, request, job, table, mBuffer, registers, late>>

\* CommandIssue is polled: the bit is clear, or it was seen set with an error
\* in InterruptStatus or too often.
Await(t) ==
    /\ pc[t] = "wait"
    /\ Goto(t, IF commandIssue THEN "over" ELSE "copy")
    /\ UNCHANGED <<mutex, request, job, table, mBuffer, registers, late>>

RetryForever(t) ==       \* mutant of GiveUp: a whole buffer is tried again and again
    /\ pc[t] = "over"
    /\ late' = (late \/ busy \/ armed)
    /\ IF job[t].fills > 0
       THEN job' = [job EXCEPT ![t].retried = TRUE] /\ Goto(t, "clear")
       ELSE Goto(t, "fail") /\ UNCHANGED job
    /\ UNCHANGED <<mutex, request, table, mBuffer, registers>>

\* The round has failed, whatever the device did since.  A whole buffer is
\* tried again once.
GiveUp(t) ==
    /\ pc[t] = "over"
    /\ late' = (late \/ busy \/ armed)
    /\ IF job[t].fills > 0 /\ ~job[t].retried
       THEN job' = [job EXCEPT ![t].retried = TRUE] /\ Goto(t, "clear")
       ELSE Goto(t, "fail") /\ UNCHANGED job
    /\ UNCHANGED <<mutex, request, table, mBuffer, registers>>

\* memcpy to the caller; then the next round, or the end.
Copy(t) ==
    LET j == job[t]
    IN  /\ pc[t] = "copy"
        /\ IF j.fills > 0
           THEN /\ job' = [job EXCEPT ![t] = [Advanced(j) EXCEPT
                               !.out = @ \o Bytes(BufferSectors * SectorSize)]]
                /\ Goto(t, IF j.fills = 1 /\ j.rest = 0 THEN "success" ELSE "clear")
           ELSE /\ job' = [job EXCEPT ![t].out = @ \o Bytes(j.tail)]
                /\ Goto(t, "success")
        /\ UNCHANGED <<mutex, request, table, mBuffer, registers, late>>

\* The mutex is unlocked and the read returns true or false.
Return(t) ==
    /\ pc[t] \in {"success", "fail"}
    /\ mutex' = FALSE
    /\ request' = [request EXCEPT ![t] = NoRequest]
    /\ job' = [job EXCEPT ![t] = NoJob]
    /\ Goto(t, "idle")
    /\ UNCHANGED <<table, mBuffer, registers, late>>

-----------------------------------------------------------------------------
(***************************************************************************)
(* The device, as the driver takes it to be: it reads the table when it    *)
(* turns busy; when it is done the data is in the buffer and the bit in    *)
(* CommandIssue clear before it is idle again; a failed command leaves the *)
(* bit set.                                                                *)
(***************************************************************************)
drivers == <<mutex, pc, request, job, table, late>>

ListStarts ==
    /\ start # listRunning /\ ~busy
    /\ listRunning' = start
    /\ UNCHANGED <<drivers, mBuffer, commandIssue, taskFileError, start, busy, armed, command>>

Fetch ==
    /\ listRunning /\ armed /\ ~busy
    /\ busy' = TRUE /\ armed' = FALSE
    /\ command' = table
    /\ UNCHANGED <<drivers, mBuffer, commandIssue, taskFileError, start, listRunning>>

Complete ==
    /\ busy /\ command # Blank
    /\ mBuffer' = [x \in DOMAIN mBuffer |->
                      IF x < command.count THEN command.lba + x ELSE mBuffer[x]]
    /\ busy' = FALSE /\ commandIssue' = FALSE /\ command' = Blank
    /\ UNCHANGED <<drivers, taskFileError, start, listRunning, armed>>

Fail ==
    /\ busy
    /\ taskFileError' = TRUE
    /\ busy' = FALSE /\ command' = Blank
    /\ UNCHANGED <<drivers, mBuffer, commandIssue, start, listRunning, armed>>

Device == ListStarts \/ Fetch \/ Complete \/ Fail

-----------------------------------------------------------------------------
Configuring == StopCMD \/ StoppedOrTimedOut \/ Configure \/ StartCMD

Step(t) ==
    \/ Clear(t)
    \/ Fill(t)
    \/ AwaitIdle(t)
    \/ Issue(t)
    \/ Await(t)
    \/ GiveUp(t)
    \/ Copy(t)
    \/ Return(t)

Next ==
    \/ Configuring
    \/ \E t \in Threads : Lock(t) \/ Step(t) \/ \E r \in Requests : Read(t, r)
    \/ Device

(***************************************************************************)
(* A thread that has the port is given the processor again and again, and  *)
(* its loops are bounded.  Nothing is asked of the device, and not that a  *)
(* thread in MutexLock is ever the one that gets the bit.                  *)
(***************************************************************************)
Fairness == WF_vars(Configuring) /\ \A t \in Threads : WF_vars(Step(t))

Spec == Init /\ [][Next]_vars /\ Fairness

-----------------------------------------------------------------------------
Commands == [lba : Nat, count : 1 .. BufferSectors]
Jobs == [sector : Nat, fills : Nat, rest : 0 .. BufferSectors - 1,
         tail : 0 .. BufferSectors * SectorSize - 1, retried : BOOLEAN,
         out : Seq(Nat \cup {Junk})]

TypeOK ==
    /\ mutex \in BOOLEAN /\ late \in BOOLEAN
    /\ pc \in [Threads -> Labels]
    /\ request \in [Threads -> Requests \cup {NoRequest}]
    /\ job \in [Threads -> Jobs]
    /\ table \in Commands \cup {Blank}
    /\ mBuffer \in [0 .. BufferSectors - 1 -> Nat \cup {Junk}]
    /\ commandIssue \in BOOLEAN /\ taskFileError \in BOOLEAN
    /\ start \in BOOLEAN /\ listRunning \in BOOLEAN
    /\ busy \in BOOLEAN /\ armed \in BOOLEAN
    /\ command \in Commands \cup {Blank}

\* The mutex is locked when and only when one thread, and one only, works with
\* the buffer and the registers of the port.
PortOwned ==
    /\ mutex <=> \E t \in Threads : pc[t] \in Inside
    /\ \A t, u \in Threads : pc[t] \in Inside /\ pc[u] \in Inside => t = u

\* When a command is found to be over, the buffer holds what this command was
\* to read, also when the device was still busy with one that this or another
\* thread had given up.
BufferFresh ==
    \A t \in Threads : pc[t] = "copy" =>
        \A x \in 0 .. Command(job[t]).count - 1 : mBuffer[x] = Command(job[t]).lba + x

\* The driver changes the table under a device that executes it only after a
\* driver gave up a command that the device still had.
TableStable == [][busy => table' = table \/ late]_vars

\* A thread that has the port gives it back, whatever the device does.
PortReleased == mutex ~> ~mutex

\* What a read says for itself: it returns true, false, or not yet.
Said(label) ==
    CASE label = "success" -> "true" [] label = "fail" -> "false" [] OTHER -> "none"

\* The port is a disk that serves one read at a time, as Disk has it: what it
\* writes to a caller's buffer, also of a read that returns false in the end,
\* are the bytes of the disk in order, and no more than Disk allows.
Serving == {t \in Threads : pc[t] \in Inside \ BootLabels}
Data == [t \in Threads |-> job[t].out]
Answer == [t \in Threads |-> Said(pc[t])]

Promise == INSTANCE Disk
    WITH Reach <- LbaLow, asked <- request, served <- Serving, data <- Data, answer <- Answer

Implements == Promise!Spec
=============================================================================
