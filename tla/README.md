# A verification project for WaifuOS

WaifuOS is a small x86-64 kernel. This directory holds TLA+ models of its
core, the TLC configurations that check them and TLAPS proofs about them. Paths
are relative to the repository; `K/` stands for `src/Kernel/src/`.

## The system

| Component | Source | State | Operations | Interacts with |
|---|---|---|---|---|
| Page frame allocator | `K/Memory/PageFrameAllocator.cpp`, `K/BitMap.cpp` | bitmap, `LastPageIndex`, three counters | read the EFI map, lock, request, free pages | heap, page tables, every driver |
| Heap | `K/Memory/Memory.cpp` | doubly linked segments, `LastSegment`, `heapEnd`, `memoryLock` | malloc, calloc, free, expand | page allocator, everything |
| List | `K/Headers/List.h` | array, size, count | Add, Remove, RemoveAt, Get, Clear | ready queue, drivers; allocates from the heap |
| Scheduler | `K/Scheduling/Scheduling.cpp` | `ReadyQueue`, `CurrentThread`, quanta | Start, Yield, timer interrupt, CreateThread, ThreadExit | timer, heap, List |
| Locks | `K/Synchronization/` | one bit | spin lock, yielding mutex | heap, AHCI |
| Page tables | `K/Memory/PageTableManager.cpp`, `K/Headers/Paging.h` | four-level tree | MapMemory, SetVirtualFlag | page allocator |
| PIT, RTC | `K/Timers/` | 255 timer entries, elapsed time | Tick, Sleep, AddTimer, RemoveTimer | interrupts |
| Interrupts | `K/Interrupts/` | handler table, PIC masks, APIC mode, one saved register set | dispatch, mask, end of interrupt | timers, keyboard, scheduler |
| AHCI | `K/IO/AHCI.cpp` | per port: mutex, command list, bounce buffer | start, stop, read | mutex, Yield, page allocator |
| FAT32 | `K/IO/FileSystem/FAT32.cpp`, `K/Headers/FAT32.h` | drives, reference counts of entries | look up, read | AHCI, heap, List |
| Keyboard | `K/IO/Keyboard.cpp` | modifier and key state, command replies | KeyEvent, SendCommand | interrupts, console |
| Console | `K/PrimitiveConsole.cpp` | cursor, colours, framebuffer | WriteChar, NewLine, Backspace, scroll | everything that prints |
| PCI, ACPI, XHCI | `K/IO/` | tables found | enumerate | AHCI, APIC |
| Strings | `K/cstr.cpp`, `K/string.cpp` | static buffers | format, substring, conversions | everything |
| Boot | `K/Main.cpp`, `K/KernelUtils.cpp` | none | order of initialisation | all of the above |

`src/Bootloader` is the vendored gnu-efi with a small loader and
`src/OVMFbin` is firmware; neither is modelled.

What is hard in this code:

* **Preemption.** One processor, but the timer interrupt switches threads
  between any two instructions. The only lock the core takes is `memoryLock`,
  a spin lock. The page allocator, the ready queue and the walks of
  `PrintLeaks` have none.
* **Shared code in interrupt context.** `TaskSwitch` runs with interrupts off
  and appends to the list that threads append to with interrupts on; when the
  list is full it calls `malloc`.
* **Give up and try again.** `malloc` drops the lock between growing the heap
  and searching it again.
* **Boundaries.** Bitmaps round up to bytes, headers take 32 bytes out of pages
  that were rounded to the size asked for, pointers are scaled.
* **Hints and caches**: `LastPageIndex`, `LastSegment`, counters kept next to
  the bitmap they summarise.
* **Static buffers and no locks.** A directory lookup compares names in a buffer
  that every thread shares; the console's position is read, added to and tested
  by threads and by the keyboard's interrupt.
* **Edges that are lost.** An interrupt line that rises while nobody listens does
  not rise again before somebody serves the device.
* **Tables that map themselves.** The kernel edits page tables through the map
  they define, first under the loader's map, then under their own.

What makes each part correct: a page or block has one owner at a time and keeps
its mark while it is held; figures agree with the structure they summarise;
links and lengths describe one tiling of the heap and free memory is never left
in pieces; every malloc returns; no thread is lost, queued twice or starved,
and threads run in turn; a mutex protects its port's buffer and command slot; a
mapped address resolves to what was mapped last; a directory lookup ends, finds
what is there and frees what it took, and an entry is deleted once, when its last
copy goes; every interrupt is ended where it came from and no device falls
silent; the cursor stays on the screen and leaves no trace on it.

## Modules

| Module | Models | State and actions against the code |
|---|---|---|
| `PageFrameAllocator` | page allocator and bitmap | `pageBitmap` is the set of marked indices, one more than the buffer owns because `Get` and `Set` test with `>`; `ReadEfiMemoryMap` is the boot (with `ReservePage(s)`, `UnreservePage(s)`), `LockPages`, `RequestPage`, `RequestPages`, `FreePages` the rest. `held` is a history variable: who was handed what. |
| `HeapSpec` | what malloc and free promise | a thread asks, is later given a block that overlaps none, and a block stays until it is freed |
| `Heap` | `Memory.cpp` | `heap` is a record of the segments' lengths, links and flags; `Split`, `CombineForward`, `CombineBackward`, `ExpandHeap` are functions on it. What happens under `memoryLock` is one step (`Allocate`, `Expand`, `Free`); `malloc`'s retry is two. Addresses are counted in 16 bytes. |
| `List` | `Headers/List.h` | operators on a record `[slots, size, count]`, as the scheduler uses them |
| `Scheduler` | `Scheduling.cpp` with the spin lock, over `List` | interrupt handlers are one step; threads are preempted between the steps of `CreateThread`, `ReadyQueue.Add`, malloc and free. `cpu` is whose instructions run, `pc` a thread's saved context. |
| `AhciPort` | `ATAPort` of `AHCI.cpp` with its mutex, and the device | `Configure`, `StopCMD`, `StartCMD` at boot; a read is `Read`, `Lock`, rounds of `Clear`, `Fill`, `AwaitIdle`, `Issue`, `Await` and `Copy` or `GiveUp`, and `Return`. `ReadFillBuffer` and the last part of `Read` and `ReadBytes` are the same statements and one set of actions; `job` is what a call has left to do. `ListStarts`, `Fetch`, `Complete`, `Fail` are the device. `late` is a history variable. |
| `Disk` | what `ATAPort::Read` and `ReadBytes` promise | reads are served one at a time; the caller's buffer is filled from its start with the bytes of the disk; then the read returns true, with everything delivered, or false |
| `Fat32` | `FAT32.cpp` and `EntryInfo` of `FAT32.h`, with the drive a port gives and `cstr`'s static buffer | `Mount` fills `Drives`; a lookup is `GetEntryInfo`, then for each name `FindEntry`, `ReadCluster` and one step per slot (`AtEnd`, `AtDeleted`, `AtLongName`, `AtEntry`), with `BeginConvert`, `EndConvert`, `Compare` for the buffer, and `Leave`; `ReadFile` reads through the entry. `heap` holds the blocks that entries and lookups own, with the reference counts; the caller's `Construct`, `Assign` and `Destruct` change it too. |
| `AddressSpace` | what `MapMemory` promises | a flat map from pages to frames: a call changes its own page at most, when it ends, until memory is exhausted |
| `PageTables` | `PageTableManager.cpp`, `PageMapIndexer.cpp`, `Paging.h`, the mapping loops of `KernelUtils.cpp` and `ExpandHeap` | the four-level tree in memory (`tables`), `cr3` and `walk`, the call under way. One step per level: `AddTable` allocates, clears and hooks a table in, `Descend` follows an entry, `Finish` writes the last one. Composed with `PageFrameAllocator` by `INSTANCE`: every table and heap frame comes from its `RequestPage`, and `given`, a history variable, holds what it answered. The frame buffer is locked by whole pages, rounded down, and mapped rounded up. |
| `Irq` | boot order of `KernelUtils.cpp`, `PIC.cpp`, `IOAPIC.*`, `LocalAPIC.cpp`, `APIC.cpp` with the records of the MADT, the handlers of `Interrupts.cpp`, `RTC::Initialize` | `Boot` is the boot thread, one step per call that touches a controller; `Tick`, `KeyByte`, `RtcPeriod` raise lines; `Take...` is the processor, `ServeDevice`, `EndOfInterrupt`, `Return` a handler. The two PICs and the APICs are external. `deaf` is a history variable. |
| `Console` | `PrimitiveConsole.cpp`, `print` and `println` of `Globals.h`, `Keyboard.cpp` | operators on `screen` for a whole operation, which is how the interrupt runs it; for threads the same operations load by load and store by store (the build is `-O0`). `raced` and `screen.smeared` are history variables; `raced` counts prints that overlap and keys that come in one of the eight moments of `Drawing`. |
| `MCAhciPort`, `MCFat32`, `MCPageTables`, `MCIrq`, `MCConsole` | the instances that TLC checks | requests; a disk; machines; machines; keys and texts |
| `MCPageFrameAllocator` | the instances of the page allocator that TLC checks | two memory maps and the ranges that are locked |
| `PageFrameAllocatorProofs`, `HeapProofs`, `SchedulerProofs`, `AhciPortProofs`, `Fat32Proofs`, `PageTablesProofs`, `IrqProofs`, `ConsoleProofs` | theorems | |

In the kernel's source nothing calls `CreateThread`, `RequestPages` or
`ThreadExit` yet except through threads that an application of the kernel would
create; they are modelled as operations any thread may use.

## Runs

| Run | Instance | What it shows |
|---|---|---|
| `page_frames` | two memory maps: `Flat`, 7 pages in 4 regions under a bitmap of 8 bits, one past the memory; `Holed`, usable pages 0-1, a reserved page, an address hole and usable pages 5-9 (8 pages of memory, page numbers up to 9, a bitmap of 16 bits). One low page, pages of 4096 bytes, three ranges to lock (across the end of the bitmap, one page, past everything), runs of 3 | type, `Accounting`, `HintSound`, `HandedOutOnce` over all orders of the operations; pages are freed when they are held and also when they are not, a second time |
| `page_frames_trailing` | the same without runs | violated: bits past the end of memory stay free after boot |
| `page_frames_runs` | the same with runs | violated: a run sticks out of the bitmap and is locked in part |
| `heap` | 2 threads, sizes 0, 16, 40 and 96 bytes, pages of 6 units, 1 initial page, 5 calls of malloc, at most 12 pages | the list's structure, blocks, two expansions at most, every malloc returns, implements `HeapSpec` |
| `scheduler` | 4 threads, a ready queue of 1 slot that grows by 1, quanta of 3 ms in ticks of 2 | queue exact and in order unless `Add` was torn, lock ownership, no panic without a torn `Add`, threads run again and locks open again unless the machine hangs |
| `scheduler_robin` | 3 threads, a queue that need not grow | violated: a thread exits while another holds `memoryLock` |
| `ahci` | 2 threads, sectors of 2 bytes, a buffer of 2 sectors, 5 sectors below `LbaLow`, 5 kinds of read | one owner of the port, the buffer holds what a thread copies, a table changes under the device only after a command was given up, the port is always released, implements `Disk`: a successful read is complete and in order |
| `fat32` | 2 threads, 4 ports of which two have a file system, directories with short and long names, deleted slots, a directory that goes on in a second cluster in the middle of a long name, an empty file, a file longer than the buffer, 2 lookups in total; reads may fail | entries own their blocks exactly once (`BlocksOwned`); a lookup finds what the path names (`Resolves`); a file's bytes are read (`FilesRead`); lookups end (`LookupEnds`) |
| `page_tables` | 4 machines: memory for everything; one page short in the heap's phase; short before `cr3` is loaded; short after. Tables of 3 entries, so 81 pages | every page that was handed out is one table or one heap page, none is used twice and none is lost (`OwnedOnce`), memory maps to itself and the heap to its frames (`Reachable`), the tree implements the flat map (`Implements`) |
| `irq` | 7 machines, each a list of MADT records and a wiring: no MADT; x2APICs; one IOAPIC on hardware and, with a second override of the same irq, in an emulator; two IOAPICs in either order; one that ends at the RTC's irq; an override into the second | nothing stays in service and nothing is ended twice (`Quiet`), vectors reach their devices (`Routed`), devices are served again and again (`Served`) |
| `irq_rtc` | the same machines | violated: without an APIC no interrupt of the RTC is ever taken (`RtcFires`) |
| `console` | 2 threads, 2 columns, 2 lines, 3 calls of print and keys in total, starting in either column of the last line; one access of a member per step | the cursor comes back to the screen under any interleaving (`OnScreen`) and leaves no trace (`Clean`) |

**Bounds.** The page maps are small enough that every bit is reached and large
enough that the bitmap ends inside a byte, a hole lies between two regions and
the low pages overlap a usable region. In `heap`, 96 bytes is a page exactly,
so the first expansion leaves a segment that is a header too short
(`Memory.cpp:149`), 40 is rounded up, and 5 requests are enough to cut and
join segments on both sides of a block. `MaxPages` is never what stops a thread
(`MallocReturns` holds). In `scheduler`, one initial slot makes the queue grow
both in `CreateThread` and in the timer interrupt; with four threads one can
create, one exit, one hold the lock and one wait. In `ahci` the requests need a
rest only, two fills and a rest, one fill and nothing (as `ReadBytes` counts),
one sector more than is copied from, and a sector that the address bytes cannot
name; two threads suffice for one to leave a command behind and the other to
meet it. In `fat32` one lookup per thread suffices for the shared buffer, and two
by one thread for an entry that is assigned twice. In `page_tables` three entries
per table make each level's table appear, be shared and be left; the frame buffer
and the heap lie in other tables than memory. In `irq` nothing is bounded but the
number of inputs. In `console` two columns make every second character wrap and
two lines every second line scroll; two prints and a key meet in every order, and
threads are symmetric. Deadlock is checked where the system cannot stop; it is
switched off where it may (all requests made; the machine hung or halted on a
page fault).

**Fairness.** `Heap`: a thread inside malloc takes its next step (weak
fairness): between two steps `memoryLock` is free and the scheduler is round
robin. `Scheduler`: the timer fires again (weak fairness: the PIT never stops),
and a thread that is inside malloc with the lock and runs again and again leaves
it (strong fairness: a quantum is several ticks of 5 ms, the code under the lock
is short). No fairness is assumed of who gets the spin lock, which does not
guarantee it. `AhciPort`: a thread that has the port takes its next step (weak
fairness: `Yield` comes back and the polling loops are bounded). Nothing is asked
of the device, and a thread in `MutexLock` may wait for ever, since the mutex
prefers nobody. `Fat32`: a thread inside a lookup can always take its next step,
and the scheduler runs it again; written out as such, because which step it is
changes. `Irq`: the PIT ticks and the RTC's period passes (weak fairness), a
handler goes on to its `iret` (weak), the boot thread goes on whenever handlers
leave it time again and again (strong), and a pending interrupt that the processor
may take over and over is taken: handlers last microseconds and the fastest source
comes each millisecond, so the queue of them empties.

**The device** in `AhciPort` is external and does what the driver relies on: it
reads the command table when it turns busy, and when it is done the data is in
the buffer and the bit of `CommandIssue` clear before it is idle. A failed
command leaves the bit set. It may do all this late or never. How often a loop
polls is not related to anything: at each poll the condition may be met, or the
loop give up. `bufferSectorCount == 0` and `ReadFillBuffer`'s test for a locked
mutex never apply, because a buffer is a page and both callers hold the mutex.

## What is proved

Every theorem holds for all values of the constants that satisfy the named
assumptions of its module.

*Page allocator* (`PageFrameAllocatorProofs`). The inductive invariant adds to
the type and the checked invariants that nothing is held before boot and that
whatever is held and has a bit is marked (`HeldMarked`); from it follow
`TypeOK`, `Accounting`, `HintSound` and, as an action property,
`HandedOutOnce`. Counting is done with the cardinality of disjoint unions.

*Heap* (`HeapProofs`). The first half is about heaps, not steps: for a
well-formed heap, what `Insert`, `Swallow`, `Append`, `CombineForward`,
`CombineBackward`, `Release`, `ExpandHeap` and `Take` return, that it is well
formed again, which segments appear and disappear, and that free neighbours are
joined. The second half applies these lemmas to the steps. The invariant adds
`Room`: a thread that expanded the heap once, since anybody last took memory,
finds its pages but a header at the end of the heap, and after a second time the
size it wants; this is why it never expands a third time. From the invariant
follow `Linked`, `Coalesced`, `BlocksIntact`, `AtMostTwoExpansions` and the
refinement `Implements`, whose mapping is the identity on `pending` and `live`.

*Scheduler* (`SchedulerProofs`). The inductive invariant adds to `TypeOK` the
shape of the list and of what a creating thread holds, that its child was never
used before, and that nobody creates threads before the scheduler runs; lemmas
say that reading, writing, growing, adding and removing keep a list a list and
that `GetTimeQuantum` stays within the quantum. `LockOwned` follows because the
lock is taken and released only by steps of the thread that the processor runs,
so preemption never gives it two owners.

The ready queue has an invariant of its own (`QueueInv`), which holds until a
thread is preempted inside `ReadyQueue.Add` (`torn`). Its main part, `Queued`,
speaks of what the queue will hold when the `Add` under way is done: the array
that is about to be installed in place of the old one, and the count about to be
stored. In that array the slots below the count hold threads that are alive, each
once, and exactly those alive that are neither `current` nor created but not yet
added. `Halfway` ties the locals of the `Add` to the list, label by label.
Lemmas say what adding at the end, taking the first, moving the others down and
copying into a larger array do to such a list. `NoThreadLost` follows, and
`OnlyTornPanics`, because a slot above the count is never reached; the action
property `FirstInFirstOut` follows because every step leaves the queue, takes its
first or adds a last.

*AHCI port* (`AhciPortProofs`). The inductive invariant says that the owner of
the port is alone in it; that from the test of `TaskFileData` on the device works
on nothing but the owner's command (`Served`), because a device still busy with
a command that was given up makes that test fail; that a device at work has its
bit in `CommandIssue` set (`BitSet`), so a clear bit means the data is there; and
that, as long as nothing was given up early, the device is idle unless a thread
waits for it (`Quiet`). `PortOwned` and `BufferFresh` follow, and
`TableStable` from `Quiet`. The arithmetic of fills and rests is in lemmas about
`NewJob`, `Command` and `Advanced`.

`Delivered` (in the module of proofs) says what a read that returns true has put into
the caller's memory.
Its invariant, `Progress`, is the loop's: between two rounds the sectors that are
done, those that the fills to come will hold and the rest make up the sectors of
the request, and the bytes copied so far are the first of them, in order
(`Midway`). `BufferFresh` gives what a round copies, and lemmas on quotients and
remainders show that `Read` and `ReadBytes` count enough sectors and, for
`ReadBytes`, at most one too many.

The port also implements `Disk` (`ImplementsHolds`), which says more than
`Delivered`: what a caller's buffer holds is right at every moment, also when the
read is going to return false, no read writes more than a sector past what was
asked for, wherever on the disk it is, and two reads never overlap. The refinement
mapping takes the served thread and the answer from `pc` and the data from `job`;
`Lock` is `Begin`, `Copy` is `Deliver`, the `GiveUp` that is not a second attempt
is `Refuse`, and the rounds in between stutter. `Midway` bounds what is delivered
so far by the sectors counted, and `Resting` adds that a thread outside a read has
no request and one that waits for the mutex no data yet.

`PortReleased` itself is a liveness property and stays with TLC, but the variant it
rests on is proved: `StepsLeft` counts the tries that `fills`, `rest` and `retried`
leave and the steps of the round under way, and every step of the owner lowers it
(`CountsDown`). With the fairness that the scheduler gives, release follows.

*FAT32* (`Fat32Proofs`). For any well-formed volumes (`VolumesAssumption`: the
root and every directory that a slot names have clusters with at least a slot; as
many ports at most as there are drive numbers, and a controller has 32). The
invariant is about ownership (`Owned`): every block is either one that a lookup
took or the count or name of an entry; each count is the number of entries that
share it; entries share a name exactly when they share a count; blocks of lookups
are no entry's. A step is a sequence of five changes: an entry goes
(`DestroyKeeps`), is copied (`CopyKeeps`), comes with a new count (`NewKeeps`), a
lookup takes a block (`TakeKeeps`) or gives some back (`GiveKeeps`); an assignment
is two of them and the replacement of `currentEntry` four, by way of the temporary
that `FromDirectoryEntry` returns. Each has a lemma with the cardinalities of the
sets of sharers, and the actions are put together from them (`LeaveKeeps` is the
longest: the way out of `FindEntry` and `GetEntryInfo`). That a new block is new
is the pigeonhole principle (`FreshIsFree`). `BlocksOwned` follows, and `TypeOK`
with the numbering of the drives (`Numbered`) and what a thread knows of the
directory it scans (`Lookup`): without the last, `x` could leave the cluster.

`Resolves` and `FilesRead` also need `DirectoriesAssumption`: the chain of a
directory begins with the cluster that names it, a file has the clusters of its
size, a long name stands before its entry and no name is one of the model's two
marks. The reference is a recursive function, `Along`: the entry that the first
`k` names of a path lead to. `TruthInv` says how far a lookup is: the names it has
left are the last of its path (`Following`); as long as nothing has gone wrong in
it (`doubt`), `currentEntry` is what the names behind it lead to, no slot it has
passed ends the directory or has the next name (`Passed`), the long name it has
collected is that of the slots before `x`, and the static buffer holds the short
name it is about to compare (`Scanned`). An entry that is taken is then the first
of its name in the directory (`MemberFound`), an end mark means that there is none
(`MemberMissing`), and `LeaveTruth` moves to the next name or returns. Both lemmas
look only at the first cluster: it is where the slots of the chain begin
(`AllSlotsBegin`). A step of another thread leaves all this alone or leaves a doubt
(`TruthStays`). That `Along` and the concatenation of the clusters obey their
recursion equations is an induction over data; it is done by the least
counterexample, with the well-founded order of the naturals (`LeastOfNaturals`),
which is a set and no operator.

*Page tables* (`PageTablesProofs`). For tables of any size, any memory map,
kernel, frame buffer, heap and devices in which the page numbers that get mapped
name different pages, the heap's numbers are its own, the guarded pages are not
memory that is mapped and memory begins within the low pages (`LayoutAssumption`;
in the code memory begins at 0, the heap at 16 TiB, and the indexer keeps 36 bits).
While the kernel runs and no table had to be taken from exhausted memory
(`Standing`), the tables form a tree: a present entry above the last level leads
to a table one level down, no two lead to the same one, and tables are marked
pages, so none is handed out a second time (`Shape`, `Taken`), and a call in its walk
stands at the table that its own page leads to (`OnPath`). From this follows what the refinement needs: hooking an empty
table in changes no translation, and writing a last entry changes that of one
page; so every step maps to a step of `AddressSpace` or a stutter (`Implements`).
The second invariant (`PagesInv`) adds what the calls to come will ask for, in
which order (`Queue`), where the heap's frames come from (`Frames`), that the low
pages stay kept from use (`Low`), and that what is mapped so far maps to itself
(`Identity`); `Reachable` follows, and that no page has two uses. `OwnedOnce`
also says that no page is lost, nor used without having been handed out. For that
the heap's calls are numbered (`HeapLine`): each is for a page of the heap that is
not mapped yet, so that no call overwrites what an earlier one has mapped; and
`Kept` relates `given`, what `RequestPage` has answered, to the tree: every table
and every page of the heap was given, and every page given is the root, the child
of an entry, a page of the heap, or in the hands of the call under way (`Used`).
Counting the uses gives one for a page that was given (`SomebodyUses`) and none
for any other (`NobodyUses`).

*Interrupts* (`IrqProofs`). For any wiring in which no two devices share an
input (`MachineAssumption`). The inductive invariant follows the boot thread:
which masks, handlers and controllers each of its phases has behind it (`Phase`);
that the cascade is never opened and that the PIT's stub, which ends nothing, is
replaced before an interrupt is let in (`Closed`); that what is in service at a
controller is one interrupt, the one that the running handler is about to end (`OneInService`); and that the
entries of the IOAPICs are those `SetEntry` has written so far
(`WrittenSoFar`). `Quiet` and `Routed` follow.

*Console* (`ConsoleProofs`). The inductive invariant says that, if the cursor is
beyond the last column, some thread stands before the test of the column that
brings it back, and likewise for the line (`Minded`): a store of a sum puts
its own thread there, a thread leaves the test only with a coordinate that is on
the screen, and a key, which is a whole operation, takes the cursor outside only
if it was there before (`Kept`). When no thread prints, none stands there, so
`OnScreen` follows, for screens of any size and any number of threads.

`Clean` needs to know what is painted. Until prints overlap or a key comes at one
of the moments of `Drawing` (`raced`), one thread prints at most (`Alone`), and at
each of its labels the cursor is either on and drawn where
`mPreviousRenderedPosition` says, over what `under` saved, or off with nothing of it
left on the screen (`Finds`, over `On`, `Off`, `Painted` and `Bare`); when nobody
prints it is on and drawn. A key may still come at every other label, the ones
inside `NewLine` and the cursor's functions included, and must leave that label's
fact true; a key is a whole operation, so the same is shown of `WriteChar`,
`NewLine`, `Backspace` and `Clear` in one piece. `Drawing` is no larger than it has
to be: with any one of its eight labels left out, TLC finds `Clean` violated.

Only model-checked:

* liveness (`MallocReturns`, `RunsAgain`, `LockReleased`, `PortReleased`,
  `LookupEnds`, `Served`), which needs fairness and `ENABLED` and is out of the
  prover's reach;
* the four violated properties, which do not hold.

## Where the code disagrees with its comments

Four disagreements have a run that TLC finds violated:

1. `PageFrameAllocator.cpp:203` "Reserve all memory": the bits of the rounded-up
   bitmap past the end of memory are not reserved and are handed out in the end
   (`page_frames_trailing`).
2. `PageFrameAllocator.cpp:64` "LastPageIndex is valid for the number of pages
   requested": a run may reach beyond the bitmap, where bits read as clear and
   cannot be set (`page_frames_runs`).
3. `Scheduling.h:72` "Robbin 2.0 Scheduler": the round robin stops for ever when a
   thread exits while another one, preempted, holds `memoryLock`: `ThreadExit` spins
   with interrupts off (`scheduler_robin`). The timer interrupt does the same when
   `ReadyQueue.Add` has to grow.
4. `RTC.cpp:18` "Just to make sure it will fire ints": `KernelUtils.cpp:50`
   unmasks the RTC at the second PIC, and without an APIC the PIC stays in use
   ("USING FALLBACK PIC!", `KernelUtils.cpp:102`), but nothing unmasks the first
   PIC's input from the second, so the RTC never interrupts (`irq_rtc`).

Others were met on the way and have no run, being plain from the code or outside
what is modelled:

* `Memory.cpp:60` "Remaining heap", and `GetRemainingHeap` (line 82): the last
  segment is added once more to the free ones, or although it is in use.
* `KernelUtils.cpp:74` "adds IRQ 1 entry (Keyboard)": a byte that came, or waits,
  since `cli` raised the line before that entry was open, and on hardware that drops
  the edge the keyboard is deaf from then on (`deaf`).
* `KernelUtils.cpp:354` "set nullptr and ~nullptr to an impossible address", with
  `ReadWrite` false, as for the frame buffer: `SetFlag` ignores its value and sets
  every flag it is given (`Paging.h:28`), so all of these are present and writable.
* `FAT32.cpp:386` "we found it": the buffer of the comparison is static, and it may
  hold another thread's name.
* `PrimitiveConsole.cpp:304` "Only replace the pixels we overwrote": the pixels put
  back are the ones saved where the cursor was drawn, and after a scroll, or a key
  between two of the accesses in `Drawing`, these are not the ones overwritten.

In such places the properties of the passing runs hold with exceptions, written into
them: what the code gets wrong is modelled as it is, remembered in a history
variable or named by an operator, and the property speaks of everything else. It
therefore does not catch that case itself; `PROJECT.json` says so at the hazard.

* `NoThreadLost`, `OnlyTornPanics`, `FirstInFirstOut` and `RunsAgain` except runs in
  which a thread was preempted inside `ReadyQueue.Add` (`torn`; `List.h:99` counts
  before it stores). `TableStable` excepts the port after a command was given up
  (`late`), whose table the next attempt rewrites under the device; `BufferFresh`
  holds there too.
* `Resolves` excepts a lookup during which another thread converted a name
  (`FAT32.cpp:382`), a long name whose length is a multiple of 8 (copied without a
  terminator, line 361), a long name whose slots end a cluster (the cluster is
  read again with these slots kept, so that its first entry is compared by them,
  line 353), and `..` of a directory below the root (cluster 0).
  `LookupEnds` excepts a directory whose first cluster holds neither the name nor
  an end mark: the loop never takes the next cluster. Also modelled as they are: an
  entry with a long name is not compared by its short one, an empty file gives
  `ReadError`, a file in several pieces is read as if it were one, and a lookup
  that misses the last name still fills in its parent's data.
* `OwnedOnce`, `Reachable` and `Implements` of the page tables end at `Collapsed`:
  when memory is exhausted before `cr3` is loaded, `AddTable` takes page 0, the
  answer of a failed `RequestPage`, for a table. After it, the machine faults, which
  ends `OwnedOnce` too: the page that was to become a table is in nobody's.
  `Reachable` also excepts tables in the pages behind the counted memory that item 1
  above lets out.
* `Served` excepts a device whose line was high when its controller was started
  on hardware that drops edges (`deaf`), and leaves the RTC on a machine without an
  APIC to `RtcFires`. `Routed` excepts an override into another IOAPIC than the irq's
  own and an IOAPIC that ends right below the irq (`IOAPIC.h:26`).
* `Clean` excepts prints that overlap, and keys that come at one of the eight moments
  of `Drawing` (`raced`): `NewLine` may then leave the cursor off for good, since it
  reads `CursorEnabled` twice, and a key between the two stores of `EnableCursor`
  draws a cursor that the second store forgets. It also excepts a scroll or Escape
  while the cursor is drawn (`smeared`): a key in the last cell scrolls the cursor up
  with the text.

Two more things the port does, about which the repository says nothing and no
run is violated: `ReadBytes` may write up to a sector beyond the size it was
given, when the excess sector that it counts completes a buffer, so
`Disk` and `Delivered` allow that much; and `lba3` takes the bits of the sector number from 32
on, so that sectors from 2^24 on are read from another place, which `Disk` says
(`Reach`) and below which `Delivered` is stated.

## Not modelled, and why

* Of `AHCI.cpp`, the search for ports, their construction and destruction and
  the layout of the command structures; the tables of slots other than 0 are
  never used.

* `Heap` never runs out of pages; what `ExpandHeap` does then is in
  `PageTables`. `earlyMalloc`'s array
  has no end in the model (`MaxEarly` bounds it) as it has no test in the code.
* `malloc` inside `Scheduler` is reduced to its lock; whether its search fails
  and is repeated is in `Heap`.
* A thread object that was freed is taken to be unusable at once; the code could
  by luck find it unchanged or used again.
* The counters of the page allocator are kept without their 64-bit wrap; the
  code only adds, subtracts and returns them, so the values agree modulo 2^64.
* Thread numbers, names, `YieldedTime` (never read) and the place of a thread's
  stack are left out of `Scheduler`.
* `PIT::Sleep` and the timer table: `Start` replaces the handler that advances
  the clock before interrupts are first enabled, so `Elapsed` never moves, and
  nothing adds a timer.
* `FAT32`: `PrintRootDir`, paths that mix both slashes, names of no characters,
  and copy constructors, which leak a count and which nothing uses. An entry that
  is assigned to itself is not an input.
* `Keyboard`: `SendCommand` and `Resend` (no callers; the loop that should send
  the data never runs), `KeyState` (never read), F12 and the exception handlers,
  which print and halt. `Console`: `MoveCursor` and `SetCursorPosition` (no
  callers), and single pixels: a loop over pixels is one step, so a glyph that is
  torn by a key halfway through it is not seen.
* `PCI.cpp`, the bytes of the ACPI tables, `XHCI.cpp` (a stub), `cstr.cpp` and
  `string.cpp` but for the buffer that `Fat32` uses, the global constructors,
  the GDT, CPU features.
* Port and MMIO accesses, wording and layout of messages, the tables of the
  speaker, the framebuffer's pixels.

Most of the repository's lines are not the kernel: `src/Bootloader` holds gnu-efi,
some 30,000 lines of UEFI headers and library that the loader links, and the
kernel's own headers are largely tables of codes and hardware layouts.

## Plan

Done: page allocator, heap, list operators, scheduler, AHCI port, FAT32, page
tables composed with the page allocator, interrupt controllers through the boot,
console and keyboard; proofs for all of them, of every safety property that the
passing runs check.

1. `ListSeq`: `List` with Remove, Clear and assignment refining a sequence.
2. PCI enumeration, whose functions the drivers start from; the conversions
   of `cstr` against reference definitions.
3. `Fat32` over `Disk`, in place of its own read that gives a cluster or fails.
