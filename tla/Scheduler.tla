------------------------------ MODULE Scheduler ------------------------------
(***************************************************************************)
(* The round-robin scheduler of Scheduling/Scheduling.cpp on its one       *)
(* processor, with what makes it hard: the timer interrupt preempts a      *)
(* thread between any two instructions, also inside ReadyQueue.Add and     *)
(* while it holds memoryLock, and the interrupt handlers, ThreadExit and   *)
(* CreateThread use the same queue and the same heap.                      *)
(*                                                                         *)
(* A handler runs with interrupts off and is one step.  A thread is        *)
(* preempted between the steps of CreateThread and of malloc and free.     *)
(* The kernel is built with -O0 (Kernel/Makefile), so the accesses of      *)
(* ReadyQueue.Add to the list happen in the order they are written in.     *)
(***************************************************************************)
EXTENDS Integers, Sequences, FiniteSets, Functions, List

CONSTANTS
    Threads,       \* the Thread objects there can be
    Kernel,        \* the thread that hStartScheduler makes of the boot code
    NoThread,      \* nullptr
    QuantumMs,     \* what GetTimeQuantum divides, 200 in the code
    TickMs         \* milliseconds between two timer interrupts, 5 in the code

ASSUME SchedulerAssumption ==
    /\ Kernel \in Threads
    /\ NoThread \notin Threads
    /\ Garbage \notin Threads
    /\ QuantumMs \in Nat /\ TickMs \in Nat \ {0}

VARIABLES
    running,       \* Running
    readyQueue,    \* ReadyQueue, a list of module List
    current,       \* CurrentThread
    quantum,       \* CurrentTimeQuantum of each thread
    alive,         \* the threads whose Thread object is allocated
    used,          \* history: the threads ever created
    cpu,           \* the thread whose instructions the processor executes
    pc,            \* what each thread does, see below
    memory,        \* where each thread is in malloc or free
    memoryLock,
    adding,        \* what each thread has in its hands in CreateThread
    machine,       \* "up", "hung" (spinning with interrupts off) or "panic"
    torn           \* history: a thread was preempted inside ReadyQueue.Add

vars == <<running, readyQueue, current, quantum, alive, used, cpu, pc, memory,
          memoryLock, adding, machine, torn>>

lists == <<readyQueue, current, quantum>>

(***************************************************************************)
(* pc[t] is "run" in code of its own, "dead" after ThreadExit, and in      *)
(* CreateThread "new" (next: new Thread) and "add" (next: the test for     *)
(* room); and inside ReadyQueue.Add "copy", "delete", "install" while the  *)
(* array grows, then "count" and "store".                                  *)
(***************************************************************************)
InAdd == {"copy", "delete", "install", "count", "store"}

PC == {"run", "new", "add", "dead"} \cup InAdd

Nothing == [child |-> NoThread, slots |-> Cleared(0), index |-> 0, size |-> 0]

Init ==
    /\ running = FALSE
    /\ readyQueue = NewList
    /\ current = NoThread
    /\ quantum = [t \in Threads |-> 0]
    /\ alive = {} /\ used = {}
    /\ cpu = Kernel
    /\ pc = [t \in Threads |-> "run"]
    /\ memory = [t \in Threads |-> "out"]
    /\ memoryLock = FALSE
    /\ adding = [t \in Threads |-> Nothing]
    /\ machine = "up"
    /\ torn = FALSE

GetTimeQuantum(list) == QuantumMs \div (list.count + 1)

\* Start and hStartScheduler, with interrupts off.
Start ==
    /\ machine = "up"
    /\ ~running
    /\ memory[Kernel] = "out"
    /\ running' = TRUE
    /\ readyQueue' = NewList
    /\ current' = Kernel
    /\ quantum' = [quantum EXCEPT ![Kernel] = GetTimeQuantum(NewList)]
    /\ alive' = {Kernel} /\ used' = {Kernel}
    /\ UNCHANGED <<cpu, pc, memory, memoryLock, adding, machine, torn>>

-----------------------------------------------------------------------------
(***************************************************************************)
(* The switch.  The context of a thread is its pc, kept while cpu is       *)
(* another; what the queue hands out that is no thread cannot be resumed.  *)
(***************************************************************************)
Stop(state) == machine' = state /\ UNCHANGED <<lists, cpu, torn>>

\* The processor goes to the first of list.
Resume(list) ==
    LET next == Get(list, 0)
        rest == RemoveAt(list, 0)
    IN  /\ readyQueue' = rest
        /\ current' = next
        /\ cpu' = next
        /\ quantum' = [t \in Threads |-> IF t = next THEN GetTimeQuantum(rest)
                                         ELSE IF t = current THEN 0 ELSE quantum[t]]
        /\ torn' = (torn \/ pc[cpu] \in InAdd)
        /\ UNCHANGED machine

\* Dispatch(list): Resume unless it runs into a Thread that is not there.
Dispatch(list) ==
    IF Get(list, 0) \in alive THEN Resume(list)
    ELSE /\ machine' = "panic"
         /\ torn' = (torn \/ pc[cpu] \in InAdd)
         /\ UNCHANGED <<lists, cpu>>

\* The queue grows by a call of malloc, which waits for memoryLock for ever
\* when the interrupted thread or one that is not running holds it.
TaskSwitch ==
    IF Full(readyQueue) /\ memoryLock THEN Stop("hung")
    ELSE Dispatch(Add(readyQueue, current))

TaskSwitchOnEnd == Dispatch(readyQueue)

TickKept ==
    /\ quantum' = [quantum EXCEPT ![current] = @ - TickMs]
    /\ UNCHANGED <<readyQueue, current, cpu, machine, torn>>

TimerLate ==             \* mutant of TimerInterrupt: tests before it subtracts
    /\ machine = "up" /\ running /\ readyQueue.count > 0
    /\ IF current = NoThread THEN TaskSwitchOnEnd
       ELSE IF quantum[current] <= 0 THEN TaskSwitch ELSE TickKept
    /\ UNCHANGED <<running, alive, used, pc, memory, memoryLock, adding>>

\* hPitScheduler.
TimerInterrupt ==
    /\ machine = "up"
    /\ running
    /\ readyQueue.count > 0
    /\ IF current = NoThread THEN TaskSwitchOnEnd
       ELSE IF quantum[current] - TickMs <= 0 THEN TaskSwitch
       ELSE TickKept
    /\ UNCHANGED <<running, alive, used, pc, memory, memoryLock, adding>>

\* The processor executes t, and t is not inside malloc or free.
At(t, label) ==
    /\ machine = "up"
    /\ cpu = t
    /\ pc[t] = label
    /\ memory[t] = "out"

\* hTaskYield.
Yield(t) ==
    /\ At(t, "run")
    /\ running
    /\ current # NoThread
    /\ TaskSwitch
    /\ UNCHANGED <<running, alive, used, pc, memory, memoryLock, adding>>

-----------------------------------------------------------------------------
(***************************************************************************)
(* malloc, calloc, free and delete: one or more rounds under memoryLock.   *)
(***************************************************************************)
Memory(t) ==
    /\ At(t, "run")
    /\ memory' = [memory EXCEPT ![t] = "spin"]
    /\ UNCHANGED <<running, lists, alive, used, cpu, pc, memoryLock, adding, machine, torn>>

\* free overwrites the block, here the array of ReadyQueue.
Poison(list) == [list EXCEPT !.slots = [x \in DOMAIN list.slots |-> Garbage]]

AquireAnyway(t) ==       \* mutant of Aquire: without the test of the lock
    /\ machine = "up" /\ cpu = t /\ memory[t] = "spin"
    /\ memoryLock' = TRUE
    /\ memory' = [memory EXCEPT ![t] = "in"]
    /\ UNCHANGED <<running, lists, alive, used, cpu, pc, adding, machine, torn>>

Aquire(t) ==
    /\ machine = "up" /\ cpu = t /\ memory[t] = "spin"
    /\ ~memoryLock
    /\ memoryLock' = TRUE
    /\ memory' = [memory EXCEPT ![t] = "in"]
    /\ readyQueue' = IF pc[t] = "install" THEN Poison(readyQueue) ELSE readyQueue
    /\ UNCHANGED <<running, current, quantum, alive, used, cpu, pc, adding, machine, torn>>

LeaveLocked(t) ==        \* mutant of Free: the lock is kept
    /\ machine = "up" /\ cpu = t /\ memory[t] = "in"
    /\ memory' = [memory EXCEPT ![t] = "out"]
    /\ UNCHANGED <<running, lists, alive, used, cpu, pc, memoryLock, adding, machine, torn>>

Free(t) ==
    /\ machine = "up" /\ cpu = t /\ memory[t] = "in"
    /\ memoryLock' = FALSE
    /\ memory' = [memory EXCEPT ![t] = "out"]
    /\ UNCHANGED <<running, lists, alive, used, cpu, pc, adding, machine, torn>>

-----------------------------------------------------------------------------
(***************************************************************************)
(* CreateThread, a step per access to the ready queue.  Its calls of       *)
(* malloc and free happen between two steps.                               *)
(***************************************************************************)
Goto(t, label) == pc' = [pc EXCEPT ![t] = label]
Call(t) == memory' = [memory EXCEPT ![t] = "spin"]

\* Up to the calloc of the stack.
CreateThread(t, child) ==
    /\ At(t, "run")
    /\ running
    /\ child \notin used
    /\ used' = used \cup {child}
    /\ adding' = [adding EXCEPT ![t] = [Nothing EXCEPT !.child = child]]
    /\ Goto(t, "new") /\ Call(t)
    /\ UNCHANGED <<running, lists, alive, cpu, memoryLock, machine, torn>>

\* new Thread is called.
CreateObject(t) ==
    /\ At(t, "new")
    /\ Goto(t, "add") /\ Call(t)
    /\ UNCHANGED <<running, lists, alive, used, cpu, memoryLock, adding, machine, torn>>

\* The object is filled in, and Add tests whether the array has room.
AddStart(t) ==
    /\ At(t, "add")
    /\ alive' = alive \cup {adding[t].child}
    /\ quantum' = [quantum EXCEPT ![adding[t].child] = GetTimeQuantum(readyQueue)]
    /\ IF Full(readyQueue)
       THEN /\ adding' = [adding EXCEPT ![t].slots = Cleared(readyQueue.size + Growth)]
            /\ Goto(t, "copy") /\ Call(t)
       ELSE Goto(t, "count") /\ UNCHANGED <<adding, memory>>
    /\ UNCHANGED <<running, readyQueue, current, used, cpu, memoryLock, machine, torn>>

\* One round of the loop that fills newArray.
AddCopy(t) ==
    LET x == adding[t].index
    IN  /\ At(t, "copy")
        /\ IF x < readyQueue.count
           THEN /\ adding' = [adding EXCEPT
                                 ![t].slots = Write(@, x, Get(readyQueue, x)),
                                 ![t].index = x + 1]
                /\ UNCHANGED pc
           ELSE Goto(t, "delete") /\ UNCHANGED adding
        /\ UNCHANGED <<running, lists, alive, used, cpu, memory, memoryLock, machine, torn>>

\* delete mArray is called.
AddDelete(t) ==
    /\ At(t, "delete")
    /\ Goto(t, "install") /\ Call(t)
    /\ UNCHANGED <<running, lists, alive, used, cpu, memoryLock, adding, machine, torn>>

\* mArray = newArray; mArraySize += 5.
AddInstall(t) ==
    /\ At(t, "install")
    /\ readyQueue' = [readyQueue EXCEPT !.slots = adding[t].slots, !.size = @ + Growth]
    /\ Goto(t, "count")
    /\ UNCHANGED <<running, current, quantum, alive, used, cpu, memory, memoryLock,
                   adding, machine, torn>>

\* mCount++, before the item is stored at the old count in the old array.
AddCount(t) ==
    /\ At(t, "count")
    /\ readyQueue' = [readyQueue EXCEPT !.count = @ + 1]
    /\ adding' = [adding EXCEPT ![t].index = readyQueue.count, ![t].size = readyQueue.size]
    /\ Goto(t, "store")
    /\ UNCHANGED <<running, current, quantum, alive, used, cpu, memory, memoryLock,
                   machine, torn>>

\* The store.  If the array was replaced meanwhile, which its size tells, it
\* goes to freed memory.
AddStore(t) ==
    /\ At(t, "store")
    /\ readyQueue' = IF readyQueue.size = adding[t].size
                     THEN [readyQueue EXCEPT !.slots = Write(@, adding[t].index, adding[t].child)]
                     ELSE readyQueue
    /\ adding' = [adding EXCEPT ![t] = Nothing]
    /\ Goto(t, "run")
    /\ UNCHANGED <<running, current, quantum, alive, used, cpu, memory, memoryLock,
                   machine, torn>>

(***************************************************************************)
(* ThreadExit: the stack and the Thread are freed with interrupts off,     *)
(* which waits for memoryLock for ever when a thread was preempted while   *)
(* it held it.  Afterwards the processor idles in the dead thread's code   *)
(* (Yield does nothing without a current thread) until the timer fires.    *)
(* The kernel's own thread never returns.                                  *)
(***************************************************************************)
ThreadExit(t) ==
    /\ At(t, "run")
    /\ running
    /\ t # Kernel
    /\ IF memoryLock
       THEN machine' = "hung" /\ UNCHANGED <<current, alive, pc>>
       ELSE /\ current' = NoThread
            /\ alive' = alive \ {current}
            /\ Goto(t, "dead")
            /\ UNCHANGED machine
    /\ UNCHANGED <<running, readyQueue, quantum, used, cpu, memory, memoryLock, adding, torn>>

-----------------------------------------------------------------------------
Adding(t) ==
    \/ \E child \in Threads : CreateThread(t, child)
    \/ CreateObject(t)
    \/ AddStart(t)
    \/ AddCopy(t)
    \/ AddDelete(t)
    \/ AddInstall(t)
    \/ AddCount(t)
    \/ AddStore(t)

Next ==
    \/ Start
    \/ TimerInterrupt
    \/ \E t \in Threads : \/ Yield(t)
                          \/ Memory(t)
                          \/ Aquire(t)
                          \/ Free(t)
                          \/ Adding(t)
                          \/ ThreadExit(t)

(***************************************************************************)
(* The timer keeps firing, and between two interrupts the processor        *)
(* executes enough of a thread to get out of malloc.                       *)
(***************************************************************************)
Fairness ==
    /\ WF_vars(TimerInterrupt)
    /\ \A t \in Threads : SF_vars(Free(t))

Spec == Init /\ [][Next]_vars /\ Fairness

-----------------------------------------------------------------------------
\* The ready threads in the order they will run in, without the slot that a
\* thread inside Add has counted but not stored, and as Add will leave them.
Ready ==
    LET list == IF pc[cpu] = "install" THEN [slots |-> adding[cpu].slots] ELSE readyQueue
        n == IF pc[cpu] = "store" THEN readyQueue.count - 1 ELSE readyQueue.count
    IN  [x \in 1 .. n |-> Get(list, x - 1)]

InCreation == {adding[t].child : t \in Threads}

TypeOK ==
    /\ running \in BOOLEAN /\ memoryLock \in BOOLEAN /\ torn \in BOOLEAN
    /\ readyQueue.size \in Nat /\ readyQueue.count \in Nat
    /\ readyQueue.slots \in [DOMAIN readyQueue.slots -> Threads \cup {Garbage}]
    /\ current \in Threads \cup {NoThread}
    /\ quantum \in [Threads -> 0 .. QuantumMs]
    /\ alive \subseteq used /\ used \subseteq Threads
    /\ cpu \in Threads
    /\ pc \in [Threads -> PC]
    /\ memory \in [Threads -> {"out", "spin", "in"}]
    /\ InCreation \subseteq Threads \cup {NoThread}
    /\ machine \in {"up", "hung", "panic"}

\* As long as no thread was preempted inside ReadyQueue.Add, no thread is lost
\* or queued twice, through any sequence of creations, switches and exits: the
\* queue holds each thread that exists once, but the one that runs and those
\* still being created.
NoThreadLost ==
    running /\ ~torn =>
        /\ IF current = NoThread THEN cpu \notin alive ELSE cpu = current /\ cpu \in alive
        /\ LET waiting == alive \ ({current} \cup InCreation)
           IN  Len(Ready) = Cardinality(waiting) /\ Range(Ready) = waiting

\* The switch runs into a Thread that does not exist only after a thread was
\* preempted inside Add: no exit leaves a freed thread behind.
OnlyTornPanics == machine = "panic" => torn

\* memoryLock is held when and only when one thread, and one only, is inside
\* malloc or free, whoever was preempted where.
LockOwned ==
    /\ memoryLock <=> \E t \in Threads : memory[t] = "in"
    /\ \A t, u \in Threads : memory[t] = "in" /\ memory[u] = "in" => t = u

\* Every step leaves the order of the ready threads alone, moves the current
\* one to the end and resumes the first, resumes the first after an exit, or
\* puts a new thread at the end.
InOrder ==
    running /\ ~torn' /\ machine' = "up" =>
        \/ Ready' = Ready /\ current' \in {current, NoThread}
        \/ /\ current # NoThread
           /\ <<current'>> \o Ready' = Append(Ready, current)
        \/ current = NoThread /\ <<current'>> \o Ready' = Ready
        \/ current' = current /\ Ready' = Append(Ready, adding[cpu].child)

FirstInFirstOut == [][InOrder]_vars

\* A ready thread runs again, unless the machine hangs on memoryLock or a
\* thread was preempted inside Add.
RunsAgain ==
    \A t \in Threads : t \in Range(Ready) ~> cpu = t \/ torn \/ machine = "hung"

\* memoryLock is released again, with the same exceptions.
LockReleased == memoryLock ~> ~memoryLock \/ torn \/ machine = "hung"

\* Scheduling.h:72 "Robbin 2.0 Scheduler": a round robin, in which every ready
\* thread gets its turn, here as long as no thread is preempted inside Add.
RoundRobin == \A t \in Threads : t \in Range(Ready) ~> cpu = t \/ torn
=============================================================================
