---------------------------- MODULE SchedulerProofs ----------------------------
(***************************************************************************)
(* What holds of the scheduler for any number of threads, any list sizes   *)
(* and any quantum: its types, that memoryLock has one owner, and that the *)
(* ready queue loses no thread, keeps its order and never hands out a      *)
(* thread that is gone, until one is preempted inside ReadyQueue.Add.      *)
(***************************************************************************)
EXTENDS Scheduler, FiniteSetTheorems, FunctionTheorems, TLAPS

\* What an array slot holds, arrays of any length, and lists.
Items == Threads \cup {Garbage}
Arrays == UNION {[0 .. n - 1 -> Items] : n \in Nat}
Lists == [slots : Arrays, size : Nat, count : Nat]
Hands == [child : Threads \cup {NoThread}, slots : Arrays, index : Nat, size : Nat]

\* The array and the list of the ready threads, and what a creator holds.
Typed ==
    /\ readyQueue \in Lists
    /\ adding \in [Threads -> Hands]

\* A creator works on a thread that was never used before.
Creating == \A t \in Threads : pc[t] \notin {"run", "dead"} => adding[t].child \in used

\* Nobody creates a thread before the scheduler runs.
Idle == ~running => \A t \in Threads : pc[t] = "run"

IInv == TypeOK /\ Typed /\ Creating /\ Idle

-----------------------------------------------------------------------------
\* GetTimeQuantum never exceeds the whole quantum.
LEMMA QuantumBounded ==
  ASSUME NEW list \in Lists
  PROVE  GetTimeQuantum(list) \in 0 .. QuantumMs
<1> DEFINE d == list.count + 1
           q == QuantumMs \div d
<1>1. QuantumMs \in Nat /\ d \in Nat \ {0}
  BY SchedulerAssumption DEF Lists
<1> HIDE DEF d
<1>2. q \in Int /\ QuantumMs = d * q + (QuantumMs % d) /\ (QuantumMs % d) \in 0 .. d - 1
  BY <1>1
<1> HIDE DEF q
<1>3. q >= 0
  BY <1>1, <1>2
<1>4. q <= d * q
  BY <1>1, <1>2, <1>3
<1>5. q \in 0 .. QuantumMs
  BY <1>1, <1>2, <1>3, <1>4
<1> QED BY <1>5 DEF q, d, GetTimeQuantum

\* What TypeOK says of a list.
LEMMA ListFields ==
  ASSUME NEW list \in Lists
  PROVE  /\ list.size \in Nat /\ list.count \in Nat
         /\ list.slots \in [DOMAIN list.slots -> Threads \cup {Garbage}]
<1>1. PICK n \in Nat : list.slots \in [0 .. n - 1 -> Items]
  BY DEF Lists, Arrays
<1> QED BY <1>1 DEF Lists, Items

\* calloc gives an array.
LEMMA ClearedArray == ASSUME NEW n \in Nat PROVE Cleared(n) \in Arrays
<1>1. Cleared(n) \in [0 .. n - 1 -> Items]
  BY DEF Cleared, Items
<1> QED BY <1>1 DEF Arrays

\* Reading an array gives an item.
LEMMA GetItem ==
  ASSUME NEW list, list.slots \in Arrays, NEW index
  PROVE  Get(list, index) \in Items
  BY DEF Arrays, Get, Items

\* Writing an item into an array leaves an array.
LEMMA WriteArray ==
  ASSUME NEW slots \in Arrays, NEW x, NEW item \in Items
  PROVE  Write(slots, x, item) \in Arrays
<1>1. PICK n \in Nat : slots \in [0 .. n - 1 -> Items]
  BY DEF Arrays
<1>2. Write(slots, x, item) \in [0 .. n - 1 -> Items]
  BY <1>1 DEF Write
<1> QED BY <1>2 DEF Arrays

\* Copying a list gives an array.
LEMMA CopiedArray ==
  ASSUME NEW list, list.slots \in Arrays, NEW n \in Nat
  PROVE  Copied(list, n) \in Arrays
<1>1. \A x : Get(list, x) \in Items
  BY GetItem
<1>2. Copied(list, n) \in [0 .. n - 1 -> Items]
  BY <1>1 DEF Copied, Items
<1> QED BY <1>2 DEF Arrays

\* Growing and adding leave a list.
LEMMA AddList ==
  ASSUME NEW list \in Lists, NEW item \in Items
  PROVE  Add(list, item) \in Lists
<1> DEFINE room == IF Full(list) THEN Grown(list) ELSE list
<1>1. Grown(list) \in Lists
  <2>1. list.size + Growth \in Nat
    BY ListAssumption DEF Lists
  <2>2. Copied(list, list.size + Growth) \in Arrays
    BY <2>1, CopiedArray DEF Lists
  <2> QED BY <2>1, <2>2 DEF Grown, Lists
<1>2. room \in Lists
  BY <1>1
<1> HIDE DEF room
<1>3. Write(room.slots, room.count, item) \in Arrays
  BY <1>2, WriteArray DEF Lists
<1>4. Add(list, item) = [room EXCEPT !.slots = Write(room.slots, room.count, item), !.count = @ + 1]
  BY DEF Add, room
<1> DEFINE written == Write(room.slots, room.count, item)
<1> HIDE DEF written
<1>5. written \in Arrays /\ Add(list, item) = [room EXCEPT !.slots = written, !.count = @ + 1]
  BY <1>3, <1>4 DEF written
<1>6. room.count + 1 \in Nat
  BY <1>2 DEF Lists
<1> QED BY <1>2, <1>5, <1>6 DEF Lists

\* Removing leaves a list.
LEMMA RemoveList ==
  ASSUME NEW list \in Lists
  PROVE  RemoveAt(list, 0) \in Lists
<1>1. CASE 0 + 1 > list.count
  BY <1>1 DEF RemoveAt
<1>2. CASE ~(0 + 1 > list.count) /\ list.count = 1
  <2>1. Write(list.slots, 0, Garbage) \in Arrays
    BY WriteArray DEF Lists, Items
  <2> QED BY <1>2, <2>1 DEF RemoveAt, Lists
<1>3. CASE ~(0 + 1 > list.count) /\ list.count # 1
  <2> DEFINE slots == [x \in DOMAIN list.slots |->
                         IF x \in 0 .. list.count - 2 THEN Get(list, x + 1) ELSE list.slots[x]]
  <2>1. PICK n \in Nat : list.slots \in [0 .. n - 1 -> Items]
    BY DEF Lists, Arrays
  <2>2. \A x : Get(list, x) \in Items
    BY GetItem DEF Lists
  <2>3. slots \in [0 .. n - 1 -> Items]
    BY <2>1, <2>2
  <2>4. slots \in Arrays
    BY <2>3 DEF Arrays
  <2>5. RemoveAt(list, 0) = [list EXCEPT !.slots = slots, !.count = @ - 1]
    BY <1>3 DEF RemoveAt
  <2>6. list.count - 1 \in Nat
    BY <1>3 DEF Lists
  <2> HIDE DEF slots
  <2> QED BY <2>4, <2>5, <2>6 DEF Lists
<1> QED BY <1>1, <1>2, <1>3

\* Poisoning leaves a list.
LEMMA PoisonList == ASSUME NEW list \in Lists PROVE Poison(list) \in Lists
<1>1. PICK n \in Nat : list.slots \in [0 .. n - 1 -> Items]
  BY DEF Lists, Arrays
<1>2. [x \in DOMAIN list.slots |-> Garbage] \in [0 .. n - 1 -> Items]
  BY <1>1 DEF Items
<1>3. [x \in DOMAIN list.slots |-> Garbage] \in Arrays
  BY <1>2 DEF Arrays
<1> QED BY <1>3 DEF Poison, Lists
-----------------------------------------------------------------------------
\* What the invariant says of the variables a switch changes.
Switched ==
    /\ readyQueue \in Lists
    /\ current \in Threads \cup {NoThread}
    /\ quantum \in [Threads -> 0 .. QuantumMs]
    /\ cpu \in Threads
    /\ machine \in {"up", "hung", "panic"}
    /\ torn \in BOOLEAN

\* A switch to the first of a list keeps the types.
LEMMA DispatchTyped ==
  ASSUME IInv, NEW list \in Lists, Dispatch(list)
  PROVE  Switched'
<1> USE DEF Switched
<1>1. Switched /\ alive \subseteq Threads /\ pc \in [Threads -> PC]
  BY DEF IInv, TypeOK, Typed
<1>2. CASE Get(list, 0) \in alive
  <2> DEFINE next == Get(list, 0)
             rest == RemoveAt(list, 0)
  <2>1. next \in Threads /\ rest \in Lists
    BY <1>1, <1>2, RemoveList
  <2>2. GetTimeQuantum(rest) \in 0 .. QuantumMs
    BY <2>1, QuantumBounded
  <2>3. Resume(list)
    BY <1>2 DEF Dispatch
  <2> HIDE DEF next, rest
  <2>4. /\ readyQueue' = rest /\ current' = next /\ cpu' = next
        /\ quantum' = [t \in Threads |-> IF t = next THEN GetTimeQuantum(rest)
                                         ELSE IF t = current THEN 0 ELSE quantum[t]]
        /\ torn' = (torn \/ pc[cpu] \in InAdd)
        /\ machine' = machine
    BY <2>3 DEF Resume, next, rest
  <2>5. 0 \in 0 .. QuantumMs
    BY SchedulerAssumption
  <2>6. quantum' \in [Threads -> 0 .. QuantumMs]
    BY <1>1, <2>2, <2>4, <2>5
  <2>7. torn' \in BOOLEAN
    BY <2>4
  <2> QED BY <1>1, <2>1, <2>4, <2>6, <2>7
<1>3. CASE Get(list, 0) \notin alive
  <2>1. /\ machine' = "panic" /\ torn' = (torn \/ pc[cpu] \in InAdd)
        /\ UNCHANGED <<readyQueue, current, quantum, cpu>>
    BY <1>3 DEF Dispatch, lists
  <2> QED BY <1>1, <2>1
<1> QED BY <1>2, <1>3

\* So does TaskSwitch, whether the heap is free or not.
LEMMA TaskSwitchTyped ==
  ASSUME IInv, current \in Threads, TaskSwitch
  PROVE  Switched'
<1>1. CASE Full(readyQueue) /\ memoryLock
  BY <1>1 DEF TaskSwitch, Stop, lists, Switched, IInv, TypeOK, Typed
<1>2. CASE ~(Full(readyQueue) /\ memoryLock)
  <2>1. Add(readyQueue, current) \in Lists
    BY AddList DEF IInv, Typed, Items
  <2>2. Dispatch(Add(readyQueue, current))
    BY <1>2 DEF TaskSwitch
  <2> QED BY <2>1, <2>2, DispatchTyped
<1> QED BY <1>1, <1>2

\* The rest of the invariant is untouched by a step that leaves the other
\* variables alone.
LEMMA SwitchKeeps ==
  ASSUME IInv, Switched',
         UNCHANGED <<running, alive, used, pc, memory, memoryLock, adding>>
  PROVE  IInv'
<1>1. TypeOK'
  <2>1. readyQueue'.slots \in [DOMAIN readyQueue'.slots -> Threads \cup {Garbage}]
    BY ListFields DEF Switched
  <2> QED BY <2>1 DEF IInv, TypeOK, Switched, Lists, InCreation
<1> QED BY <1>1 DEF IInv, Typed, Creating, Idle, Switched
-----------------------------------------------------------------------------
\* The timer and a yield.
LEMMA SwitchesInv ==
  ASSUME IInv, TimerInterrupt \/ \E t \in Threads : Yield(t)
  PROVE  IInv'
<1>1. UNCHANGED <<running, alive, used, pc, memory, memoryLock, adding>>
  BY DEF TimerInterrupt, Yield
<1>2. CASE TimerInterrupt
  <2>1. CASE current = NoThread
    <3>1. Dispatch(readyQueue) /\ readyQueue \in Lists
      BY <1>2, <2>1 DEF TimerInterrupt, TaskSwitchOnEnd, IInv, Typed
    <3> QED BY <1>1, <3>1, DispatchTyped, SwitchKeeps
  <2>2. CASE current # NoThread
    <3>1. current \in Threads
      BY <2>2 DEF IInv, TypeOK
    <3>2. CASE quantum[current] - TickMs <= 0
      <4>1. TaskSwitch
        BY <1>2, <2>2, <3>2 DEF TimerInterrupt
      <4> QED BY <1>1, <3>1, <4>1, TaskSwitchTyped, SwitchKeeps
    <3>3. CASE ~(quantum[current] - TickMs <= 0)
      <4>1. TickKept
        BY <1>2, <2>2, <3>3 DEF TimerInterrupt
      <4>2. quantum[current] - TickMs \in 0 .. QuantumMs
        BY <3>1, <3>3, SchedulerAssumption DEF IInv, TypeOK
      <4>3. quantum' \in [Threads -> 0 .. QuantumMs]
        BY <3>1, <4>1, <4>2 DEF TickKept, IInv, TypeOK
      <4>4. Switched'
        BY <4>1, <4>3 DEF TickKept, Switched, IInv, TypeOK, Typed
      <4> QED BY <1>1, <4>4, SwitchKeeps
    <3> QED BY <3>2, <3>3
  <2> QED BY <2>1, <2>2
<1>3. CASE \E t \in Threads : Yield(t)
  <2>1. current \in Threads /\ TaskSwitch
    BY <1>3 DEF Yield, IInv, TypeOK
  <2> QED BY <1>1, <2>1, TaskSwitchTyped, SwitchKeeps
<1> QED BY <1>2, <1>3

\* hStartScheduler.
LEMMA StartInv == ASSUME IInv, Start PROVE IInv'
<1>1. NewList \in Lists /\ Kernel \in Threads
  BY ListAssumption, SchedulerAssumption, ClearedArray DEF NewList, Lists
<1>2. GetTimeQuantum(NewList) \in 0 .. QuantumMs
  BY <1>1, QuantumBounded
<1>3. quantum' \in [Threads -> 0 .. QuantumMs]
  BY <1>1, <1>2 DEF Start, IInv, TypeOK
<1>4. UNCHANGED <<cpu, pc, memory, memoryLock, adding, machine, torn>>
  BY DEF Start
<1>5. /\ readyQueue' = NewList /\ current' = Kernel /\ running' = TRUE
      /\ alive' = {Kernel} /\ used' = {Kernel}
      /\ \A t \in Threads : pc[t] = "run"
  BY DEF Start, IInv, Idle
<1>6. TypeOK'
  <2>1. /\ readyQueue'.slots \in [DOMAIN readyQueue'.slots -> Threads \cup {Garbage}]
        /\ readyQueue'.size \in Nat /\ readyQueue'.count \in Nat
    BY <1>1, <1>5, ListFields
  <2> QED BY <1>1, <1>3, <1>4, <1>5, <2>1 DEF IInv, TypeOK, InCreation
<1>7. Typed' /\ Creating' /\ Idle'
  BY <1>1, <1>4, <1>5 DEF IInv, Typed, Creating, Idle
<1> QED BY <1>6, <1>7 DEF IInv

\* malloc and free.
LEMMA MemoryInv ==
  ASSUME IInv, NEW t \in Threads, Memory(t) \/ Aquire(t) \/ Free(t)
  PROVE  IInv'
<1>1. /\ UNCHANGED <<running, current, quantum, alive, used, cpu, pc, adding, machine, torn>>
      /\ memory' \in [Threads -> {"out", "spin", "in"}]
      /\ memoryLock' \in BOOLEAN
  BY DEF Memory, Aquire, Free, lists, IInv, TypeOK
<1>2. readyQueue' \in Lists
  BY PoisonList DEF Memory, Aquire, Free, lists, IInv, Typed
<1>3. TypeOK'
  <2>1. /\ readyQueue'.slots \in [DOMAIN readyQueue'.slots -> Threads \cup {Garbage}]
        /\ readyQueue'.size \in Nat /\ readyQueue'.count \in Nat
    BY <1>2, ListFields
  <2> QED BY <1>1, <2>1 DEF IInv, TypeOK, InCreation
<1> QED BY <1>1, <1>2, <1>3 DEF IInv, Typed, Creating, Idle

\* What is left to show of a step of CreateThread.
LEMMA AddingKeeps ==
  ASSUME IInv, NEW t \in Threads,
         UNCHANGED <<running, current, cpu, memoryLock, machine, torn>>,
         readyQueue' \in Lists, quantum' \in [Threads -> 0 .. QuantumMs],
         alive' \subseteq used', used \subseteq used', used' \subseteq Threads,
         NEW label \in PC, pc' = [pc EXCEPT ![t] = label],
         memory' = memory \/ memory' = [memory EXCEPT ![t] = "spin"],
         NEW hands \in Hands, adding' = [adding EXCEPT ![t] = hands],
         label # "run" => hands.child \in used',
         running
  PROVE  IInv'
<1>1. adding' \in [Threads -> Hands] /\ pc' \in [Threads -> PC]
  BY DEF IInv, Typed, TypeOK
<1>2. memory' \in [Threads -> {"out", "spin", "in"}]
  BY DEF IInv, TypeOK
<1>3. TypeOK'
  <2>1. /\ readyQueue'.slots \in [DOMAIN readyQueue'.slots -> Threads \cup {Garbage}]
        /\ readyQueue'.size \in Nat /\ readyQueue'.count \in Nat
    BY ListFields
  <2>2. \A u \in Threads : adding'[u].child \in Threads \cup {NoThread}
    BY <1>1 DEF Hands
  <2> QED BY <1>1, <1>2, <2>1, <2>2 DEF IInv, TypeOK, InCreation
<1>4. Creating'
  BY DEF IInv, Typed, TypeOK, Creating
<1> QED BY <1>1, <1>3, <1>4 DEF IInv, Typed, Idle
\* A thread that is created is in used, and in Threads.
LEMMA ChildKnown ==
  ASSUME IInv, NEW t \in Threads, pc[t] \notin {"run", "dead"}
  PROVE  adding[t] \in Hands /\ adding[t].child \in used /\ used \subseteq Threads /\ running
  BY DEF IInv, Typed, TypeOK, Creating, Idle

\* The steps of CreateThread before ReadyQueue.Add.
LEMMA CreateInv ==
  ASSUME IInv, NEW t \in Threads,
         (\E child \in Threads : CreateThread(t, child)) \/ CreateObject(t)
  PROVE  IInv'
<1>1. CASE \E child \in Threads : CreateThread(t, child)
  <2>1. PICK child \in Threads : CreateThread(t, child)
    BY <1>1
  <2> DEFINE hands == [Nothing EXCEPT !.child = child]
  <2>2. hands \in Hands
    BY ClearedArray DEF Nothing, Hands
  <2>3. /\ adding' = [adding EXCEPT ![t] = hands]
        /\ pc' = [pc EXCEPT ![t] = "new"]
        /\ memory' = [memory EXCEPT ![t] = "spin"]
        /\ used' = used \cup {child} /\ hands.child = child /\ running
        /\ UNCHANGED <<running, readyQueue, quantum, current, alive, cpu, memoryLock, machine, torn>>
    BY <2>1 DEF CreateThread, Goto, Call, lists, Nothing
  <2> HIDE DEF hands
  <2> QED BY <2>2, <2>3, AddingKeeps DEF IInv, TypeOK, Typed, PC
<1>2. CASE CreateObject(t)
  <2>1. /\ pc' = [pc EXCEPT ![t] = "add"]
        /\ memory' = [memory EXCEPT ![t] = "spin"]
        /\ adding' = [adding EXCEPT ![t] = adding[t]]
        /\ UNCHANGED <<running, readyQueue, quantum, current, alive, used, cpu, memoryLock, machine, torn>>
        /\ pc[t] = "new"
    BY <1>2 DEF CreateObject, At, Goto, Call, lists, IInv, Typed
  <2> QED BY <2>1, ChildKnown, AddingKeeps DEF IInv, TypeOK, Typed, PC
<1> QED BY <1>1, <1>2

\* The object enters, and Add tests for room.
LEMMA AddStartInv == ASSUME IInv, NEW t \in Threads, AddStart(t) PROVE IInv'
<1>1. /\ adding[t] \in Hands /\ adding[t].child \in used /\ used \subseteq Threads /\ running
      /\ readyQueue \in Lists
  BY ChildKnown DEF AddStart, At, IInv, Typed
<1>2. /\ alive' = alive \cup {adding[t].child}
      /\ quantum' = [quantum EXCEPT ![adding[t].child] = GetTimeQuantum(readyQueue)]
      /\ UNCHANGED <<running, readyQueue, current, used, cpu, memoryLock, machine, torn>>
  BY DEF AddStart
<1>3. quantum' \in [Threads -> 0 .. QuantumMs] /\ alive' \subseteq used'
  BY <1>1, <1>2, QuantumBounded DEF IInv, TypeOK
<1>4. CASE Full(readyQueue)
  <2> DEFINE hands == [adding[t] EXCEPT !.slots = Cleared(readyQueue.size + Growth)]
  <2>1. readyQueue.size + Growth \in Nat
    BY <1>1, ListAssumption DEF Lists
  <2>2. Cleared(readyQueue.size + Growth) \in Arrays
    BY <2>1, ClearedArray
  <2>3. hands \in Hands /\ hands.child = adding[t].child
    BY <1>1, <2>2 DEF Hands
  <2>4. /\ adding' = [adding EXCEPT ![t] = hands]
        /\ pc' = [pc EXCEPT ![t] = "copy"] /\ memory' = [memory EXCEPT ![t] = "spin"]
    BY <1>4 DEF AddStart, Goto, Call, IInv, Typed
  <2> HIDE DEF hands
  <2> QED BY <1>1, <1>2, <1>3, <2>3, <2>4, AddingKeeps DEF PC, InAdd
<1>5. CASE ~Full(readyQueue)
  <2>1. /\ adding' = [adding EXCEPT ![t] = adding[t]]
        /\ pc' = [pc EXCEPT ![t] = "count"] /\ memory' = memory
    BY <1>5 DEF AddStart, Goto, IInv, Typed
  <2> QED BY <1>1, <1>2, <1>3, <2>1, AddingKeeps DEF PC, InAdd
<1> QED BY <1>4, <1>5

\* Growing the array.
LEMMA GrowInv ==
  ASSUME IInv, NEW t \in Threads, AddCopy(t) \/ AddDelete(t) \/ AddInstall(t)
  PROVE  IInv'
<1>1. /\ adding[t] \in Hands /\ adding[t].child \in used /\ used \subseteq Threads /\ running
      /\ readyQueue \in Lists /\ quantum \in [Threads -> 0 .. QuantumMs] /\ alive \subseteq used
      /\ pc \in [Threads -> PC] /\ adding \in [Threads -> Hands]
  BY ChildKnown DEF AddCopy, AddDelete, AddInstall, At, IInv, Typed, TypeOK
<1>2. UNCHANGED <<running, current, alive, used, cpu, quantum, memoryLock, machine, torn>>
  BY DEF AddCopy, AddDelete, AddInstall, lists
<1>3. CASE AddCopy(t)
  <2> DEFINE x == adding[t].index
             slots == Write(adding[t].slots, x, Get(readyQueue, x))
             hands == [adding[t] EXCEPT !.slots = slots, !.index = x + 1]
  <2>1. slots \in Arrays /\ x \in Nat
    BY <1>1, WriteArray, GetItem DEF Hands, Lists
  <2>2. x + 1 \in Nat
    BY <2>1
  <2>3. CASE x < readyQueue.count
    <3>1. /\ adding' = [adding EXCEPT ![t] = hands]
          /\ pc' = [pc EXCEPT ![t] = pc[t]] /\ pc[t] = "copy"
          /\ UNCHANGED <<memory, readyQueue>>
      BY <1>1, <1>3, <2>3 DEF AddCopy, At, lists
    <3>2. hands \in Hands /\ hands.child = adding[t].child
      <4> HIDE DEF slots, x
      <4> QED BY <1>1, <2>1, <2>2 DEF Hands
    <3> HIDE DEF hands
    <3> QED BY <1>1, <1>2, <3>1, <3>2, AddingKeeps DEF PC, InAdd
  <2>4. CASE ~(x < readyQueue.count)
    <3>1. /\ adding' = [adding EXCEPT ![t] = adding[t]]
          /\ pc' = [pc EXCEPT ![t] = "delete"]
          /\ UNCHANGED <<memory, readyQueue>>
      BY <1>1, <1>3, <2>4 DEF AddCopy, Goto, lists
    <3> QED BY <1>1, <1>2, <3>1, AddingKeeps DEF PC, InAdd
  <2> QED BY <2>3, <2>4
<1>4. CASE AddDelete(t)
  <2>1. /\ adding' = [adding EXCEPT ![t] = adding[t]]
        /\ pc' = [pc EXCEPT ![t] = "install"]
        /\ memory' = [memory EXCEPT ![t] = "spin"] /\ readyQueue' = readyQueue
    BY <1>1, <1>4 DEF AddDelete, Goto, Call, lists
  <2> QED BY <1>1, <1>2, <2>1, AddingKeeps DEF PC, InAdd
<1>5. CASE AddInstall(t)
  <2>1. /\ adding' = [adding EXCEPT ![t] = adding[t]]
        /\ pc' = [pc EXCEPT ![t] = "count"] /\ memory' = memory
        /\ readyQueue' = [readyQueue EXCEPT !.slots = adding[t].slots, !.size = @ + Growth]
    BY <1>1, <1>5 DEF AddInstall, Goto
  <2>2. readyQueue.size + Growth \in Nat
    BY <1>1, ListAssumption DEF Lists
  <2>3. readyQueue' \in Lists
    BY <1>1, <2>1, <2>2 DEF Lists, Hands
  <2> QED BY <1>1, <1>2, <2>1, <2>3, AddingKeeps DEF PC, InAdd
<1> QED BY <1>3, <1>4, <1>5
\* The last two steps of Add.
LEMMA StoreInv ==
  ASSUME IInv, NEW t \in Threads, AddCount(t) \/ AddStore(t)
  PROVE  IInv'
<1>1. /\ adding[t] \in Hands /\ adding[t].child \in used /\ used \subseteq Threads /\ running
      /\ readyQueue \in Lists /\ quantum \in [Threads -> 0 .. QuantumMs] /\ alive \subseteq used
      /\ adding \in [Threads -> Hands]
  BY ChildKnown DEF AddCount, AddStore, At, IInv, Typed, TypeOK
<1>2. UNCHANGED <<running, current, alive, used, cpu, quantum, memory, memoryLock, machine, torn>>
  BY DEF AddCount, AddStore
<1>3. CASE AddCount(t)
  <2> DEFINE hands == [adding[t] EXCEPT !.index = readyQueue.count, !.size = readyQueue.size]
  <2>1. /\ adding' = [adding EXCEPT ![t] = hands] /\ pc' = [pc EXCEPT ![t] = "store"]
        /\ readyQueue' = [readyQueue EXCEPT !.count = @ + 1]
    BY <1>1, <1>3 DEF AddCount, Goto
  <2>2. hands \in Hands /\ hands.child = adding[t].child
    BY <1>1 DEF Hands, Lists
  <2>3. readyQueue.count + 1 \in Nat
    BY <1>1 DEF Lists
  <2>4. readyQueue' \in Lists
    BY <1>1, <2>1, <2>3 DEF Lists
  <2> HIDE DEF hands
  <2> QED BY <1>1, <1>2, <2>1, <2>2, <2>4, AddingKeeps DEF PC, InAdd
<1>4. CASE AddStore(t)
  <2>1. /\ adding' = [adding EXCEPT ![t] = Nothing] /\ pc' = [pc EXCEPT ![t] = "run"]
        /\ readyQueue' = IF readyQueue.size = adding[t].size
                         THEN [readyQueue EXCEPT
                                 !.slots = Write(@, adding[t].index, adding[t].child)]
                         ELSE readyQueue
    BY <1>4 DEF AddStore, Goto
  <2>2. Write(readyQueue.slots, adding[t].index, adding[t].child) \in Arrays
    BY <1>1, WriteArray DEF Lists, Items
  <2>3. readyQueue' \in Lists
    <3> DEFINE slots == Write(readyQueue.slots, adding[t].index, adding[t].child)
    <3>1. readyQueue' = readyQueue \/ readyQueue' = [readyQueue EXCEPT !.slots = slots]
      BY <2>1
    <3>2. slots \in Arrays
      BY <2>2
    <3> HIDE DEF slots
    <3> QED BY <1>1, <3>1, <3>2 DEF Lists
  <2>4. Nothing \in Hands
    BY ClearedArray DEF Nothing, Hands
  <2> QED BY <1>1, <1>2, <2>1, <2>3, <2>4, AddingKeeps DEF PC
<1> QED BY <1>3, <1>4

LEMMA ExitInv == ASSUME IInv, NEW t \in Threads, ThreadExit(t) PROVE IInv'
<1>1. /\ UNCHANGED <<running, readyQueue, quantum, used, cpu, memory, memoryLock, adding, torn>>
      /\ alive' \subseteq used' /\ current' \in Threads \cup {NoThread}
      /\ machine' \in {"up", "hung", "panic"}
      /\ pc' = pc \/ pc' = [pc EXCEPT ![t] = "dead"]
      /\ running
  BY DEF ThreadExit, Goto, IInv, TypeOK
<1>2. pc' \in [Threads -> PC]
  BY <1>1 DEF IInv, TypeOK, PC
<1>3. TypeOK'
  BY <1>1, <1>2 DEF IInv, TypeOK, InCreation
<1>4. Creating'
  BY <1>1 DEF IInv, TypeOK, Creating
<1> QED BY <1>1, <1>3, <1>4 DEF IInv, Typed, Idle
-----------------------------------------------------------------------------
\* The invariant holds initially, and every step preserves it.
THEOREM Invariance == Spec => []IInv
<1>1. Init => IInv
  <2> SUFFICES ASSUME Init PROVE IInv
    OBVIOUS
  <2>1. NewList \in Lists /\ Nothing \in Hands
    BY ClearedArray, ListAssumption DEF NewList, Nothing, Lists, Hands
  <2>2. 0 \in 0 .. QuantumMs
    BY SchedulerAssumption
  <2>3. Typed
    BY <2>1 DEF Init, Typed
  <2>4. TypeOK
    <3>1. /\ readyQueue.size \in Nat /\ readyQueue.count \in Nat
          /\ readyQueue.slots \in [DOMAIN readyQueue.slots -> Threads \cup {Garbage}]
      BY <2>3, ListFields DEF Typed
    <3>2. InCreation \subseteq Threads \cup {NoThread}
      BY <2>3 DEF Typed, Hands, InCreation
    <3> QED BY <2>2, <3>1, <3>2, SchedulerAssumption DEF Init, TypeOK, PC
  <2> QED BY <2>3, <2>4 DEF Init, IInv, Creating, Idle
<1>2. IInv /\ [Next]_vars => IInv'
  <2> SUFFICES ASSUME IInv, [Next]_vars PROVE IInv'
    OBVIOUS
  <2>1. CASE Start
    BY <2>1, StartInv
  <2>2. CASE TimerInterrupt \/ \E t \in Threads : Yield(t)
    BY <2>2, SwitchesInv
  <2>3. ASSUME NEW t \in Threads, Memory(t) \/ Aquire(t) \/ Free(t) PROVE IInv'
    BY <2>3, MemoryInv
  <2>4. ASSUME NEW t \in Threads, Adding(t) PROVE IInv'
    BY <2>4, CreateInv, AddStartInv, GrowInv, StoreInv DEF Adding
  <2>5. ASSUME NEW t \in Threads, ThreadExit(t) PROVE IInv'
    BY <2>5, ExitInv
  <2>6. CASE UNCHANGED vars
    BY <2>6 DEF vars, IInv, TypeOK, Typed, Creating, Idle, InCreation
  <2> QED BY <2>1, <2>2, <2>3, <2>4, <2>5, <2>6 DEF Next
<1> QED BY <1>1, <1>2, PTL DEF Spec

\* Every variable keeps its type: the processor always runs a thread that was
\* created, no quantum is negative or longer than GetTimeQuantum gives, and
\* whatever the queue hands out, only a thread becomes CurrentThread.
THEOREM TypeCorrect == Spec => []TypeOK
<1>1. IInv => TypeOK
  BY DEF IInv
<1> QED BY <1>1, Invariance, PTL

\* memoryLock is held exactly when one thread, and one only, is inside malloc
\* or free: only that thread's own steps take and release it, so preemption in
\* between, a switch, a hang or a panic never gives it a second owner.
THEOREM LockOwnedHolds == Spec => []LockOwned
<1>1. Init => LockOwned
  BY DEF Init, LockOwned
<1>2. IInv /\ LockOwned /\ [Next]_vars => LockOwned'
  <2> SUFFICES ASSUME IInv, LockOwned, [Next]_vars PROVE LockOwned'
    OBVIOUS
  <2>1. memory \in [Threads -> {"out", "spin", "in"}] /\ memoryLock \in BOOLEAN
    BY DEF IInv, TypeOK
  <2>2. ASSUME NEW t \in Threads, Aquire(t) PROVE LockOwned'
    <3>1. /\ ~memoryLock /\ memoryLock' = TRUE /\ memory' = [memory EXCEPT ![t] = "in"]
      BY <2>2 DEF Aquire
    <3>2. \A u \in Threads : memory[u] # "in"
      BY <3>1 DEF LockOwned
    <3> QED BY <2>1, <3>1, <3>2 DEF LockOwned
  <2>3. ASSUME NEW t \in Threads, Free(t) PROVE LockOwned'
    <3>1. /\ memory[t] = "in" /\ memoryLock' = FALSE
          /\ memory' = [memory EXCEPT ![t] = "out"]
      BY <2>3 DEF Free
    <3>2. \A u \in Threads : memory'[u] # "in"
      BY <2>1, <3>1 DEF LockOwned
    <3> QED BY <3>1, <3>2 DEF LockOwned
  <2>4. ASSUME NEW t \in Threads, memory[t] # "in", memoryLock' = memoryLock,
               memory' = memory \/ memory' = [memory EXCEPT ![t] = "spin"]
        PROVE  LockOwned'
    <3>1. \A u \in Threads : memory'[u] = "in" <=> memory[u] = "in"
      BY <2>1, <2>4
    <3> QED BY <2>4, <3>1 DEF LockOwned
  <2>5. ASSUME UNCHANGED <<memory, memoryLock>> PROVE LockOwned'
    BY <2>5 DEF LockOwned
  <2>6. ASSUME NEW t \in Threads, Memory(t) \/ Adding(t) PROVE LockOwned'
    <3>1. /\ memory[t] # "in" /\ memoryLock' = memoryLock
          /\ memory' = memory \/ memory' = [memory EXCEPT ![t] = "spin"]
      BY <2>6 DEF Memory, Adding, CreateThread, CreateObject, AddStart, AddCopy, AddDelete,
                  AddInstall, AddCount, AddStore, At, Call
    <3> QED BY <2>4, <3>1
  <2>7. CASE Start \/ TimerInterrupt \/ (\E t \in Threads : Yield(t) \/ ThreadExit(t))
             \/ UNCHANGED vars
    BY <2>5, <2>7 DEF Start, TimerInterrupt, Yield, ThreadExit, vars
  <2> QED BY <2>2, <2>3, <2>6, <2>7 DEF Next
<1> QED BY <1>1, <1>2, Invariance, PTL DEF Spec
-----------------------------------------------------------------------------
\* Slots 0 .. n - 1 hold the members of set, each of them once.
Holds(slots, n, set) ==
    /\ 0 .. n - 1 \subseteq DOMAIN slots
    /\ \A x \in 0 .. n - 1 : slots[x] \in set
    /\ \A x, y \in 0 .. n - 1 : slots[x] = slots[y] => x = y
    /\ \A t \in set : \E x \in 0 .. n - 1 : slots[x] = t

\* The array of a list has the length it says, and the elements fit.
Fits(list) == DOMAIN list.slots = 0 .. list.size - 1 /\ list.count <= list.size

\* The first n slots in order.
Listed(slots, n) == [x \in 1 .. n |-> slots[x - 1]]

\* An item stored behind the others is held too, and comes last.
LEMMA HoldsOneMore ==
  ASSUME NEW n \in Nat, NEW before, NEW after, NEW set, NEW item,
         Holds(before, n, set), item \notin set,
         0 .. n \subseteq DOMAIN after, after[n] = item,
         \A x \in 0 .. n - 1 : after[x] = before[x]
  PROVE  /\ Holds(after, n + 1, set \cup {item})
         /\ Listed(after, n + 1) = Append(Listed(before, n), item)
<1> DEFINE m == n + 1
<1>1. m \in Nat /\ m - 1 = n /\ 0 .. m - 1 = (0 .. n - 1) \cup {n}
  OBVIOUS
<1>2. Holds(after, m, set \cup {item})
  <2>1. \A x \in 0 .. m - 1 : after[x] \in set \cup {item}
    BY <1>1 DEF Holds
  <2>2. ASSUME NEW x \in 0 .. m - 1, NEW y \in 0 .. m - 1, after[x] = after[y] PROVE x = y
    BY <1>1, <2>2 DEF Holds
  <2>3. ASSUME NEW t \in set \cup {item} PROVE \E x \in 0 .. m - 1 : after[x] = t
    BY <1>1 DEF Holds
  <2> QED BY <1>1, <2>1, <2>2, <2>3 DEF Holds
<1>3. Listed(after, m) = Append(Listed(before, n), item)
  <2> DEFINE s == Listed(before, n)
  <2>1. Len(s) = n /\ s \in [1 .. n -> Range(before)] /\ \A x \in 1 .. n : s[x] = before[x - 1]
    BY DEF Listed, Holds, Range
  <2>2. Append(s, item) = [x \in 1 .. n + 1 |-> IF x = n + 1 THEN item ELSE s[x]]
    BY <2>1, SMTT(30)
  <2>3. \A x \in 1 .. n + 1 : after[x - 1] = IF x = n + 1 THEN item ELSE s[x]
    BY <2>1
  <2> QED BY <2>2, <2>3 DEF Listed
<1> QED BY <1>2, <1>3

\* Without the first of them the others are held, in the same order.
LEMMA HoldsOneLess ==
  ASSUME NEW n \in Nat \ {0}, NEW before, NEW after, NEW set,
         Holds(before, n, set),
         0 .. n - 2 \subseteq DOMAIN after,
         \A x \in 0 .. n - 2 : after[x] = before[x + 1]
  PROVE  /\ Holds(after, n - 1, set \ {before[0]})
         /\ <<before[0]>> \o Listed(after, n - 1) = Listed(before, n)
<1> DEFINE m == n - 1
<1>1. m \in Nat /\ m - 1 = n - 2 /\ 0 \in 0 .. n - 1
  OBVIOUS
<1>2. \A x \in 0 .. m - 1 : x \in 0 .. n - 2 /\ x + 1 \in 0 .. n - 1 /\ x + 1 # 0
  OBVIOUS
<1>3. Holds(after, m, set \ {before[0]})
  <2>1. \A x \in 0 .. m - 1 : after[x] \in set \ {before[0]}
    BY <1>1, <1>2 DEF Holds
  <2>2. ASSUME NEW x \in 0 .. m - 1, NEW y \in 0 .. m - 1, after[x] = after[y] PROVE x = y
    BY <1>2, <2>2 DEF Holds
  <2>3. ASSUME NEW t \in set \ {before[0]} PROVE \E x \in 0 .. m - 1 : after[x] = t
    <3>1. PICK y \in 0 .. n - 1 : before[y] = t
      BY DEF Holds
    <3>2. y - 1 \in 0 .. n - 2 /\ (y - 1) + 1 = y
      BY <2>3, <3>1
    <3> QED BY <3>1, <3>2
  <2> QED BY <1>1, <2>1, <2>2, <2>3 DEF Holds
<1>4. <<before[0]>> \o Listed(after, m) = Listed(before, n)
  <2> DEFINE s == Listed(after, m)
             u == <<before[0]>>
  <2>1. Len(s) = m /\ s \in [1 .. m -> Range(after)] /\ \A x \in 1 .. m : s[x] = after[x - 1]
    BY <1>1 DEF Listed, Range
  <2>2. Len(u) = 1 /\ u[1] = before[0] /\ Len(u) + Len(s) = n
    BY <2>1
  <2>3. u \o s = [x \in 1 .. n |-> IF x <= 1 THEN u[x] ELSE s[x - 1]]
    BY <2>1, <2>2
  <2>4. \A x \in 1 .. n : before[x - 1] = IF x <= 1 THEN u[x] ELSE s[x - 1]
    <3> TAKE x \in 1 .. n
    <3>1. CASE x <= 1
      BY <2>2, <3>1
    <3>2. CASE ~(x <= 1)
      <4>1. x - 1 \in 1 .. m /\ x - 2 \in 0 .. n - 2 /\ (x - 2) + 1 = x - 1 /\ (x - 1) - 1 = x - 2
        BY <3>2
      <4> QED BY <2>1, <3>2, <4>1
    <3> QED BY <3>1, <3>2
  <2> QED BY <2>3, <2>4 DEF Listed
<1> QED BY <1>3, <1>4

\* What is held is as many as there are slots, and no other.
LEMMA HoldsAll ==
  ASSUME NEW n \in Nat, NEW slots, NEW set, Holds(slots, n, set)
  PROVE  Len(Listed(slots, n)) = Cardinality(set) /\ Range(Listed(slots, n)) = set
<1> DEFINE s == Listed(slots, n)
<1>1. \A x \in 1 .. n : x - 1 \in 0 .. n - 1 /\ s[x] = slots[x - 1]
  BY DEF Listed
<1>2. s \in [1 .. n -> set] /\ Len(s) = n /\ DOMAIN s = 1 .. n
  BY <1>1 DEF Holds, Listed
<1>3. \A x, y \in 1 .. n : s[x] = s[y] => x = y
  BY <1>1 DEF Holds
<1>4. \A t \in set : \E x \in 1 .. n : s[x] = t
  <2> TAKE t \in set
  <2>1. PICK y \in 0 .. n - 1 : slots[y] = t
    BY DEF Holds
  <2>2. y + 1 \in 1 .. n /\ (y + 1) - 1 = y
    OBVIOUS
  <2> QED BY <1>1, <2>1, <2>2
<1> HIDE DEF s
<1>5. ExistsBijection(1 .. n, set)
  BY <1>2, <1>3, <1>4, Fun_IsBij, Fun_ExistsBij
<1>6. IsFiniteSet(1 .. n) /\ Cardinality(1 .. n) = n
  BY FS_Interval
<1>7. Cardinality(set) = n
  BY <1>5, <1>6, FS_Bijection
<1>8. Range(s) = set
  BY <1>2, <1>4 DEF Range
<1> QED BY <1>2, <1>7, <1>8 DEF s

\* Add puts the item behind the others, whether the array grows or not.
THEOREM AddHolds ==
  ASSUME NEW list \in Lists, Fits(list), NEW set, Holds(list.slots, list.count, set),
         NEW item \in Items, item \notin set
  PROVE  LET new == Add(list, item)
         IN  /\ Fits(new) /\ new.count = list.count + 1
             /\ Holds(new.slots, new.count, set \cup {item})
             /\ Listed(new.slots, new.count) = Append(Listed(list.slots, list.count), item)
<1> DEFINE room == IF Full(list) THEN Grown(list) ELSE list
           written == Write(room.slots, room.count, item)
           new == Add(list, item)
           n == list.count
           g == list.size + Growth
<1>1. n \in Nat /\ list.size \in Nat /\ g \in Nat /\ g > list.size /\ n <= list.size
      /\ DOMAIN list.slots = 0 .. list.size - 1
  BY ListAssumption DEF Lists, Fits
<1>2. new = [room EXCEPT !.slots = written, !.count = @ + 1]
  BY DEF Add
<1>3. /\ DOMAIN room.slots = 0 .. room.size - 1 /\ room.size \in Nat
      /\ room.count = n /\ n < room.size
      /\ \A x \in 0 .. n - 1 : room.slots[x] = list.slots[x]
      /\ room \in [slots : Arrays, size : Nat, count : Nat]
  <2>1. CASE Full(list)
    <3> DEFINE copied == Copied(list, g)
    <3>1. room = [slots |-> copied, size |-> g, count |-> n]
      BY <2>1 DEF Grown
    <3>2. DOMAIN copied = 0 .. g - 1
      BY DEF Copied
    <3>3. \A x \in 0 .. n - 1 : copied[x] = list.slots[x]
      BY <1>1 DEF Copied, Get
    <3>4. copied \in Arrays
      BY <1>1, CopiedArray DEF Lists
    <3> HIDE DEF copied, g, room
    <3> QED BY <1>1, <3>1, <3>2, <3>3, <3>4
  <2>2. CASE ~Full(list)
    BY <1>1, <2>2 DEF Full, Lists
  <2> QED BY <2>1, <2>2
<1> HIDE DEF room
<1>4. /\ DOMAIN written = 0 .. room.size - 1 /\ written[n] = item
      /\ \A x \in 0 .. n - 1 : written[x] = list.slots[x]
  BY <1>1, <1>3 DEF Write
<1> HIDE DEF written, new
<1>5. new.slots = written /\ new.count = n + 1 /\ new.size = room.size
  BY <1>2, <1>3
<1>6. Fits(new) /\ new.count = n + 1
  BY <1>1, <1>3, <1>4, <1>5 DEF Fits
<1>7. 0 .. n \subseteq DOMAIN written
  BY <1>1, <1>3, <1>4
<1>8. /\ Holds(written, n + 1, set \cup {item})
      /\ Listed(written, n + 1) = Append(Listed(list.slots, n), item)
  <2> DEFINE before == list.slots
  <2>1. Holds(before, n, set) /\ \A x \in 0 .. n - 1 : written[x] = before[x]
    BY <1>4
  <2>2. n \in Nat /\ written[n] = item
    BY <1>1, <1>4
  <2> HIDE DEF n, before
  <2>3. /\ Holds(written, n + 1, set \cup {item})
        /\ Listed(written, n + 1) = Append(Listed(before, n), item)
    BY <1>7, <2>1, <2>2, HoldsOneMore, ZenonT(60)
  <2> QED BY <2>3 DEF before
<1> QED BY <1>5, <1>6, <1>8 DEF new

\* RemoveAt(0) takes the first away and leaves the order of the others.
THEOREM RemoveHolds ==
  ASSUME NEW list \in Lists, Fits(list), NEW set, Holds(list.slots, list.count, set),
         list.count > 0
  PROVE  LET rest == RemoveAt(list, 0)
         IN  /\ Fits(rest) /\ rest.count = list.count - 1
             /\ Holds(rest.slots, rest.count, set \ {list.slots[0]})
             /\ <<list.slots[0]>> \o Listed(rest.slots, rest.count)
                  = Listed(list.slots, list.count)
             /\ Get(list, 0) = list.slots[0]
<1> DEFINE n == list.count
           rest == RemoveAt(list, 0)
<1>1. n \in Nat \ {0} /\ list.size \in Nat /\ n <= list.size
      /\ DOMAIN list.slots = 0 .. list.size - 1 /\ 0 \in DOMAIN list.slots
      /\ ~(0 + 1 > n)
  BY DEF Lists, Fits
<1>2. /\ DOMAIN rest.slots = DOMAIN list.slots /\ rest.size = list.size
      /\ rest.count = n - 1
      /\ \A x \in 0 .. n - 2 : rest.slots[x] = list.slots[x + 1]
  <2>1. CASE n = 1
    <3> DEFINE slots == Write(list.slots, 0, Garbage)
    <3>1. rest = [list EXCEPT !.slots = slots, !.count = 0]
      BY <1>1, <2>1 DEF RemoveAt
    <3>2. DOMAIN slots = DOMAIN list.slots
      BY DEF Write
    <3> HIDE DEF slots
    <3>3. rest.slots = slots /\ rest.size = list.size /\ rest.count = 0
      BY <3>1 DEF Lists
    <3>4. 0 .. n - 2 = {} /\ n - 1 = 0
      BY <2>1
    <3> QED BY <3>2, <3>3, <3>4
  <2>2. CASE n # 1
    <3> DEFINE slots == [x \in DOMAIN list.slots |->
                           IF x \in 0 .. list.count - 2 THEN Get(list, x + 1) ELSE list.slots[x]]
    <3>1. rest = [list EXCEPT !.slots = slots, !.count = @ - 1]
      BY <1>1, <2>2 DEF RemoveAt
    <3>2. \A x \in 0 .. n - 2 : x \in DOMAIN list.slots /\ x + 1 \in DOMAIN list.slots
      BY <1>1
    <3>3. DOMAIN slots = DOMAIN list.slots
          /\ \A x \in 0 .. n - 2 : slots[x] = list.slots[x + 1]
      BY <3>2 DEF Get
    <3> HIDE DEF slots
    <3> QED BY <3>1, <3>3 DEF Lists
  <2> QED BY <2>1, <2>2
<1> HIDE DEF rest
<1>3. Fits(rest)
  BY <1>1, <1>2 DEF Fits
<1>4. 0 .. n - 2 \subseteq DOMAIN rest.slots
  BY <1>1, <1>2
<1>5. /\ Holds(rest.slots, n - 1, set \ {list.slots[0]})
      /\ <<list.slots[0]>> \o Listed(rest.slots, n - 1) = Listed(list.slots, n)
  <2> HIDE DEF n
  <2> QED BY <1>1, <1>2, <1>4, HoldsOneLess DEF n
<1>6. Get(list, 0) = list.slots[0]
  BY <1>1 DEF Get
<1> QED BY <1>2, <1>3, <1>5, <1>6 DEF rest
-----------------------------------------------------------------------------
(***************************************************************************)
(* The ready queue as long as no thread was preempted inside Add.          *)
(***************************************************************************)
\* What Ready reads: the array in effect, and how many are stored in it.
Effective == IF pc[cpu] = "install" THEN adding[cpu].slots ELSE readyQueue.slots
Stored == IF pc[cpu] = "store" THEN readyQueue.count - 1 ELSE readyQueue.count

Waiting == alive \ ({current} \cup InCreation)

\* The queue holds the waiting threads.
Queued == Fits(readyQueue) /\ Stored \in Nat /\ Holds(Effective, Stored, Waiting)

\* The processor executes the current thread, or one that exited.
Runs ==
    IF current = NoThread THEN cpu \notin alive /\ pc[cpu] = "dead"
    ELSE cpu = current /\ cpu \in alive /\ pc[cpu] # "dead"

Creator(t) == pc[t] \notin {"run", "dead"}

\* No thread but the one that runs is inside Add; before Add the thread to be
\* created exists only in its creator's hands, and no two have the same.
Created ==
    /\ \A t \in Threads : t # cpu => pc[t] \notin InAdd
    /\ \A t \in Threads : ~Creator(t) => adding[t] = Nothing
    /\ \A t \in Threads : pc[t] = "dead" => t \notin alive
    /\ \A t \in Threads : t \notin used => pc[t] = "run"
    /\ \A t \in Threads : pc[t] \in {"new", "add"} =>
         adding[t].index = 0 /\ adding[t].child \notin alive /\ pc[adding[t].child] = "run"
    /\ \A t \in Threads : Creator(t) => adding[t].child # current
    /\ \A t, u \in Threads : Creator(t) /\ adding[t].child = adding[u].child => t = u

\* How far Add has come: the new thread exists, what is copied, that there is room, where to store.
Halfway ==
    LET hands == adding[cpu]
    IN  /\ pc[cpu] \in InAdd => hands.child \in alive
        /\ pc[cpu] \in {"copy", "delete", "install"} =>
             DOMAIN hands.slots = 0 .. (readyQueue.size + Growth) - 1
        /\ pc[cpu] \in {"copy", "delete"} =>
             /\ hands.index <= readyQueue.count
             /\ \A x \in 0 .. hands.index - 1 : hands.slots[x] = readyQueue.slots[x]
        /\ pc[cpu] = "delete" => hands.index = readyQueue.count
        /\ pc[cpu] = "count" => readyQueue.count < readyQueue.size
        /\ pc[cpu] = "store" =>
             hands.index = readyQueue.count - 1 /\ hands.size = readyQueue.size

Sound == Queued /\ Runs /\ Created /\ Halfway

\* Before the scheduler runs there is the boot code only.
Booting ==
    ~running => /\ cpu = Kernel /\ current = NoThread /\ alive = {} /\ ~torn
                /\ machine = "up" /\ \A t \in Threads : adding[t] = Nothing

QueueInv ==
    /\ running /\ ~torn => Sound
    /\ Booting
    /\ OnlyTornPanics

\* Ready, read as the invariant does.
LEMMA ReadyListed ==
  ASSUME Stored \in Nat, 0 .. Stored - 1 \subseteq DOMAIN Effective
  PROVE  Ready = Listed(Effective, Stored)
<1> DEFINE list == IF pc[cpu] = "install" THEN [slots |-> adding[cpu].slots] ELSE readyQueue
<1>1. list.slots = Effective
  BY DEF Effective
<1>2. \A x \in 1 .. Stored : Get(list, x - 1) = Effective[x - 1]
  <2> TAKE x \in 1 .. Stored
  <2>1. x - 1 \in DOMAIN Effective
    BY DEF Stored
  <2> QED BY <1>1, <2>1 DEF Get
<1>3. Ready = [x \in 1 .. Stored |-> Get(list, x - 1)]
  BY DEF Ready, Stored
<1> HIDE DEF list
<1> QED BY <1>2, <1>3 DEF Listed

\* The invariant says what NoThreadLost says.
LEMMA SoundNoneLost == ASSUME Sound PROVE Ready = Listed(Effective, Stored) /\ NoThreadLost
<1>1. Ready = Listed(Effective, Stored)
  BY ReadyListed DEF Sound, Queued, Holds
<1>2. Len(Ready) = Cardinality(Waiting) /\ Range(Ready) = Waiting
  BY <1>1, HoldsAll DEF Sound, Queued
<1>3. IF current = NoThread THEN cpu \notin alive ELSE cpu = current /\ cpu \in alive
  BY DEF Sound, Runs
<1> QED BY <1>1, <1>2, <1>3 DEF NoThreadLost, Waiting
-----------------------------------------------------------------------------
\* Who waits.
LEMMA WaitingIs ==
  ASSUME NEW w
  PROVE  w \in Waiting <=> /\ w \in alive /\ w # current
                           /\ \A t \in Threads : adding[t].child # w
  BY DEF Waiting, InCreation

\* The thread that runs is a thread; so is every thread that exists.
LEMMA RunsKnown ==
  ASSUME IInv, Runs, pc[cpu] # "dead"
  PROVE  cpu \in Threads /\ cpu = current /\ cpu \in alive /\ alive \subseteq used
         /\ used \subseteq Threads /\ NoThread \notin used
         /\ pc \in [Threads -> PC] /\ adding \in [Threads -> Hands]
  BY SchedulerAssumption DEF IInv, TypeOK, Typed, Runs

\* When the thread that runs is not inside Add, no thread that is being created
\* exists.
LEMMA NoneHalfCreated ==
  ASSUME IInv, Created, pc[cpu] \notin InAdd
  PROVE  \A t \in Threads : adding[t].child \notin alive
<1> SUFFICES ASSUME NEW t \in Threads PROVE adding[t].child \notin alive
  OBVIOUS
<1>1. pc[t] \notin InAdd /\ pc[t] \in PC
  BY DEF Created, IInv, TypeOK
<1>2. CASE ~Creator(t)
  <2>1. adding[t].child = NoThread
    BY <1>2 DEF Created, Nothing
  <2> QED BY <2>1, SchedulerAssumption DEF IInv, TypeOK
<1>3. CASE Creator(t)
  <2>1. pc[t] \in {"new", "add"}
    BY <1>1, <1>3 DEF Creator, PC
  <2> QED BY <2>1 DEF Created
<1> QED BY <1>2, <1>3

\* A switch finds a thread, and leaves the others in the queue.
LEMMA ResumeSound ==
  ASSUME IInv, Created, ~torn, pc[cpu] \notin InAdd,
         NEW list \in Lists, Fits(list), list.count > 0,
         Holds(list.slots, list.count, alive \ InCreation),
         Dispatch(list),
         UNCHANGED <<running, alive, used, pc, adding>>
  PROVE  /\ Sound' /\ ~torn' /\ machine' = machine
         /\ <<current'>> \o Ready' = Listed(list.slots, list.count)
<1> DEFINE next == list.slots[0]
           rest == RemoveAt(list, 0)
<1>1. /\ Fits(rest) /\ rest.count = list.count - 1
      /\ Holds(rest.slots, rest.count, (alive \ InCreation) \ {next})
      /\ <<next>> \o Listed(rest.slots, rest.count) = Listed(list.slots, list.count)
      /\ Get(list, 0) = next
  BY RemoveHolds
<1>2. next \in alive \ InCreation
  <2>1. 0 \in 0 .. list.count - 1
    BY DEF Lists
  <2> QED BY <2>1 DEF Holds
<1>3. rest.count \in Nat
  BY <1>1 DEF Lists
<1>4. Resume(list)
  BY <1>1, <1>2 DEF Dispatch
<1>5. /\ readyQueue' = rest /\ current' = next /\ cpu' = next
      /\ torn' = FALSE /\ machine' = machine
  BY <1>1, <1>4 DEF Resume
<1> HIDE DEF rest, next
<1>6. alive \subseteq Threads /\ NoThread \notin alive
  BY SchedulerAssumption DEF IInv, TypeOK
<1>7. pc[next] \notin InAdd /\ pc[next] # "dead"
  BY <1>2, <1>6 DEF Created
<1>8. Runs'
  BY <1>2, <1>5, <1>6, <1>7 DEF Runs
<1>9. Created'
  <2>1. \A t \in Threads : pc[t] \notin InAdd
    BY DEF Created
  <2>2. \A t \in Threads : adding[t].child # next
    BY <1>2, NoneHalfCreated
  <2> QED BY <1>5, <2>1, <2>2 DEF Created, Creator
<1>10. Effective' = rest.slots /\ Stored' = rest.count
  BY <1>5, <1>7 DEF Effective, Stored, InAdd
<1>11. Waiting' = (alive \ InCreation) \ {next}
  BY <1>5 DEF Waiting, InCreation
<1>12. Queued'
  BY <1>1, <1>3, <1>5, <1>10, <1>11 DEF Queued
<1>13. Halfway'
  BY <1>5, <1>7 DEF Halfway, InAdd
<1>14. Sound'
  BY <1>8, <1>9, <1>12, <1>13 DEF Sound
<1>15. Ready' = Listed(rest.slots, rest.count)
  <2>1. (Sound => Ready = Listed(Effective, Stored))'
    BY SoundNoneLost, PTL
  <2> QED BY <1>10, <1>14, <2>1
<1> QED BY <1>1, <1>5, <1>14, <1>15

\* What does not touch the queue or the threads changes nothing.
LEMMA StaysSound ==
  ASSUME UNCHANGED <<readyQueue, current, alive, used, cpu, pc, adding>>
  PROVE  Sound' = Sound /\ Ready' = Ready
<1>1. /\ Effective' = Effective /\ Stored' = Stored /\ Waiting' = Waiting
      /\ Runs' = Runs /\ Created' = Created /\ Halfway' = Halfway
  BY DEF Effective, Stored, Waiting, InCreation, Runs, Created, Creator, Halfway
<1>2. Queued' = Queued
  BY <1>1 DEF Queued
<1> QED BY <1>1, <1>2 DEF Sound, Ready

\* The timer and a yield.
LEMMA SwitchesSound ==
  ASSUME IInv, QueueInv, TimerInterrupt \/ \E t \in Threads : Yield(t)
  PROVE  QueueInv' /\ InOrder
<1>1. UNCHANGED <<running, alive, used, pc, memory, memoryLock, adding>> /\ running
  BY DEF TimerInterrupt, Yield
<1>2. ASSUME torn' PROVE QueueInv' /\ InOrder
  BY <1>1, <1>2 DEF QueueInv, Booting, OnlyTornPanics, InOrder
<1>3. ASSUME Sound', ~torn', machine' # "panic" PROVE QueueInv'
  BY <1>1, <1>3 DEF QueueInv, Booting, OnlyTornPanics
<1>4. CASE torn
  <2>1. torn'
    BY <1>4 DEF TimerInterrupt, Yield, TaskSwitch, TaskSwitchOnEnd, Dispatch, Resume, Stop,
                TickKept
  <2> QED BY <1>2, <2>1
<1>5. CASE ~torn
  <2>1. Sound /\ Queued /\ Runs /\ Created /\ machine = "up"
    BY <1>1, <1>5 DEF QueueInv, Sound, TimerInterrupt, Yield, At
  <2>2. Ready = Listed(Effective, Stored)
    BY <2>1, SoundNoneLost
  <2>3. CASE current = NoThread
    <3>1. Dispatch(readyQueue) /\ readyQueue.count > 0
      BY <2>3 DEF TimerInterrupt, TaskSwitchOnEnd, Yield
    <3>2. pc[cpu] = "dead" /\ pc[cpu] \notin InAdd
      BY <2>1, <2>3 DEF Runs, InAdd
    <3>3. Effective = readyQueue.slots /\ Stored = readyQueue.count
      BY <3>2 DEF Effective, Stored
    <3>4. Waiting = alive \ InCreation
      BY <2>3, SchedulerAssumption DEF Waiting, IInv, TypeOK
    <3>5. /\ readyQueue \in Lists /\ Fits(readyQueue)
          /\ Holds(readyQueue.slots, readyQueue.count, alive \ InCreation)
      BY <2>1, <3>3, <3>4 DEF Queued, IInv, Typed
    <3>6. /\ Sound' /\ ~torn' /\ machine' = machine
          /\ <<current'>> \o Ready' = Listed(readyQueue.slots, readyQueue.count)
      BY <1>1, <1>5, <2>1, <3>1, <3>2, <3>5, ResumeSound
    <3>7. InOrder
      BY <2>2, <2>3, <3>3, <3>6 DEF InOrder
    <3> QED BY <1>3, <2>1, <3>6, <3>7
  <2>4. CASE current # NoThread
    <3>1. CASE TickKept
      <4>1. Sound' /\ Ready' = Ready
        BY <1>1, <2>1, <3>1, StaysSound DEF TickKept
      <4>2. UNCHANGED <<current, machine, torn>>
        BY <3>1 DEF TickKept
      <4> QED BY <1>3, <1>5, <2>1, <4>1, <4>2 DEF InOrder
    <3>2. CASE TaskSwitch /\ Full(readyQueue) /\ memoryLock
      <4>1. machine' = "hung" /\ UNCHANGED <<readyQueue, current, cpu, torn>>
        BY <3>2 DEF TaskSwitch, Stop, lists
      <4>2. Sound'
        BY <1>1, <2>1, <4>1, StaysSound
      <4> QED BY <1>3, <1>5, <4>1, <4>2 DEF InOrder
    <3>3. CASE TaskSwitch /\ ~(Full(readyQueue) /\ memoryLock)
      <4> DEFINE list == Add(readyQueue, current)
      <4>1. Dispatch(list)
        BY <3>3 DEF TaskSwitch
      <4>2. CASE pc[cpu] \in InAdd
        <5>1. torn'
          BY <4>1, <4>2 DEF Dispatch, Resume
        <5> QED BY <1>2, <5>1
      <4>3. CASE pc[cpu] \notin InAdd
        <5>1. Effective = readyQueue.slots /\ Stored = readyQueue.count
          BY <4>3 DEF Effective, Stored, InAdd
        <5>2. /\ readyQueue \in Lists /\ Fits(readyQueue) /\ readyQueue.count \in Nat
              /\ Holds(readyQueue.slots, readyQueue.count, Waiting)
          BY <2>1, <5>1 DEF Queued, IInv, Typed
        <5>3. current \in Items /\ current \notin Waiting /\ current \in alive
          BY <2>1, <2>4 DEF Waiting, Items, IInv, TypeOK, Runs
        <5>4. Waiting \cup {current} = alive \ InCreation
          BY <2>1, <4>3, <5>3, NoneHalfCreated DEF Waiting, InCreation
        <5>5. /\ Fits(list) /\ list.count = readyQueue.count + 1
              /\ Holds(list.slots, list.count, Waiting \cup {current})
              /\ Listed(list.slots, list.count)
                   = Append(Listed(readyQueue.slots, readyQueue.count), current)
          BY <5>2, <5>3, AddHolds
        <5>6. /\ list \in Lists /\ Fits(list) /\ list.count = readyQueue.count + 1
              /\ Holds(list.slots, list.count, alive \ InCreation)
              /\ Listed(list.slots, list.count) = Append(Ready, current)
          <6>1. list \in Lists
            BY <5>2, <5>3, AddList
          <6> HIDE DEF list
          <6> QED BY <2>2, <5>1, <5>4, <5>5, <6>1
        <5>7. list.count > 0
          BY <5>2, <5>6
        <5> HIDE DEF list
        <5>8. /\ Sound' /\ ~torn' /\ machine' = machine
              /\ <<current'>> \o Ready' = Append(Ready, current)
          BY <1>1, <1>5, <2>1, <4>1, <4>3, <5>6, <5>7, ResumeSound
        <5>9. InOrder
          BY <2>4, <5>8 DEF InOrder
        <5> QED BY <1>3, <2>1, <5>8, <5>9
      <4> QED BY <4>2, <4>3
    <3>4. TickKept \/ TaskSwitch
      BY <2>4 DEF TimerInterrupt, Yield
    <3> QED BY <3>1, <3>2, <3>3, <3>4
  <2> QED BY <2>3, <2>4
<1> QED BY <1>4, <1>5

\* malloc and free.  What free does to the old array is not seen: Add has its
\* new one in its hands.
LEMMA MemorySound ==
  ASSUME IInv, QueueInv, NEW t \in Threads, Memory(t) \/ Aquire(t) \/ Free(t)
  PROVE  QueueInv' /\ InOrder
<1>1. UNCHANGED <<running, current, alive, used, cpu, pc, adding, machine, torn>> /\ cpu = t
  BY DEF Memory, Aquire, Free, At, lists
<1>2. running /\ ~torn /\ Sound => Sound' /\ Ready' = Ready
  <2> SUFFICES ASSUME running, ~torn, Sound PROVE Sound' /\ Ready' = Ready
    OBVIOUS
  <2>1. CASE readyQueue' = readyQueue
    BY <1>1, <2>1, StaysSound
  <2>2. CASE readyQueue' # readyQueue
    <3> DEFINE slots == [x \in DOMAIN readyQueue.slots |-> Garbage]
    <3>1. pc[cpu] = "install" /\ readyQueue' = [readyQueue EXCEPT !.slots = slots]
      BY <1>1, <2>2 DEF Memory, Aquire, Free, Poison, lists
    <3>2. DOMAIN slots = DOMAIN readyQueue.slots
      OBVIOUS
    <3> HIDE DEF slots
    <3>3. /\ DOMAIN readyQueue'.slots = DOMAIN readyQueue.slots
          /\ readyQueue'.size = readyQueue.size /\ readyQueue'.count = readyQueue.count
      BY <3>1, <3>2 DEF IInv, Typed, Lists
    <3>4. /\ Effective' = Effective /\ Stored' = Stored /\ Waiting' = Waiting
          /\ Runs' = Runs /\ Created' = Created
      BY <1>1, <3>1, <3>3 DEF Effective, Stored, Waiting, InCreation, Runs, Created, Creator
    <3>5. Queued'
      BY <3>3, <3>4 DEF Sound, Queued, Fits
    <3>6. Halfway'
      BY <1>1, <3>1, <3>3 DEF Sound, Halfway
    <3>7. Sound'
      BY <3>4, <3>5, <3>6 DEF Sound
    <3>8. (Sound => Ready = Listed(Effective, Stored))'
      BY SoundNoneLost, PTL
    <3>9. Ready = Listed(Effective, Stored)
      BY SoundNoneLost
    <3> QED BY <3>4, <3>7, <3>8, <3>9
  <2> QED BY <2>1, <2>2
<1> QED BY <1>1, <1>2 DEF QueueInv, Booting, OnlyTornPanics, InOrder
-----------------------------------------------------------------------------
\* Two arrays that agree on n slots hold the same, in the same order.
LEMMA HoldsSame ==
  ASSUME NEW n \in Nat, NEW before, NEW after, NEW set, Holds(before, n, set),
         0 .. n - 1 \subseteq DOMAIN after, \A x \in 0 .. n - 1 : after[x] = before[x]
  PROVE  Holds(after, n, set) /\ Listed(after, n) = Listed(before, n)
<1>1. \A x \in 1 .. n : x - 1 \in 0 .. n - 1
  OBVIOUS
<1>2. Listed(after, n) = Listed(before, n)
  BY <1>1 DEF Listed
<1>3. Holds(after, n, set)
  BY DEF Holds
<1> QED BY <1>2, <1>3

\* What CreateThread does to the threads once the new one exists.
LEMMA InsideKeeps ==
  ASSUME IInv, Created, Runs, pc[cpu] \in InAdd,
         UNCHANGED <<current, alive, used, cpu>>,
         NEW label \in InAdd, pc' = [pc EXCEPT ![cpu] = label],
         NEW hands, adding' = [adding EXCEPT ![cpu] = hands],
         hands.child = adding[cpu].child
  PROVE  Created' /\ Runs' /\ Waiting' = Waiting /\ pc'[cpu'] = label /\ adding'[cpu'] = hands
<1>1. /\ cpu \in Threads /\ cpu = current /\ cpu \in alive /\ alive \subseteq used
      /\ pc \in [Threads -> PC] /\ adding \in [Threads -> Hands]
  BY RunsKnown DEF InAdd
<1>2. \A u \in Threads : adding'[u].child = adding[u].child
  BY <1>1
<1>3. InCreation' = InCreation
  BY <1>2 DEF InCreation
<1>4. pc'[cpu'] = label /\ adding'[cpu'] = hands /\ label \notin {"run", "dead", "new", "add"}
  BY <1>1 DEF InAdd
<1>5. Runs'
  BY <1>1, <1>4 DEF Runs
<1>6. \A u \in Threads : u # cpu => pc'[u] = pc[u] /\ adding'[u] = adding[u]
  BY <1>1
<1>7. \A u \in Threads : pc[u] \in {"new", "add"} => adding[u].child # cpu
  BY <1>1 DEF Created
<1>8. Created'
  <2>1. \A u \in Threads : Creator(u)' <=> Creator(u)
    BY <1>1, <1>4, <1>6 DEF Creator, InAdd
  <2>2. \A u \in Threads : u # cpu' => pc'[u] \notin InAdd
    BY <1>6 DEF Created
  <2>3. \A u \in Threads : ~Creator(u)' => adding'[u] = Nothing
    BY <1>4, <1>6, <2>1 DEF Created, Creator
  <2>4. \A u \in Threads : pc'[u] = "dead" => u \notin alive'
    BY <1>4, <1>6 DEF Created
  <2>5. \A u \in Threads : u \notin used' => pc'[u] = "run"
    BY <1>1, <1>6 DEF Created
  <2>6. \A u \in Threads : pc'[u] \in {"new", "add"} =>
          adding'[u].index = 0 /\ adding'[u].child \notin alive' /\ pc'[adding'[u].child] = "run"
    <3> TAKE u \in Threads
    <3> HAVE pc'[u] \in {"new", "add"}
    <3>1. u # cpu /\ pc'[u] = pc[u] /\ adding'[u] = adding[u]
      BY <1>4, <1>6
    <3>2. adding[u].index = 0 /\ adding[u].child \notin alive /\ pc[adding[u].child] = "run"
      BY <3>1 DEF Created
    <3>3. pc'[adding[u].child] = pc[adding[u].child]
      BY <1>1, <1>7, <3>1, <3>2 DEF PC
    <3> QED BY <3>1, <3>2, <3>3
  <2>7. \A u \in Threads : Creator(u)' => adding'[u].child # current'
    BY <1>2, <2>1 DEF Created
  <2>8. \A u, v \in Threads : Creator(u)' /\ adding'[u].child = adding'[v].child => u = v
    BY <1>2, <2>1 DEF Created
  <2> QED BY <2>2, <2>3, <2>4, <2>5, <2>6, <2>7, <2>8 DEF Created
<1> QED BY <1>3, <1>4, <1>5, <1>8 DEF Waiting

\* A thread inside Add or on its way there.
LEMMA AddingNow ==
  ASSUME IInv, Sound, NEW t \in Threads, cpu = t, Creator(t)
  PROVE  /\ running /\ pc[cpu] # "dead" /\ cpu \in alive /\ cpu = current /\ cpu \in Threads
         /\ readyQueue \in Lists /\ Fits(readyQueue) /\ adding[cpu] \in Hands
         /\ adding \in [Threads -> Hands] /\ pc \in [Threads -> PC]
         /\ Holds(Effective, Stored, Waiting) /\ Created /\ Runs /\ Halfway /\ Stored \in Nat
         /\ Ready = Listed(Effective, Stored)
  BY RunsKnown, ChildKnown, SoundNoneLost DEF Creator, Sound, Queued, IInv, Typed

\* The loop that copies.
LEMMA CopySound ==
  ASSUME IInv, Sound, NEW t \in Threads, AddCopy(t)
  PROVE  Sound' /\ Ready' = Ready
<1>1. cpu = t /\ pc[cpu] = "copy" /\ Creator(t)
  BY DEF AddCopy, At, Creator
<1>2. /\ readyQueue \in Lists /\ Fits(readyQueue) /\ adding[cpu] \in Hands /\ cpu \in Threads
      /\ adding \in [Threads -> Hands] /\ pc \in [Threads -> PC]
      /\ Created /\ Runs /\ Halfway /\ Stored \in Nat
      /\ Holds(Effective, Stored, Waiting) /\ Ready = Listed(Effective, Stored)
  BY <1>1, AddingNow
<1>3. UNCHANGED <<running, readyQueue, current, quantum, alive, used, cpu>>
  BY DEF AddCopy, lists
<1> DEFINE x == adding[cpu].index
           old == adding[cpu].slots
<1>4. /\ DOMAIN old = 0 .. (readyQueue.size + Growth) - 1 /\ x <= readyQueue.count /\ x \in Nat
      /\ \A y \in 0 .. x - 1 : old[y] = readyQueue.slots[y]
      /\ adding[cpu].child \in alive
  BY <1>1, <1>2 DEF Halfway, Hands, InAdd
<1>5. DOMAIN readyQueue.slots = 0 .. readyQueue.size - 1 /\ readyQueue.count <= readyQueue.size
      /\ readyQueue.size \in Nat /\ readyQueue.count \in Nat /\ Growth \in Nat
  BY <1>2, ListAssumption DEF Fits, Lists
<1> DEFINE Moves(label, hands) ==
        /\ pc' = [pc EXCEPT ![cpu] = label]
        /\ adding' = [adding EXCEPT ![cpu] = hands]
        /\ hands.child = adding[cpu].child
        /\ DOMAIN hands.slots = DOMAIN old
        /\ hands.index <= readyQueue.count
        /\ \A y \in 0 .. hands.index - 1 : hands.slots[y] = readyQueue.slots[y]
        /\ label = "delete" => hands.index = readyQueue.count
<1>6a. PICK label \in {"copy", "delete"} : \E hands : Moves(label, hands)
  <2>1. CASE x < readyQueue.count
    <3> DEFINE next == x + 1
               slots == Write(old, x, Get(readyQueue, x))
               hands == [adding[cpu] EXCEPT !.slots = slots, !.index = next]
    <3>1. adding' = [adding EXCEPT ![cpu] = hands] /\ pc' = [pc EXCEPT ![cpu] = "copy"]
      BY <1>1, <1>2, <2>1 DEF AddCopy
    <3>2. /\ DOMAIN slots = DOMAIN old
          /\ \A y \in 0 .. next - 1 : slots[y] = readyQueue.slots[y]
      BY <1>4, <1>5, <2>1, SMTT(30) DEF Write, Get
    <3>3. next \in Nat /\ next <= readyQueue.count
      BY <1>4, <1>5, <2>1
    <3> HIDE DEF next, slots
    <3>4. hands.child = adding[cpu].child /\ hands.slots = slots /\ hands.index = next
      BY <1>2 DEF Hands
    <3> HIDE DEF hands
    <3> WITNESS "copy" \in {"copy", "delete"}
    <3> WITNESS hands
    <3> QED BY <3>1, <3>2, <3>3, <3>4
  <2>2. CASE ~(x < readyQueue.count)
    <3>1. adding' = [adding EXCEPT ![cpu] = adding[cpu]] /\ pc' = [pc EXCEPT ![cpu] = "delete"]
      BY <1>1, <1>2, <2>2 DEF AddCopy, Goto
    <3>2. x = readyQueue.count
      BY <1>4, <1>5, <2>2
    <3> WITNESS "delete" \in {"copy", "delete"}
    <3> WITNESS adding[cpu]
    <3> QED BY <1>4, <3>1, <3>2
  <2> QED BY <2>1, <2>2
<1>6. PICK hands : Moves(label, hands)
  BY <1>6a
<1>7. Created' /\ Runs' /\ Waiting' = Waiting /\ pc'[cpu'] = label /\ adding'[cpu'] = hands
  BY <1>1, <1>2, <1>3, <1>6, InsideKeeps DEF InAdd
<1>8. Effective' = Effective /\ Stored' = Stored
  BY <1>1, <1>3, <1>6, <1>7 DEF Effective, Stored
<1>9. Queued'
  BY <1>2, <1>3, <1>7, <1>8 DEF Queued
<1>10. Halfway'
  BY <1>3, <1>4, <1>6, <1>7 DEF Halfway
<1>11. Sound'
  BY <1>7, <1>9, <1>10 DEF Sound
<1>12. (Sound => Ready = Listed(Effective, Stored))'
  BY SoundNoneLost, PTL
<1> QED BY <1>2, <1>8, <1>11, <1>12

\* CreateThread takes a thread that was never used.
LEMMA CreateThreadSound ==
  ASSUME IInv, Sound, NEW t \in Threads, NEW child \in Threads, CreateThread(t, child)
  PROVE  Sound' /\ Ready' = Ready
<1> DEFINE hands == [Nothing EXCEPT !.child = child]
<1>1. cpu = t /\ pc[cpu] = "run"
      /\ adding' = [adding EXCEPT ![cpu] = hands] /\ pc' = [pc EXCEPT ![cpu] = "new"]
      /\ used' = used \cup {child} /\ child \notin used
      /\ UNCHANGED <<readyQueue, current, alive, cpu>>
  BY DEF CreateThread, At, Goto, lists, Nothing
<1>2. hands.child = child /\ hands.index = 0
  BY DEF Nothing
<1> HIDE DEF hands
<1>3. Runs /\ Created /\ Queued /\ Halfway /\ Ready = Listed(Effective, Stored)
  BY SoundNoneLost DEF Sound
<1>4. /\ cpu \in Threads /\ cpu = current /\ cpu \in alive /\ alive \subseteq used
      /\ pc \in [Threads -> PC] /\ adding \in [Threads -> Hands]
      /\ NoThread \notin used /\ child # NoThread
  BY <1>1, <1>3, RunsKnown, SchedulerAssumption
<1>5. /\ pc'[cpu'] = "new" /\ adding'[cpu'] = hands
      /\ \A u \in Threads : u # cpu => pc'[u] = pc[u] /\ adding'[u] = adding[u]
  BY <1>1, <1>4
<1>6. pc[child] = "run" /\ child # cpu /\ child \notin alive
  BY <1>1, <1>3, <1>4 DEF Created
<1>7. adding[cpu].child = NoThread
  BY <1>1, <1>3, <1>4 DEF Created, Creator, Nothing
<1>8. \A u \in Threads : adding[u].child \in used \cup {NoThread}
  <2> TAKE u \in Threads
  <2>1. CASE Creator(u)
    BY <2>1 DEF IInv, Creating, Creator
  <2>2. CASE ~Creator(u)
    BY <1>3, <2>2 DEF Created, Nothing
  <2> QED BY <2>1, <2>2
<1>9. Runs'
  BY <1>1, <1>4, <1>5 DEF Runs
<1>10. Waiting' = Waiting
  <2>1. ASSUME NEW w \in alive PROVE (\E u \in Threads : adding'[u].child = w)
                                     <=> (\E u \in Threads : adding[u].child = w)
    <3>1. w # child /\ w # NoThread
      BY <1>4, <1>6, <2>1
    <3>2. \A u \in Threads : adding'[u].child = w <=> adding[u].child = w
      BY <1>1, <1>2, <1>5, <1>7, <3>1
    <3> QED BY <3>2
  <2> QED BY <1>1, <2>1 DEF Waiting, InCreation
<1>11. Created'
  <2>1. \A u \in Threads : u # cpu => (Creator(u)' <=> Creator(u))
    BY <1>5 DEF Creator
  <2>2. \A u \in Threads : u # cpu' => pc'[u] \notin InAdd
    BY <1>1, <1>3, <1>5 DEF Created
  <2>3. \A u \in Threads : ~Creator(u)' => adding'[u] = Nothing
    BY <1>3, <1>5, <2>1, <1>1 DEF Created, Creator
  <2>4. \A u \in Threads : pc'[u] = "dead" => u \notin alive'
    BY <1>1, <1>3, <1>5 DEF Created
  <2>5. \A u \in Threads : u \notin used' => pc'[u] = "run"
    BY <1>1, <1>3, <1>4, <1>5 DEF Created
  <2>6. \A u \in Threads : pc'[u] \in {"new", "add"} =>
          adding'[u].index = 0 /\ adding'[u].child \notin alive' /\ pc'[adding'[u].child] = "run"
    <3> TAKE u \in Threads
    <3> HAVE pc'[u] \in {"new", "add"}
    <3>1. CASE u = cpu
      <4>1. pc'[child] = "run"
        BY <1>5, <1>6
      <4> QED BY <1>1, <1>2, <1>5, <1>6, <3>1, <4>1
    <3>2. CASE u # cpu
      <4>1. pc'[u] = pc[u] /\ adding'[u] = adding[u]
        BY <1>5, <3>2
      <4>2. adding[u].index = 0 /\ adding[u].child \notin alive /\ pc[adding[u].child] = "run"
        BY <1>3, <4>1 DEF Created
      <4>3. pc'[adding[u].child] = pc[adding[u].child]
        BY <1>1, <1>4, <4>2
      <4> QED BY <1>1, <4>1, <4>2, <4>3
    <3> QED BY <3>1, <3>2
  <2>7. \A u \in Threads : Creator(u)' => adding'[u].child # current'
    BY <1>1, <1>2, <1>3, <1>4, <1>5, <1>6, <2>1 DEF Created
  <2>8. \A u, v \in Threads : Creator(u)' /\ adding'[u].child = adding'[v].child => u = v
    BY <1>1, <1>2, <1>3, <1>4, <1>5, <1>8, <2>1 DEF Created
  <2> QED BY <2>2, <2>3, <2>4, <2>5, <2>6, <2>7, <2>8 DEF Created
<1>12. Effective' = Effective /\ Stored' = Stored
  BY <1>1, <1>5 DEF Effective, Stored
<1>13. Queued' /\ Halfway'
  BY <1>1, <1>3, <1>5, <1>10, <1>12 DEF Queued, Halfway, InAdd
<1>14. Sound'
  BY <1>9, <1>11, <1>13 DEF Sound
<1>15. (Sound => Ready = Listed(Effective, Stored))'
  BY SoundNoneLost, PTL
<1> QED BY <1>3, <1>12, <1>14, <1>15

\* new Thread.
LEMMA CreateObjectSound ==
  ASSUME IInv, Sound, NEW t \in Threads, CreateObject(t)
  PROVE  Sound' /\ Ready' = Ready
<1>1. cpu = t /\ pc[cpu] = "new" /\ pc' = [pc EXCEPT ![cpu] = "add"]
      /\ UNCHANGED <<readyQueue, current, alive, used, cpu, adding>>
  BY DEF CreateObject, At, Goto, lists
<1>2. Runs /\ Created /\ Queued /\ Halfway /\ Ready = Listed(Effective, Stored)
  BY SoundNoneLost DEF Sound
<1>3. /\ cpu \in Threads /\ cpu = current /\ cpu \in alive /\ alive \subseteq used
      /\ pc \in [Threads -> PC] /\ NoThread \notin used
  BY <1>1, <1>2, RunsKnown
<1>4. pc'[cpu'] = "add" /\ \A u \in Threads : u # cpu => pc'[u] = pc[u]
  BY <1>1, <1>3
<1>5. Runs'
  BY <1>1, <1>3, <1>4 DEF Runs
<1>6. Created'
  <2>1. \A u \in Threads : Creator(u)' <=> Creator(u)
    BY <1>1, <1>4 DEF Creator
  <2>2. \A u \in Threads : u # cpu' => pc'[u] \notin InAdd
    BY <1>1, <1>2, <1>4 DEF Created
  <2>3. \A u \in Threads : ~Creator(u)' => adding'[u] = Nothing
    BY <1>1, <1>2, <2>1 DEF Created
  <2>4. \A u \in Threads : pc'[u] = "dead" => u \notin alive'
    BY <1>1, <1>2, <1>4 DEF Created
  <2>5. \A u \in Threads : u \notin used' => pc'[u] = "run"
    BY <1>1, <1>2, <1>3, <1>4 DEF Created
  <2>6. \A u \in Threads : pc'[u] \in {"new", "add"} =>
          adding'[u].index = 0 /\ adding'[u].child \notin alive' /\ pc'[adding'[u].child] = "run"
    <3> TAKE u \in Threads
    <3> HAVE pc'[u] \in {"new", "add"}
    <3>1. adding[u].index = 0 /\ adding[u].child \notin alive /\ pc[adding[u].child] = "run"
      BY <1>1, <1>2, <1>4 DEF Created
    <3>2. pc'[adding[u].child] = pc[adding[u].child]
      BY <1>1, <1>3, <3>1
    <3> QED BY <1>1, <3>1, <3>2
  <2>7. \A u \in Threads : Creator(u)' => adding'[u].child # current'
    BY <1>1, <1>2, <2>1 DEF Created
  <2>8. \A u, v \in Threads : Creator(u)' /\ adding'[u].child = adding'[v].child => u = v
    BY <1>1, <1>2, <2>1 DEF Created
  <2> QED BY <2>2, <2>3, <2>4, <2>5, <2>6, <2>7, <2>8 DEF Created
<1>7. Effective' = Effective /\ Stored' = Stored /\ Waiting' = Waiting
  BY <1>1, <1>4 DEF Effective, Stored, Waiting, InCreation
<1>8. Queued' /\ Halfway'
  BY <1>1, <1>2, <1>4, <1>7 DEF Queued, Halfway, InAdd
<1>9. Sound'
  BY <1>5, <1>6, <1>8 DEF Sound
<1>10. (Sound => Ready = Listed(Effective, Stored))'
  BY SoundNoneLost, PTL
<1> QED BY <1>2, <1>7, <1>9, <1>10

\* The length of the array that calloc gives.
LEMMA ClearedDomain == ASSUME NEW n \in Nat PROVE DOMAIN Cleared(n) = 0 .. n - 1
  BY DEF Cleared

\* The new thread exists, and Add begins.
LEMMA AddStartSound ==
  ASSUME IInv, Sound, NEW t \in Threads, AddStart(t)
  PROVE  Sound' /\ Ready' = Ready
<1> DEFINE child == adding[cpu].child
<1>1. cpu = t /\ pc[cpu] = "add" /\ alive' = alive \cup {child}
      /\ UNCHANGED <<readyQueue, current, used, cpu>>
  BY DEF AddStart, At
<1>2. Runs /\ Created /\ Queued /\ Halfway /\ Ready = Listed(Effective, Stored)
  BY SoundNoneLost DEF Sound
<1>3. /\ cpu \in Threads /\ cpu = current /\ cpu \in alive /\ alive \subseteq used
      /\ pc \in [Threads -> PC] /\ adding \in [Threads -> Hands] /\ NoThread \notin used
  BY <1>1, <1>2, RunsKnown
<1>4. /\ readyQueue.size \in Nat /\ readyQueue.count \in Nat
      /\ readyQueue.size + Growth \in Nat
      /\ adding[cpu].index = 0 /\ child \notin alive /\ pc[child] = "run"
      /\ child # current
  BY <1>1, <1>2, <1>3, ListAssumption DEF IInv, Typed, Lists, Created, Creator
<1> DEFINE Moves(label, hands) ==
        /\ pc' = [pc EXCEPT ![cpu] = label]
        /\ adding' = [adding EXCEPT ![cpu] = hands]
        /\ hands.child = child /\ hands.index = 0
        /\ label = "copy" => DOMAIN hands.slots = 0 .. (readyQueue.size + Growth) - 1
        /\ label = "count" => readyQueue.count < readyQueue.size
<1>5a. PICK label \in {"copy", "count"} : \E hands : Moves(label, hands)
  <2>1. CASE Full(readyQueue)
    <3> DEFINE slots == Cleared(readyQueue.size + Growth)
               hands == [adding[cpu] EXCEPT !.slots = slots]
    <3>1. /\ adding' = [adding EXCEPT ![t].slots = slots]
          /\ pc' = [pc EXCEPT ![t] = "copy"]
      BY <2>1 DEF AddStart, Goto
    <3>2. DOMAIN slots = 0 .. (readyQueue.size + Growth) - 1
      BY <1>4, ClearedDomain
    <3> HIDE DEF slots
    <3>3. /\ adding' = [adding EXCEPT ![t] = [adding[t] EXCEPT !.slots = slots]]
          /\ pc' = [pc EXCEPT ![t] = "copy"]
      BY <1>1, <1>3, <3>1
    <3>4. hands.child = child /\ hands.slots = slots /\ hands.index = 0
      BY <1>3, <1>4 DEF Hands
    <3>5. adding' = [adding EXCEPT ![cpu] = hands] /\ pc' = [pc EXCEPT ![cpu] = "copy"]
      BY <1>1, <3>3
    <3> HIDE DEF hands
    <3> WITNESS "copy" \in {"copy", "count"}
    <3> WITNESS hands
    <3> QED BY <3>2, <3>4, <3>5
  <2>2. CASE ~Full(readyQueue)
    <3>1. adding' = [adding EXCEPT ![cpu] = adding[cpu]] /\ pc' = [pc EXCEPT ![cpu] = "count"]
      BY <1>1, <1>3, <2>2 DEF AddStart, Goto
    <3>2. readyQueue.count < readyQueue.size
      BY <1>4, <2>2 DEF Full
    <3> WITNESS "count" \in {"copy", "count"}
    <3> WITNESS adding[cpu]
    <3> QED BY <1>4, <3>1, <3>2
  <2> QED BY <2>1, <2>2
<1>5. PICK hands : Moves(label, hands)
  BY <1>5a
<1>6. /\ pc'[cpu'] = label /\ adding'[cpu'] = hands
      /\ label \notin {"run", "dead", "new", "add", "install", "store", "delete"}
      /\ \A u \in Threads : u # cpu => pc'[u] = pc[u] /\ adding'[u] = adding[u]
      /\ \A u \in Threads : adding'[u].child = adding[u].child
  BY <1>1, <1>3, <1>5
<1>7. Runs'
  BY <1>1, <1>3, <1>6 DEF Runs
<1>8. Waiting' = Waiting
  <2>1. InCreation' = InCreation /\ child \in InCreation
    BY <1>3, <1>6 DEF InCreation
  <2> QED BY <1>1, <2>1 DEF Waiting
<1>9. Created'
  <2>1. \A u \in Threads : Creator(u)' <=> Creator(u)
    BY <1>1, <1>6 DEF Creator
  <2>2. \A u \in Threads : u # cpu' => pc'[u] \notin InAdd
    BY <1>1, <1>2, <1>6 DEF Created
  <2>3. \A u \in Threads : ~Creator(u)' => adding'[u] = Nothing
    BY <1>1, <1>2, <1>6, <2>1 DEF Created, Creator
  <2>4. \A u \in Threads : pc'[u] = "dead" => u \notin alive'
    BY <1>1, <1>2, <1>4, <1>6 DEF Created
  <2>5. \A u \in Threads : u \notin used' => pc'[u] = "run"
    BY <1>1, <1>2, <1>3, <1>6 DEF Created
  <2>6. \A u \in Threads : pc'[u] \in {"new", "add"} =>
          adding'[u].index = 0 /\ adding'[u].child \notin alive' /\ pc'[adding'[u].child] = "run"
    <3> TAKE u \in Threads
    <3> HAVE pc'[u] \in {"new", "add"}
    <3>1. u # cpu /\ pc'[u] = pc[u] /\ adding'[u] = adding[u]
      BY <1>1, <1>6
    <3>2. adding[u].index = 0 /\ adding[u].child \notin alive /\ pc[adding[u].child] = "run"
      BY <1>2, <3>1 DEF Created
    <3>3. adding[u].child # child
      BY <1>1, <1>2, <1>3, <3>1 DEF Created, Creator
    <3>4. pc'[adding[u].child] = pc[adding[u].child]
      BY <1>1, <1>3, <1>5, <3>2
    <3> QED BY <1>1, <3>1, <3>2, <3>3, <3>4
  <2>7. \A u \in Threads : Creator(u)' => adding'[u].child # current'
    BY <1>1, <1>2, <1>6, <2>1 DEF Created
  <2>8. \A u, v \in Threads : Creator(u)' /\ adding'[u].child = adding'[v].child => u = v
    BY <1>2, <1>6, <2>1 DEF Created
  <2> QED BY <2>2, <2>3, <2>4, <2>5, <2>6, <2>7, <2>8 DEF Created
<1>10. Effective' = Effective /\ Stored' = Stored
  BY <1>1, <1>6 DEF Effective, Stored
<1>11. Queued'
  BY <1>1, <1>2, <1>8, <1>10 DEF Queued
<1>12. Halfway'
  <2>1. 0 .. hands.index - 1 = {} /\ hands.index <= readyQueue.count
    BY <1>4, <1>5
  <2> QED BY <1>1, <1>5, <1>6, <2>1 DEF Halfway
<1>13. Sound'
  BY <1>7, <1>9, <1>11, <1>12 DEF Sound
<1>14. (Sound => Ready = Listed(Effective, Stored))'
  BY SoundNoneLost, PTL
<1> QED BY <1>2, <1>10, <1>13, <1>14

\* The old array is freed when the new one has everything.
LEMMA DeleteSound ==
  ASSUME IInv, Sound, NEW t \in Threads, AddDelete(t)
  PROVE  Sound' /\ Ready' = Ready
<1>1. cpu = t /\ pc[cpu] = "delete" /\ Creator(t) /\ pc' = [pc EXCEPT ![cpu] = "install"]
      /\ UNCHANGED <<readyQueue, current, alive, used, cpu, adding>>
  BY DEF AddDelete, At, Creator, Goto, lists
<1>2. /\ readyQueue \in Lists /\ Fits(readyQueue) /\ adding[cpu] \in Hands /\ cpu \in Threads
      /\ adding \in [Threads -> Hands]
      /\ Created /\ Runs /\ Halfway /\ Stored \in Nat
      /\ Holds(Effective, Stored, Waiting) /\ Ready = Listed(Effective, Stored)
  BY <1>1, AddingNow
<1>3. adding' = [adding EXCEPT ![cpu] = adding[cpu]]
  BY <1>1, <1>2
<1>4. Created' /\ Runs' /\ Waiting' = Waiting /\ pc'[cpu'] = "install" /\ adding'[cpu'] = adding[cpu]
  BY <1>1, <1>2, <1>3, InsideKeeps DEF InAdd
<1> DEFINE new == adding[cpu].slots
           n == readyQueue.count
<1>5. Effective = readyQueue.slots /\ Stored = n /\ Effective' = new /\ Stored' = n /\ n \in Nat
  BY <1>1, <1>2, <1>4 DEF Effective, Stored, Lists
<1>6. /\ DOMAIN new = 0 .. (readyQueue.size + Growth) - 1
      /\ \A x \in 0 .. n - 1 : new[x] = readyQueue.slots[x]
      /\ adding[cpu].child \in alive
  BY <1>1, <1>2 DEF Halfway, InAdd
<1>7. 0 .. n - 1 \subseteq DOMAIN new
  BY <1>2, <1>6, ListAssumption DEF Fits, Lists
<1> HIDE DEF new, n
<1>8. Holds(new, n, Waiting) /\ Listed(new, n) = Listed(readyQueue.slots, n)
  BY <1>2, <1>5, <1>6, <1>7, HoldsSame
<1>9. Queued'
  BY <1>1, <1>2, <1>4, <1>5, <1>8 DEF Queued
<1>10. Halfway'
  BY <1>1, <1>4, <1>6 DEF Halfway, new
<1>11. Sound'
  BY <1>4, <1>9, <1>10 DEF Sound
<1>12. (Sound => Ready = Listed(Effective, Stored))'
  BY SoundNoneLost, PTL
<1> QED BY <1>2, <1>5, <1>8, <1>11, <1>12

\* The new array becomes the queue's.
LEMMA InstallSound ==
  ASSUME IInv, Sound, NEW t \in Threads, AddInstall(t)
  PROVE  Sound' /\ Ready' = Ready
<1> DEFINE new == adding[cpu].slots
           size == readyQueue.size + Growth
<1>1. cpu = t /\ pc[cpu] = "install" /\ Creator(t) /\ pc' = [pc EXCEPT ![cpu] = "count"]
      /\ readyQueue' = [readyQueue EXCEPT !.slots = new, !.size = size]
      /\ UNCHANGED <<current, alive, used, cpu, adding>>
  BY DEF AddInstall, At, Creator, Goto
<1>2. /\ readyQueue \in Lists /\ Fits(readyQueue) /\ adding[cpu] \in Hands /\ cpu \in Threads
      /\ adding \in [Threads -> Hands]
      /\ Created /\ Runs /\ Halfway /\ Stored \in Nat
      /\ Holds(Effective, Stored, Waiting) /\ Ready = Listed(Effective, Stored)
  BY <1>1, AddingNow
<1>3. adding' = [adding EXCEPT ![cpu] = adding[cpu]]
  BY <1>1, <1>2
<1>4. Created' /\ Runs' /\ Waiting' = Waiting /\ pc'[cpu'] = "count" /\ adding'[cpu'] = adding[cpu]
  BY <1>1, <1>2, <1>3, InsideKeeps DEF InAdd
<1>5. DOMAIN new = 0 .. size - 1 /\ adding[cpu].child \in alive
  BY <1>1, <1>2 DEF Halfway, InAdd
<1>6. readyQueue.count < size /\ readyQueue.count <= size
  BY <1>2, ListAssumption DEF Fits, Lists
<1> HIDE DEF new, size
<1>7. readyQueue'.slots = new /\ readyQueue'.size = size /\ readyQueue'.count = readyQueue.count
  BY <1>1, <1>2 DEF Lists
<1>8. Effective = new /\ Effective' = new /\ Stored' = Stored
  BY <1>1, <1>4, <1>7 DEF Effective, Stored, new
<1>9. Queued'
  BY <1>2, <1>4, <1>5, <1>6, <1>7, <1>8 DEF Queued, Fits
<1>10. Halfway'
  BY <1>1, <1>4, <1>5, <1>6, <1>7 DEF Halfway
<1>11. Sound'
  BY <1>4, <1>9, <1>10 DEF Sound
<1>12. (Sound => Ready = Listed(Effective, Stored))'
  BY SoundNoneLost, PTL
<1> QED BY <1>2, <1>8, <1>11, <1>12

\* mCount++.
LEMMA CountSound ==
  ASSUME IInv, Sound, NEW t \in Threads, AddCount(t)
  PROVE  Sound' /\ Ready' = Ready
<1> DEFINE n == readyQueue.count
           m == n + 1
           hands == [adding[cpu] EXCEPT !.index = n, !.size = readyQueue.size]
<1>1. cpu = t /\ pc[cpu] = "count" /\ Creator(t) /\ pc' = [pc EXCEPT ![cpu] = "store"]
      /\ readyQueue' = [readyQueue EXCEPT !.count = m]
      /\ UNCHANGED <<current, alive, used, cpu>>
  BY DEF AddCount, At, Creator, Goto
<1>2. /\ readyQueue \in Lists /\ Fits(readyQueue) /\ adding[cpu] \in Hands /\ cpu \in Threads
      /\ adding \in [Threads -> Hands]
      /\ Created /\ Runs /\ Halfway /\ Stored \in Nat
      /\ Holds(Effective, Stored, Waiting) /\ Ready = Listed(Effective, Stored)
  BY <1>1, AddingNow
<1>3. adding' = [adding EXCEPT ![cpu] = hands]
  BY <1>1, <1>2 DEF AddCount
<1>4. n < readyQueue.size /\ adding[cpu].child \in alive
  BY <1>1, <1>2 DEF Halfway, InAdd
<1>5. m <= readyQueue.size /\ m \in Nat /\ m - 1 = n /\ n \in Nat
  BY <1>2, <1>4 DEF Lists
<1> HIDE DEF m
<1>6. readyQueue'.slots = readyQueue.slots /\ readyQueue'.size = readyQueue.size
      /\ readyQueue'.count = m
  BY <1>1, <1>2 DEF Lists
<1>7. hands.child = adding[cpu].child /\ hands.index = n /\ hands.size = readyQueue.size
  BY <1>2 DEF Hands
<1> HIDE DEF hands, n
<1>8. Created' /\ Runs' /\ Waiting' = Waiting /\ pc'[cpu'] = "store" /\ adding'[cpu'] = hands
  BY <1>1, <1>2, <1>3, <1>7, InsideKeeps DEF InAdd
<1>9. Effective' = Effective /\ Stored' = Stored
  BY <1>1, <1>5, <1>6, <1>8 DEF Effective, Stored, n
<1>10. Queued'
  BY <1>2, <1>5, <1>6, <1>8, <1>9 DEF Queued, Fits
<1>11. Halfway'
  BY <1>1, <1>4, <1>5, <1>6, <1>7, <1>8 DEF Halfway
<1>12. Sound'
  BY <1>8, <1>10, <1>11 DEF Sound
<1>13. (Sound => Ready = Listed(Effective, Stored))'
  BY SoundNoneLost, PTL
<1> QED BY <1>2, <1>9, <1>12, <1>13

\* The store: the new thread is ready.
LEMMA StoreSound ==
  ASSUME IInv, Sound, NEW t \in Threads, AddStore(t)
  PROVE  Sound' /\ Ready' = Append(Ready, adding[cpu].child)
<1> DEFINE child == adding[cpu].child
           n == Stored
           slots == Write(readyQueue.slots, n, child)
<1>1. cpu = t /\ pc[cpu] = "store" /\ Creator(t) /\ pc' = [pc EXCEPT ![cpu] = "run"]
      /\ adding' = [adding EXCEPT ![cpu] = Nothing]
      /\ UNCHANGED <<current, alive, used, cpu>>
  BY DEF AddStore, At, Creator, Goto
<1>2. /\ readyQueue \in Lists /\ Fits(readyQueue) /\ adding[cpu] \in Hands /\ cpu \in Threads
      /\ adding \in [Threads -> Hands] /\ pc \in [Threads -> PC]
      /\ Created /\ Runs /\ Halfway /\ Stored \in Nat
      /\ Holds(Effective, Stored, Waiting) /\ Ready = Listed(Effective, Stored)
      /\ cpu \in alive /\ cpu = current
  BY <1>1, AddingNow
<1>3. /\ adding[cpu].index = n /\ adding[cpu].size = readyQueue.size /\ child \in alive
      /\ Effective = readyQueue.slots /\ readyQueue.count = n + 1
      /\ DOMAIN readyQueue.slots = 0 .. readyQueue.size - 1 /\ n < readyQueue.size
      /\ readyQueue.size \in Nat
  BY <1>1, <1>2 DEF Halfway, InAdd, Stored, Effective, Fits, Lists
<1>4. readyQueue' = [readyQueue EXCEPT !.slots = slots]
  BY <1>1, <1>3 DEF AddStore
<1>5. /\ DOMAIN slots = DOMAIN readyQueue.slots /\ slots[n] = child
      /\ \A x \in 0 .. n - 1 : slots[x] = readyQueue.slots[x]
  BY <1>2, <1>3 DEF Write
<1> HIDE DEF slots
<1>6. readyQueue'.slots = slots /\ readyQueue'.size = readyQueue.size
      /\ readyQueue'.count = readyQueue.count
  BY <1>2, <1>4 DEF Lists
<1>7. /\ pc'[cpu'] = "run" /\ adding'[cpu'] = Nothing /\ Nothing.child = NoThread
      /\ \A u \in Threads : u # cpu => pc'[u] = pc[u] /\ adding'[u] = adding[u]
  BY <1>1, <1>2 DEF Nothing
<1>8. \A u \in Threads : u # cpu => adding[u].child # child
  BY <1>1, <1>2 DEF Created
<1>9. child # current /\ NoThread \notin alive /\ child \notin Waiting
  BY <1>1, <1>2, SchedulerAssumption DEF Created, IInv, TypeOK, Waiting, InCreation
<1>10. Waiting' = Waiting \cup {child}
  <2>1. ASSUME NEW w \in alive, w # child
        PROVE  (\E u \in Threads : adding'[u].child = w) <=> (\E u \in Threads : adding[u].child = w)
    <3>1. w # NoThread
      BY <1>9, <2>1
    <3>2. \A u \in Threads : adding'[u].child = w <=> adding[u].child = w
      BY <1>1, <1>7, <2>1, <3>1
    <3> QED BY <3>2
  <2>2. \A u \in Threads : adding'[u].child # child
    BY <1>1, <1>3, <1>7, <1>8, <1>9
  <2> QED BY <1>1, <1>3, <1>9, <2>1, <2>2 DEF Waiting, InCreation
<1>11. /\ Holds(slots, n + 1, Waiting \cup {child})
       /\ Listed(slots, n + 1) = Append(Ready, child)
  <2>1. 0 .. n \subseteq DOMAIN slots
    BY <1>2, <1>3, <1>5
  <2>2. n \in Nat /\ slots[n] = child /\ child \notin Waiting
        /\ \A x \in 0 .. n - 1 : slots[x] = Effective[x]
    BY <1>2, <1>3, <1>5, <1>9
  <2> HIDE DEF child, n
  <2>3. /\ Holds(slots, n + 1, Waiting \cup {child})
        /\ Listed(slots, n + 1) = Append(Listed(Effective, n), child)
    BY <1>2, <2>1, <2>2, HoldsOneMore, ZenonT(60) DEF n
  <2> QED BY <1>2, <2>3 DEF n
<1>12. Effective' = slots /\ Stored' = n + 1
  BY <1>3, <1>6, <1>7 DEF Effective, Stored
<1>13. Queued'
  BY <1>2, <1>3, <1>5, <1>6, <1>10, <1>11, <1>12 DEF Queued, Fits
<1>14. Halfway' /\ Runs'
  BY <1>1, <1>2, <1>7, <1>9 DEF Halfway, Runs, InAdd
<1>15. Created'
  <2>1. \A u \in Threads : Creator(u)' => u # cpu /\ Creator(u)
    BY <1>1, <1>7 DEF Creator
  <2>2. \A u \in Threads : u # cpu' => pc'[u] \notin InAdd
    BY <1>1, <1>2, <1>7 DEF Created
  <2>3. \A u \in Threads : ~Creator(u)' => adding'[u] = Nothing
    BY <1>1, <1>2, <1>7 DEF Created, Creator
  <2>4. \A u \in Threads : pc'[u] = "dead" => u \notin alive'
    BY <1>1, <1>2, <1>7 DEF Created
  <2>5. \A u \in Threads : u \notin used' => pc'[u] = "run"
    BY <1>1, <1>2, <1>7 DEF Created
  <2>6. \A u \in Threads : pc'[u] \in {"new", "add"} =>
          adding'[u].index = 0 /\ adding'[u].child \notin alive' /\ pc'[adding'[u].child] = "run"
    <3> TAKE u \in Threads
    <3> HAVE pc'[u] \in {"new", "add"}
    <3>1. u # cpu /\ pc'[u] = pc[u] /\ adding'[u] = adding[u]
      BY <1>1, <1>7
    <3>2. adding[u].index = 0 /\ adding[u].child \notin alive /\ pc[adding[u].child] = "run"
      BY <1>2, <3>1 DEF Created
    <3>3. pc'[adding[u].child] = pc[adding[u].child]
      BY <1>1, <1>2, <3>2
    <3> QED BY <1>1, <3>1, <3>2, <3>3
  <2>7. \A u \in Threads : Creator(u)' => adding'[u].child # current'
    BY <1>1, <1>2, <1>7, <2>1 DEF Created
  <2>8. ASSUME NEW u \in Threads, NEW v \in Threads, Creator(u)', adding'[u].child = adding'[v].child
        PROVE  u = v
    <3>1. u # cpu /\ Creator(u) /\ adding'[u] = adding[u]
      BY <1>7, <2>1, <2>8
    <3>2. adding[u].child # NoThread
      <4>1. adding[u].child \in used
        BY <3>1 DEF IInv, Creating, Creator
      <4> QED BY <4>1, SchedulerAssumption DEF IInv, TypeOK
    <3>3. v # cpu
      BY <1>1, <1>7, <2>8, <3>1, <3>2
    <3> QED BY <1>2, <1>7, <2>8, <3>1, <3>3 DEF Created
  <2> QED BY <2>2, <2>3, <2>4, <2>5, <2>6, <2>7, <2>8 DEF Created
<1>16. Sound'
  BY <1>13, <1>14, <1>15 DEF Sound
<1>17. (Sound => Ready = Listed(Effective, Stored))'
  BY SoundNoneLost, PTL
<1> QED BY <1>11, <1>12, <1>16, <1>17

\* ThreadExit frees the current thread; the queue does not have it.
LEMMA ExitSound ==
  ASSUME IInv, Sound, machine = "up", NEW t \in Threads, ThreadExit(t)
  PROVE  /\ Sound' /\ machine' # "panic"
         /\ machine' = "up" => Ready' = Ready /\ current' \in {current, NoThread}
<1>1. cpu = t /\ pc[cpu] = "run"
      /\ UNCHANGED <<readyQueue, used, cpu, adding>>
  BY DEF ThreadExit, At
<1>2. Runs /\ Created /\ Queued /\ Halfway /\ Ready = Listed(Effective, Stored)
  BY SoundNoneLost DEF Sound
<1>3. /\ cpu \in Threads /\ cpu = current /\ cpu \in alive /\ alive \subseteq used
      /\ pc \in [Threads -> PC] /\ NoThread \notin used
  BY <1>1, <1>2, RunsKnown
<1>4. CASE memoryLock
  <2>1. UNCHANGED <<current, alive, pc>> /\ machine' = "hung"
    BY <1>4 DEF ThreadExit
  <2>2. Sound'
    BY <1>1, <2>1, StaysSound
  <2> QED BY <2>1, <2>2
<1>5. CASE ~memoryLock
  <2>1. /\ current' = NoThread /\ alive' = alive \ {current} /\ machine' = machine
        /\ pc' = [pc EXCEPT ![cpu] = "dead"]
    BY <1>1, <1>5 DEF ThreadExit, Goto
  <2>2. pc'[cpu'] = "dead" /\ \A u \in Threads : u # cpu => pc'[u] = pc[u]
    BY <1>1, <1>3, <2>1
  <2>3. Runs'
    BY <1>1, <1>3, <2>1, <2>2 DEF Runs
  <2>4. \A u \in Threads : adding[u].child \notin alive
    BY <1>1, <1>2, NoneHalfCreated DEF InAdd
  <2>5. Waiting' = Waiting
    BY <1>1, <1>3, <2>1 DEF Waiting, InCreation
  <2>6. \A u \in Threads : Creator(u) => adding[u].child \in used
    BY DEF IInv, Creating, Creator
  <2>7. Created'
    <3>1. \A u \in Threads : Creator(u)' <=> Creator(u)
      BY <1>1, <2>2 DEF Creator
    <3>2. \A u \in Threads : u # cpu' => pc'[u] \notin InAdd
      BY <1>1, <1>2, <2>2 DEF Created
    <3>3. \A u \in Threads : ~Creator(u)' => adding'[u] = Nothing
      BY <1>1, <1>2, <3>1 DEF Created
    <3>4. \A u \in Threads : pc'[u] = "dead" => u \notin alive'
      BY <1>2, <1>3, <2>1, <2>2 DEF Created
    <3>5. \A u \in Threads : u \notin used' => pc'[u] = "run"
      BY <1>1, <1>2, <1>3, <2>2 DEF Created
    <3>6. \A u \in Threads : pc'[u] \in {"new", "add"} =>
            adding'[u].index = 0 /\ adding'[u].child \notin alive' /\ pc'[adding'[u].child] = "run"
      <4> TAKE u \in Threads
      <4> HAVE pc'[u] \in {"new", "add"}
      <4>1. adding[u].index = 0 /\ adding[u].child \notin alive /\ pc[adding[u].child] = "run"
        BY <1>1, <1>2, <2>2 DEF Created
      <4>2. pc'[adding[u].child] = pc[adding[u].child]
        BY <1>1, <1>3, <2>1, <4>1
      <4> QED BY <1>1, <2>1, <4>1, <4>2
    <3>7. \A u \in Threads : Creator(u)' => adding'[u].child # current'
      BY <1>1, <1>3, <2>1, <2>6, <3>1
    <3>8. \A u, v \in Threads : Creator(u)' /\ adding'[u].child = adding'[v].child => u = v
      BY <1>1, <1>2, <3>1 DEF Created
    <3> QED BY <3>2, <3>3, <3>4, <3>5, <3>6, <3>7, <3>8 DEF Created
  <2>8. Effective' = Effective /\ Stored' = Stored
    BY <1>1, <2>2 DEF Effective, Stored
  <2>9. Queued' /\ Halfway'
    BY <1>1, <1>2, <2>2, <2>5, <2>8 DEF Queued, Halfway, InAdd
  <2>10. Sound'
    BY <2>3, <2>7, <2>9 DEF Sound
  <2>11. (Sound => Ready = Listed(Effective, Stored))'
    BY SoundNoneLost, PTL
  <2> QED BY <1>2, <2>1, <2>8, <2>10, <2>11
<1> QED BY <1>4, <1>5

\* hStartScheduler: an empty queue, and the boot code is the kernel's thread.
LEMMA StartSound == ASSUME IInv, QueueInv, Start PROVE QueueInv' /\ InOrder
<1>1. /\ ~running /\ running' /\ machine = "up" /\ readyQueue' = NewList
      /\ current' = Kernel /\ alive' = {Kernel} /\ used' = {Kernel}
      /\ UNCHANGED <<cpu, pc, memory, memoryLock, adding, machine, torn>>
  BY DEF Start
<1>2. cpu = Kernel /\ ~torn /\ \A t \in Threads : adding[t] = Nothing
  BY <1>1 DEF QueueInv, Booting
<1>3. \A t \in Threads : pc[t] = "run"
  BY <1>1 DEF IInv, Idle
<1>4. Kernel \in Threads /\ Kernel # NoThread
  BY SchedulerAssumption
<1>5. Runs' /\ Halfway'
  BY <1>1, <1>2, <1>3, <1>4 DEF Runs, Halfway, InAdd
<1>6. Created'
  BY <1>1, <1>2, <1>3, <1>4 DEF Created, Creator, InAdd
<1>7. Waiting' = {}
  BY <1>1 DEF Waiting
<1>8. Effective' = Cleared(InitialSize) /\ Stored' = 0
  BY <1>1, <1>2, <1>3, <1>4 DEF Effective, Stored, NewList
<1>9. Holds(Effective', 0, {})
  BY DEF Holds
<1>10. Fits(NewList)
  BY ClearedDomain, ListAssumption DEF Fits, NewList
<1>11. Queued'
  BY <1>1, <1>7, <1>8, <1>9, <1>10 DEF Queued
<1> QED BY <1>1, <1>2, <1>5, <1>6, <1>11 DEF QueueInv, Sound, Booting, OnlyTornPanics, InOrder

\* CreateThread in all its steps.
LEMMA AddingSound ==
  ASSUME IInv, QueueInv, NEW t \in Threads, Adding(t)
  PROVE  QueueInv' /\ InOrder
<1>1. /\ running /\ running' /\ machine = "up" /\ cpu = t
      /\ UNCHANGED <<machine, torn, current>>
  <2>1. CASE \E child \in Threads : CreateThread(t, child)
    BY <2>1 DEF CreateThread, At, lists
  <2>2. CASE CreateObject(t) \/ AddStart(t) \/ AddCopy(t) \/ AddDelete(t) \/ AddInstall(t)
             \/ AddCount(t) \/ AddStore(t)
    <3>1. UNCHANGED <<running, machine, torn, current>> /\ cpu = t /\ machine = "up"
          /\ pc[t] \in {"new", "add", "copy", "delete", "install", "count", "store"}
      BY <2>2 DEF CreateObject, AddStart, AddCopy, AddDelete, AddInstall, AddCount, AddStore,
                  At, lists
    <3> QED BY <3>1, ChildKnown
  <2> QED BY <2>1, <2>2 DEF Adding
<1>2. CASE torn
  BY <1>1, <1>2 DEF QueueInv, Booting, OnlyTornPanics, InOrder
<1>3. CASE ~torn
  <2>1. Sound
    BY <1>1, <1>3 DEF QueueInv
  <2>2. Sound' /\ (Ready' = Ready \/ Ready' = Append(Ready, adding[cpu].child))
    BY <2>1, CreateThreadSound, CreateObjectSound, AddStartSound, CopySound, DeleteSound,
       InstallSound, CountSound, StoreSound DEF Adding
  <2> QED BY <1>1, <1>3, <2>2 DEF QueueInv, Booting, OnlyTornPanics, InOrder
<1> QED BY <1>2, <1>3

\* The invariant of the queue holds initially.
LEMMA QueueStarts == Init => QueueInv
  BY DEF Init, QueueInv, Booting, OnlyTornPanics

\* Every step preserves it, and does to the queue what InOrder says.
LEMMA QueueStep == IInv /\ QueueInv /\ [Next]_vars => QueueInv' /\ [InOrder]_vars
<1> SUFFICES ASSUME IInv, QueueInv, [Next]_vars PROVE QueueInv' /\ [InOrder]_vars
  OBVIOUS
<1>1. CASE Start
  BY <1>1, StartSound
<1>2. CASE TimerInterrupt \/ \E t \in Threads : Yield(t)
  BY <1>2, SwitchesSound
<1>3. ASSUME NEW t \in Threads, Memory(t) \/ Aquire(t) \/ Free(t)
      PROVE  QueueInv' /\ [InOrder]_vars
  BY <1>3, MemorySound
<1>4. ASSUME NEW t \in Threads, Adding(t) PROVE QueueInv' /\ [InOrder]_vars
  BY <1>4, AddingSound
<1>5. ASSUME NEW t \in Threads, ThreadExit(t) PROVE QueueInv' /\ [InOrder]_vars
  <2>1. running /\ running' /\ torn' = torn /\ machine = "up"
    BY <1>5 DEF ThreadExit, At
  <2>2. CASE torn
    BY <2>1, <2>2 DEF QueueInv, Booting, OnlyTornPanics, InOrder
  <2>3. CASE ~torn
    <3>1. Sound
      BY <2>1, <2>3 DEF QueueInv
    <3>2. /\ Sound' /\ machine' # "panic"
          /\ machine' = "up" => Ready' = Ready /\ current' \in {current, NoThread}
      BY <1>5, <2>1, <3>1, ExitSound
    <3> QED BY <2>1, <2>3, <3>2 DEF QueueInv, Booting, OnlyTornPanics, InOrder
  <2> QED BY <2>2, <2>3
<1>6. CASE UNCHANGED vars
  <2>1. Sound' = Sound
    BY <1>6, StaysSound DEF vars
  <2> QED BY <1>6, <2>1 DEF vars, QueueInv, Booting, OnlyTornPanics
<1> QED BY <1>1, <1>2, <1>3, <1>4, <1>5, <1>6 DEF Next

\* For any number of threads, any array length and any growth: as long as no
\* thread was preempted inside ReadyQueue.Add, every thread that exists is in
\* the queue once, or is the current one, or is being created, whatever
\* CreateThread, the timer, yields and exits do in whatever order.
THEOREM NoThreadLostHolds == Spec => []NoThreadLost
<1>1. QueueInv => NoThreadLost
  BY SoundNoneLost DEF QueueInv, NoThreadLost
<1> QED BY <1>1, QueueStarts, QueueStep, Invariance, PTL DEF Spec

\* TaskSwitch and TaskSwitchOnEnd find a thread that exists at the head of the
\* queue, unless a thread was preempted inside ReadyQueue.Add before.
THEOREM OnlyTornPanicsHolds == Spec => []OnlyTornPanics
<1>1. QueueInv => OnlyTornPanics
  BY DEF QueueInv
<1> QED BY <1>1, QueueStarts, QueueStep, Invariance, PTL DEF Spec

\* The queue is first in, first out over all steps: also while Add grows the
\* array, counts before it stores, and free overwrites the old array.
THEOREM FirstInFirstOutHolds == Spec => FirstInFirstOut
  BY QueueStarts, QueueStep, Invariance, PTL DEF Spec, FirstInFirstOut
=============================================================================
