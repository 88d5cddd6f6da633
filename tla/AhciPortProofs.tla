---------------------------- MODULE AhciPortProofs ----------------------------
(***************************************************************************)
(* The port of module AhciPort for any number of threads, any reads and    *)
(* any size of the buffer: it has one owner, and what a thread finds in    *)
(* the buffer is what it asked for, however many commands were given up.   *)
(***************************************************************************)
EXTENDS AhciPort, SequenceTheorems, TLAPS

\* The labels of a round, from the test of TaskFileData to memcpy.
Rounds == {"clear", "fill", "busy", "issue", "wait", "over", "copy"}

\* Threads that read have a request, and those in a round have something to
\* read.
Working == \A t \in Threads :
    /\ pc[t] \notin BootLabels \cup {"idle"} => request[t] \in Requests
    /\ pc[t] \in Rounds => job[t].fills > 0 \/ job[t].rest > 0

\* Nobody reads before the port is configured, and nobody else boots.
BootFirst == \A t \in Threads :
    /\ pc[t] \in BootLabels => t = Boot
    /\ pc[Boot] \in BootLabels /\ t # Boot => pc[t] = "idle"

\* A device that has a command or will get one has its bit in CommandIssue.
BitSet == /\ busy \/ armed => commandIssue
          /\ ~(busy /\ armed)

BufferHas(c) == \A x \in 0 .. c.count - 1 : mBuffer[x] = c.lba + x

\* From the test of TaskFileData on, the device works on nothing but the
\* command of the thread that has the port; the data is there when the bit is
\* clear.
Served == \A t \in Threads :
    /\ pc[t] \in {"busy", "issue", "wait", "copy"} => table = Command(job[t])
    /\ pc[t] \in {"issue", "wait"} /\ busy => command = table
    /\ pc[t] = "wait" /\ ~commandIssue => BufferHas(Command(job[t]))
    /\ pc[t] = "copy" => ~commandIssue /\ BufferHas(Command(job[t]))

\* As long as no command was left behind, the device is idle unless a thread
\* waits for it.
Quiet == ~late /\ (busy \/ armed) => \E t \in Threads : pc[t] \in {"wait", "over"}

IInv == TypeOK /\ PortOwned /\ Working /\ BootFirst /\ BitSet /\ Served /\ Quiet

-----------------------------------------------------------------------------
\* Division by a positive number.
LEMMA Division ==
  ASSUME NEW a \in Nat, NEW d \in Nat \ {0}
  PROVE  /\ a \div d \in Nat /\ a % d \in 0 .. d - 1
         /\ a = d * (a \div d) + (a % d)
<1> DEFINE q == a \div d
           r == a % d
<1>1. q \in Int /\ r \in 0 .. d - 1 /\ a = d * q + r
  OBVIOUS
<1> HIDE DEF q, r
<1>2. q >= 0
  BY <1>1
<1> QED BY <1>1, <1>2 DEF q, r

\* A product of naturals is a natural, and is monotone.
LEMMA Product ==
  ASSUME NEW a \in Nat, NEW b \in Nat, NEW c \in Nat, a <= b
  PROVE  a * c \in Nat /\ b * c \in Nat /\ a * c <= b * c
  OBVIOUS

\* What a read computes first is of the right type, and not nothing.
LEMMA JobTyped ==
  ASSUME NEW r \in Requests
  PROVE  /\ NewJob(r) \in Jobs
         /\ NewJob(r).fills > 0 \/ NewJob(r).rest > 0
<1> USE AhciAssumption
<1> DEFINE S == SectorSize
           B == BufferSectors
           n == SectorCount(r)
           q == r.size \div S
<1>1. S \in Nat \ {0} /\ B \in Nat \ {0} /\ r.size \in Nat \ {0} /\ r.sector \in Nat
      /\ r.bytes \in BOOLEAN
  OBVIOUS
<1>2. q \in Nat /\ S * q <= r.size /\ r.size < S * q + S
  <2> DEFINE m == r.size % S
             a == S * q
  <2>1. q \in Nat /\ m \in 0 .. S - 1 /\ r.size = a + m
    BY <1>1, Division
  <2>2. a \in Nat
    <3> HIDE DEF q, m
    <3> QED BY <1>1, <2>1
  <2> HIDE DEF m, a
  <2>3. a <= r.size /\ r.size < a + S
    BY <1>1, <2>1, <2>2
  <2> QED BY <2>1, <2>3 DEF a
<1>3. n \in Nat \ {0} /\ (r.bytes => n = q + 1) /\ (~r.bytes => n = r.size)
  BY <1>1, <1>2 DEF SectorCount
<1>4. /\ Fills(r) \in Nat /\ Rest(r) \in 0 .. B - 1 /\ n = B * Fills(r) + Rest(r)
  <2>1. Fills(r) = n \div B /\ Rest(r) = n % B
    BY DEF Fills, Rest
  <2> HIDE DEF n, B
  <2> QED BY <1>1, <1>3, <2>1, Division, ZenonT(60)
<1> DEFINE f == Fills(r)
           e == Rest(r)
<1>5. f > 0 \/ e > 0
  BY <1>1, <1>3, <1>4
<1>6. RestBytes(r) \in 0 .. B * S - 1
  <2>0. B * S \in Nat \ {0}
    BY <1>1
  <2>1. CASE e = 0
    BY <2>0, <2>1 DEF RestBytes
  <2>2. CASE e # 0 /\ ~r.bytes
    <3>1. RestBytes(r) = e * S
      BY <2>2 DEF RestBytes
    <3>2. e \in Nat /\ e <= B - 1 /\ B - 1 \in Nat
      BY <1>1, <1>4
    <3> HIDE DEF e, B, S
    <3>3. e * S <= (B - 1) * S /\ e * S \in Nat
      BY <1>1, <3>2, Product
    <3>4. (B - 1) * S = B * S - S
      BY <1>1
    <3> QED BY <1>1, <2>0, <3>1, <3>3, <3>4
  <2>3. CASE e # 0 /\ r.bytes
    <3>1. RestBytes(r) = r.size - f * B * S
      BY <2>3 DEF RestBytes
    <3>2. e \in Nat /\ e <= B - 1 /\ e >= 1 /\ f \in Nat
      BY <1>1, <1>4, <2>3
    <3>3. q + 1 = B * f + e
      BY <1>3, <1>4, <2>3
    <3> HIDE DEF e, B, S, q, f
    <3>4. q = f * B + (e - 1)
      BY <1>1, <1>2, <3>2, <3>3
    <3>5. S * q = f * B * S + (e - 1) * S
      BY <1>1, <1>2, <3>2, <3>4
    <3>6. (e - 1) * S + S <= (B - 1) * S /\ (e - 1) * S >= 0
      <4>1. e * S <= (B - 1) * S /\ e - 1 \in Nat
        BY <1>1, <3>2, Product
      <4>2. (e - 1) * S \in Nat
        BY <1>1, <4>1, Product
      <4>3. (e - 1) * S + S = e * S
        BY <1>1, <3>2
      <4> QED BY <4>1, <4>2, <4>3
    <3>7. (B - 1) * S = B * S - S
      BY <1>1
    <3> DEFINE w == f * B * S
               v == (e - 1) * S
               u == S * q
    <3>8. w \in Int /\ v \in Int /\ u \in Int
      BY <1>1, <1>2, <3>2
    <3> HIDE DEF w, v, u
    <3>9. r.size - w >= v /\ r.size - w < v + S
      BY <1>1, <1>2, <3>5, <3>8 DEF w, v, u
    <3> QED BY <1>1, <2>0, <3>1, <3>6, <3>7, <3>8, <3>9 DEF w, v
  <2> QED BY <1>1, <2>1, <2>2, <2>3
<1>7. <<>> \in Seq(Nat \cup {Junk})
  OBVIOUS
<1> QED BY <1>1, <1>4, <1>5, <1>6, <1>7 DEF NewJob, Jobs

\* The address of a command is a natural number, and a job that is not done
\* has a command.
LEMMA CommandTyped ==
  ASSUME NEW j \in Jobs, j.fills > 0 \/ j.rest > 0
  PROVE  Command(j) \in Commands
<1> USE AhciAssumption
<1>1. j.sector \in Nat
  BY DEF Jobs
<1>2. j.sector % Word \in Nat /\ j.sector \div Word \in Nat
  BY <1>1, Division
<1>3. (j.sector % Word) % LbaLow \in Nat
  BY <1>2, Division
<1>4. (j.sector \div Word) * LbaLow \in Nat
  BY <1>2, Product
<1>5. Lba(j.sector) \in Nat
  BY <1>3, <1>4 DEF Lba
<1>6. (IF j.fills > 0 THEN BufferSectors ELSE j.rest) \in 1 .. BufferSectors
  BY DEF Jobs
<1> QED BY <1>5, <1>6 DEF Command, Commands

\* What memcpy takes from the buffer is a sequence of bytes.
LEMMA BytesTyped ==
  ASSUME TypeOK, NEW n \in 0 .. BufferSectors * SectorSize
  PROVE  Bytes(n) \in Seq(Nat \cup {Junk})
<1> USE AhciAssumption
<1>1. ASSUME NEW x \in 1 .. n PROVE ByteAt(x - 1) \in Nat \cup {Junk}
  <2> DEFINE y == x - 1
             q == y \div SectorSize
             m == y % SectorSize
  <2>0. BufferSectors * SectorSize \in Nat
    OBVIOUS
  <2>1. y \in Nat /\ y < BufferSectors * SectorSize
    BY <2>0, <1>1
  <2>2. q \in Nat /\ m \in Nat /\ SectorSize * q <= y
    <3> HIDE DEF y
    <3> QED BY <2>1, Division
  <2>3. q < BufferSectors
    <3> HIDE DEF y, q
    <3>1. CASE q >= BufferSectors
      <4>1. BufferSectors * SectorSize <= q * SectorSize
        BY <2>2, <3>1, Product
      <4>2. q * SectorSize = SectorSize * q
        BY <2>2
      <4> QED BY <2>0, <2>1, <2>2, <4>1, <4>2
    <3> QED BY <2>2, <3>1
  <2>4. mBuffer[q] \in Nat \cup {Junk}
    <3> HIDE DEF q
    <3> QED BY <2>2, <2>3 DEF TypeOK
  <2>5. CASE mBuffer[q] = Junk
    BY <2>5 DEF ByteAt
  <2>6. CASE mBuffer[q] # Junk
    <3>1. mBuffer[q] \in Nat
      BY <2>4, <2>6
    <3>2. mBuffer[q] * SectorSize \in Nat
      BY <3>1, Product
    <3>3. ByteAt(y) = mBuffer[q] * SectorSize + m
      BY <2>6 DEF ByteAt
    <3> DEFINE p == mBuffer[q] * SectorSize
    <3> HIDE DEF m, q, y, p
    <3>4. p + m \in Nat
      BY <2>2, <3>2 DEF p
    <3> QED BY <3>3, <3>4 DEF p, y
  <2> QED BY <2>5, <2>6
<1>2. n \in Nat
  OBVIOUS
<1>3. \A x \in 1 .. n : Bytes(n)[x] = ByteAt(x - 1)
  BY DEF Bytes
<1>4. Bytes(n) \in [1 .. n -> Nat \cup {Junk}]
  BY <1>1 DEF Bytes
<1> QED BY <1>2, <1>4
-----------------------------------------------------------------------------
\* While a thread has the port no other is inside, and unless it waits for the
\* device, only a command left behind can keep the device busy.
LEMMA Alone ==
  ASSUME IInv, NEW t \in Threads, pc[t] \in Inside
  PROVE  /\ mutex /\ \A u \in Threads \ {t} : pc[u] \notin Inside
         /\ pc[t] \notin {"wait", "over"} => late \/ (~busy /\ ~armed)
<1>1. mutex /\ \A u \in Threads \ {t} : pc[u] \notin Inside
  BY DEF IInv, PortOwned
<1>2. {"wait", "over"} \subseteq Inside
  BY DEF Inside, Labels, BootLabels
<1> QED BY <1>1, <1>2 DEF IInv, Quiet

\* What a step of the thread that has the port does to the threads.
LEMMA Moved ==
  ASSUME IInv, NEW t \in Threads, pc[t] \in Inside \ BootLabels,
         NEW label \in Labels \ (BootLabels \cup {"lock"}),
         pc' = [pc EXCEPT ![t] = label], mutex' = (label # "idle"),
         NEW j \in Jobs, job' = [job EXCEPT ![t] = j],
         label \in Rounds => j.fills > 0 \/ j.rest > 0,
         \/ label # "idle" /\ request' = request
         \/ label = "idle" /\ request' = [request EXCEPT ![t] = NoRequest]
  PROVE  /\ pc' \in [Threads -> Labels] /\ mutex' \in BOOLEAN
         /\ request' \in [Threads -> Requests \cup {NoRequest}]
         /\ job' \in [Threads -> Jobs]
         /\ PortOwned' /\ Working' /\ BootFirst'
         /\ \A u \in Threads \ {t} : pc'[u] \notin Inside
         /\ pc'[t] = label /\ job'[t] = j
<1>1. /\ pc \in [Threads -> Labels] /\ request \in [Threads -> Requests \cup {NoRequest}]
      /\ job \in [Threads -> Jobs]
  BY DEF IInv, TypeOK
<1>2. \A u \in Threads \ {t} : pc[u] \notin Inside /\ pc'[u] = pc[u] /\ job'[u] = job[u]
                               /\ request'[u] = request[u]
  BY <1>1, Alone
<1>3. pc'[t] = label /\ job'[t] = j
  BY <1>1
<1>4. label # "idle" <=> label \in Inside
  BY DEF Inside, Labels, BootLabels
<1>5. PortOwned'
  BY <1>2, <1>3, <1>4 DEF PortOwned
<1>6. Working'
  <2>1. ASSUME NEW u \in Threads \ {t} PROVE
          /\ pc'[u] \notin BootLabels \cup {"idle"} => request'[u] \in Requests
          /\ pc'[u] \in Rounds => job'[u].fills > 0 \/ job'[u].rest > 0
    BY <1>2, <2>1 DEF IInv, Working
  <2>2. pc[t] \notin BootLabels \cup {"idle"}
    BY DEF Inside
  <2>3. label # "idle" => request'[t] \in Requests
    BY <2>2 DEF IInv, Working
  <2> QED BY <1>3, <2>1, <2>3 DEF Working
<1>7. BootFirst'
  <2>1. label \notin BootLabels
    OBVIOUS
  <2>2. pc[Boot] \notin BootLabels
    BY DEF IInv, BootFirst, Inside
  <2>3. \A u \in Threads : pc'[u] \in BootLabels => pc[u] \in BootLabels
    BY <1>2, <1>3
  <2> QED BY <2>2, <2>3, AhciAssumption DEF IInv, BootFirst
<1> QED BY <1>1, <1>2, <1>3, <1>5, <1>6, <1>7

\* The job after a whole buffer was copied.
LEMMA AdvancedTyped ==
  ASSUME NEW j \in Jobs, j.fills > 0, NEW bytes \in Seq(Nat \cup {Junk})
  PROVE  LET k == [Advanced(j) EXCEPT !.out = @ \o bytes]
         IN  k \in Jobs /\ k.fills = j.fills - 1 /\ k.rest = j.rest
<1> DEFINE a == j.fills - 1
           b == j.sector + BufferSectors
           out == j.out \o bytes
           k == [Advanced(j) EXCEPT !.out = @ \o bytes]
<1>1. a \in Nat /\ b \in Nat /\ out \in Seq(Nat \cup {Junk})
  BY AhciAssumption DEF Jobs
<1>2. Advanced(j) = [[[j EXCEPT !.fills = a] EXCEPT !.sector = b] EXCEPT !.retried = FALSE]
  BY DEF Advanced, Jobs
<1> HIDE DEF a, b
<1>3. Advanced(j) \in Jobs /\ Advanced(j).out = j.out /\ Advanced(j).fills = a
      /\ Advanced(j).rest = j.rest
  BY <1>1, <1>2 DEF Jobs
<1>4. k = [Advanced(j) EXCEPT !.out = out]
  BY <1>3
<1> HIDE DEF out, k
<1>5. k \in Jobs /\ k.fills = a /\ k.rest = j.rest
  BY <1>1, <1>3, <1>4 DEF Jobs
<1> QED BY <1>5 DEF a, k

\* The table is prepared.
LEMMA PrepareInv ==
  ASSUME IInv, NEW t \in Threads, Clear(t) \/ Fill(t) \/ AwaitIdle(t)
  PROVE  IInv'
<1> USE DEF Rounds, Inside, Labels, BootLabels
<1>1. /\ mutex /\ \A u \in Threads \ {t} : pc[u] \notin Inside
      /\ late \/ (~busy /\ ~armed)
      /\ pc[t] \in {"clear", "fill", "busy"}
  BY Alone DEF Clear, Fill, AwaitIdle
<1>2. /\ job[t] \in Jobs /\ job' = [job EXCEPT ![t] = job[t]]
      /\ job[t].fills > 0 \/ job[t].rest > 0
      /\ UNCHANGED <<mutex, request, mBuffer, commandIssue, start, listRunning, busy, armed,
                     command, late>>
  BY <1>1 DEF Clear, Fill, AwaitIdle, IInv, TypeOK, Working, registers
<1>3. PICK label \in {"fill", "busy", "over", "issue"} : pc' = [pc EXCEPT ![t] = label]
  BY DEF Clear, Fill, AwaitIdle, Goto
<1>4. /\ pc' \in [Threads -> Labels] /\ mutex' \in BOOLEAN
      /\ request' \in [Threads -> Requests \cup {NoRequest}]
      /\ job' \in [Threads -> Jobs]
      /\ PortOwned' /\ Working' /\ BootFirst'
      /\ \A u \in Threads \ {t} : pc'[u] \notin Inside
      /\ pc'[t] = label /\ job'[t] = job[t]
  <2>1. mutex' = (label # "idle")
    BY <1>1, <1>2, <1>3
  <2>2. /\ pc[t] \in Inside \ BootLabels
        /\ label \in Labels \ (BootLabels \cup {"lock"}) /\ label # "idle"
    BY <1>1, <1>3
  <2> HIDE DEF Rounds, Inside, Labels, BootLabels
  <2>3. job[t] \in Jobs /\ (job[t].fills > 0 \/ job[t].rest > 0) /\ request' = request
    BY <1>2
  <2> QED BY <1>1, <1>2, <1>3, <2>1, <2>2, <2>3, Moved
<1>5. Command(job[t]) \in Commands
  BY <1>2, CommandTyped
<1>6. TypeOK'
  BY <1>2, <1>4, <1>5 DEF Clear, Fill, AwaitIdle, IInv, TypeOK, registers
<1>7. BitSet' /\ Quiet'
  BY <1>1, <1>2 DEF IInv, BitSet, Quiet
<1>8. Served'
  <2>1. CASE Clear(t)
    <3>1. label = "fill"
      BY <1>3, <1>4, <2>1 DEF Clear, Goto, IInv, TypeOK
    <3> QED BY <1>4, <3>1 DEF Served
  <2>2. CASE Fill(t)
    <3>1. label = "busy" /\ table' = Command(job[t])
      BY <1>3, <1>4, <2>2 DEF Fill, Goto, IInv, TypeOK
    <3> QED BY <1>4, <3>1 DEF Served, Command
  <2>3. CASE AwaitIdle(t)
    <3>1. table' = table /\ table = Command(job[t]) /\ label \in {"issue", "over"} /\ (label = "issue" => ~busy)
      BY <1>3, <1>4, <2>3 DEF AwaitIdle, Goto, IInv, TypeOK, Served
    <3> QED BY <1>2, <1>4, <3>1 DEF Served, Command
  <2> QED BY <2>1, <2>2, <2>3
<1> QED BY <1>4, <1>6, <1>7, <1>8 DEF IInv
\* The command is issued and waited for.
LEMMA WaitInv ==
  ASSUME IInv, NEW t \in Threads, Issue(t) \/ Await(t)
  PROVE  IInv'
<1> USE DEF Rounds, Inside, Labels, BootLabels
<1>1. /\ mutex /\ \A u \in Threads \ {t} : pc[u] \notin Inside
      /\ pc[t] \in {"issue", "wait"}
  BY Alone DEF Issue, Await
<1>2. /\ job[t] \in Jobs /\ job' = [job EXCEPT ![t] = job[t]]
      /\ job[t].fills > 0 \/ job[t].rest > 0
      /\ UNCHANGED <<mutex, request, table, mBuffer, taskFileError, start, listRunning, busy,
                     command, late>>
      /\ table = Command(job[t])
  BY <1>1 DEF Issue, Await, IInv, TypeOK, Working, Served, registers
<1>3. PICK label \in {"wait", "over", "copy"} : pc' = [pc EXCEPT ![t] = label]
  BY DEF Issue, Await, Goto
<1>4. /\ pc' \in [Threads -> Labels] /\ mutex' \in BOOLEAN
      /\ request' \in [Threads -> Requests \cup {NoRequest}]
      /\ job' \in [Threads -> Jobs]
      /\ PortOwned' /\ Working' /\ BootFirst'
      /\ \A u \in Threads \ {t} : pc'[u] \notin Inside
      /\ pc'[t] = label /\ job'[t] = job[t]
  <2>1. mutex' = (label # "idle")
    BY <1>1, <1>2, <1>3
  <2>2. /\ pc[t] \in Inside \ BootLabels
        /\ label \in Labels \ (BootLabels \cup {"lock"}) /\ label # "idle"
    BY <1>1, <1>3
  <2> HIDE DEF Rounds, Inside, Labels, BootLabels
  <2>3. job[t] \in Jobs /\ (job[t].fills > 0 \/ job[t].rest > 0) /\ request' = request
    BY <1>2
  <2> QED BY <1>1, <1>2, <1>3, <2>1, <2>2, <2>3, Moved
<1>5. CASE Issue(t)
  <2>1. /\ label = "wait" /\ commandIssue' = TRUE /\ armed' = (armed \/ ~busy)
        /\ busy => command = table
    BY <1>1, <1>3, <1>4, <1>5 DEF Issue, Goto, IInv, TypeOK, Served
  <2>2. TypeOK'
    BY <1>2, <1>4, <2>1 DEF IInv, TypeOK
  <2>3. BitSet'
    BY <1>2, <2>1 DEF IInv, BitSet
  <2>4. Quiet'
    BY <1>4, <2>1 DEF Quiet
  <2>5. Served'
    BY <1>2, <1>4, <2>1 DEF Served, Command
  <2> QED BY <1>4, <2>2, <2>3, <2>4, <2>5 DEF IInv
<1>6. CASE Await(t)
  <2>1. /\ UNCHANGED <<commandIssue, armed>>
        /\ label \in {"over", "copy"} /\ pc[t] = "wait"
        /\ label = "copy" => ~commandIssue
    BY <1>3, <1>4, <1>6 DEF Await, Goto, registers, IInv, TypeOK
  <2>2. TypeOK'
    BY <1>2, <1>4, <2>1 DEF IInv, TypeOK
  <2>3. BitSet'
    BY <1>2, <2>1 DEF IInv, BitSet
  <2>4. Quiet'
    <3>1. CASE label = "over"
      BY <1>4, <3>1 DEF Quiet
    <3>2. CASE label = "copy"
      <4>1. ~busy' /\ ~armed'
        BY <1>2, <2>1, <3>2 DEF IInv, BitSet
      <4> QED BY <4>1 DEF Quiet
    <3> QED BY <2>1, <3>1, <3>2
  <2>5. Served'
    <3>1. label = "copy" => BufferHas(Command(job[t]))
      BY <2>1 DEF IInv, Served
    <3>2. BufferHas(Command(job[t])) => BufferHas(Command(job[t]))'
      BY <1>2, <1>4 DEF BufferHas, Command
    <3>3. Command(job[t])' = Command(job[t])
      BY <1>4 DEF Command
    <3> HIDE DEF Rounds
    <3> QED BY <1>2, <1>4, <2>1, <3>1, <3>2, <3>3 DEF Served
  <2> QED BY <1>4, <2>2, <2>3, <2>4, <2>5 DEF IInv
<1> QED BY <1>5, <1>6

\* The round is over.
LEMMA OverInv ==
  ASSUME IInv, NEW t \in Threads, GiveUp(t) \/ Copy(t) \/ Return(t)
  PROVE  IInv'
<1> USE DEF Rounds, Inside, Labels, BootLabels
<1>1. /\ mutex /\ \A u \in Threads \ {t} : pc[u] \notin Inside
      /\ pc[t] \in {"over", "copy", "success", "fail"}
      /\ pc[t] # "over" => late \/ (~busy /\ ~armed)
      /\ UNCHANGED <<table, mBuffer, registers>>
      /\ job \in [Threads -> Jobs] /\ job[t] \in Jobs
  BY Alone DEF GiveUp, Copy, Return, IInv, TypeOK
<1>2. \E label \in {"clear", "success", "fail", "idle"}, j \in Jobs :
        /\ pc' = [pc EXCEPT ![t] = label] /\ job' = [job EXCEPT ![t] = j]
        /\ label \in Rounds => j.fills > 0 \/ j.rest > 0
        /\ mutex' = (label # "idle")
        /\ \/ label # "idle" /\ request' = request
           \/ label = "idle" /\ request' = [request EXCEPT ![t] = NoRequest]
  <2>1. CASE GiveUp(t)
    <3>1. CASE job[t].fills > 0 /\ ~job[t].retried
      <4> DEFINE j == [job[t] EXCEPT !.retried = TRUE]
      <4>1. j \in Jobs /\ j.fills > 0 /\ job' = [job EXCEPT ![t] = j]
        BY <1>1, <2>1, <3>1 DEF GiveUp, Jobs
      <4>2. pc' = [pc EXCEPT ![t] = "clear"] /\ UNCHANGED <<mutex, request>>
        BY <2>1, <3>1 DEF GiveUp, Goto
      <4> HIDE DEF j
      <4> QED BY <1>1, <4>1, <4>2
    <3>2. CASE ~(job[t].fills > 0 /\ ~job[t].retried)
      <4>1. pc' = [pc EXCEPT ![t] = "fail"] /\ UNCHANGED <<mutex, request>>
            /\ job' = [job EXCEPT ![t] = job[t]]
        BY <1>1, <2>1, <3>2 DEF GiveUp, Goto
      <4> QED BY <1>1, <4>1
    <3> QED BY <3>1, <3>2
  <2>2. CASE Copy(t)
    <3> DEFINE j == job[t]
    <3>0. /\ j.sector \in Nat /\ j.fills \in Nat /\ j.rest \in 0 .. BufferSectors - 1
          /\ j.tail \in 0 .. BufferSectors * SectorSize - 1 /\ j.retried \in BOOLEAN
          /\ j.out \in Seq(Nat \cup {Junk}) /\ UNCHANGED <<mutex, request>>
          /\ BufferSectors * SectorSize \in Nat
      <4>1. UNCHANGED <<mutex, request>>
        BY <2>2 DEF Copy
      <4>2. BufferSectors * SectorSize \in Nat
        BY AhciAssumption
      <4>3. j \in Jobs
        BY <1>1
      <4> HIDE DEF j
      <4> QED BY <4>1, <4>2, <4>3 DEF Jobs
    <3>1. CASE j.fills > 0
      <4> DEFINE bytes == Bytes(BufferSectors * SectorSize)
                 k == [Advanced(j) EXCEPT !.out = @ \o bytes]
                 label == IF j.fills = 1 /\ j.rest = 0 THEN "success" ELSE "clear"
      <4>1. bytes \in Seq(Nat \cup {Junk})
        BY <3>0, BytesTyped DEF IInv
      <4>2. job' = [job EXCEPT ![t] = k] /\ pc' = [pc EXCEPT ![t] = label]
        BY <2>2, <3>1 DEF Copy, Goto
      <4> HIDE DEF bytes
      <4>3. k \in Jobs /\ k.fills = j.fills - 1 /\ k.rest = j.rest
        <5> HIDE DEF j
        <5> QED BY <1>1, <3>1, <4>1, AdvancedTyped DEF j
      <4>4. label \in {"clear", "success"} /\ (label = "clear" => k.fills > 0 \/ k.rest > 0)
        <5> HIDE DEF k, j
        <5> QED BY <3>0, <3>1, <4>3
      <4> HIDE DEF k, label
      <4> QED BY <1>1, <3>0, <4>2, <4>3, <4>4
    <3>2. CASE ~(j.fills > 0)
      <4> DEFINE out == j.out \o Bytes(j.tail)
                 k == [j EXCEPT !.out = out]
      <4>0. j.tail \in 0 .. BufferSectors * SectorSize
        BY <3>0
      <4>1. out \in Seq(Nat \cup {Junk})
        <5>1. Bytes(j.tail) \in Seq(Nat \cup {Junk})
          BY <4>0, BytesTyped DEF IInv
        <5> QED BY <3>0, <5>1
      <4>2. job' = [job EXCEPT ![t] = k] /\ pc' = [pc EXCEPT ![t] = "success"]
        BY <2>2, <3>2 DEF Copy, Goto
      <4> HIDE DEF out
      <4>3. k \in Jobs
        BY <1>1, <4>1 DEF Jobs
      <4> HIDE DEF k
      <4> QED BY <1>1, <3>0, <4>2, <4>3
    <3> QED BY <3>1, <3>2
  <2>3. CASE Return(t)
    <3>1. NoJob \in Jobs
      <4>1. BufferSectors * SectorSize \in Nat \ {0}
        BY AhciAssumption
      <4> QED BY <4>1, AhciAssumption DEF NoJob, Jobs
    <3>2. /\ pc' = [pc EXCEPT ![t] = "idle"] /\ job' = [job EXCEPT ![t] = NoJob]
          /\ mutex' = FALSE /\ request' = [request EXCEPT ![t] = NoRequest]
      BY <2>3 DEF Return, Goto
    <3> QED BY <3>1, <3>2
  <2> QED BY <2>1, <2>2, <2>3
<1>3. PICK label \in {"clear", "success", "fail", "idle"}, j \in Jobs :
        /\ pc' = [pc EXCEPT ![t] = label] /\ job' = [job EXCEPT ![t] = j]
        /\ label \in Rounds => j.fills > 0 \/ j.rest > 0
        /\ mutex' = (label # "idle")
        /\ \/ label # "idle" /\ request' = request
           \/ label = "idle" /\ request' = [request EXCEPT ![t] = NoRequest]
  BY <1>2
<1>4. /\ pc' \in [Threads -> Labels] /\ mutex' \in BOOLEAN
      /\ request' \in [Threads -> Requests \cup {NoRequest}]
      /\ job' \in [Threads -> Jobs]
      /\ PortOwned' /\ Working' /\ BootFirst'
      /\ \A u \in Threads \ {t} : pc'[u] \notin Inside
      /\ pc'[t] = label
  BY <1>1, <1>3, Moved, ZenonT(60)
<1>5. late' \in BOOLEAN /\ (~late' => ~busy /\ ~armed)
  BY <1>1 DEF GiveUp, Copy, Return, IInv, TypeOK
<1>6. TypeOK'
  BY <1>1, <1>4, <1>5 DEF IInv, TypeOK, registers
<1>7. BitSet' /\ Quiet'
  BY <1>1, <1>5 DEF IInv, BitSet, Quiet, registers
<1>8. Served'
  BY <1>4 DEF Served
<1> QED BY <1>4, <1>6, <1>7, <1>8 DEF IInv
\* A read is called and gets the port.
LEMMA EnterInv ==
  ASSUME IInv, NEW t \in Threads, Lock(t) \/ \E r \in Requests : Read(t, r)
  PROVE  IInv'
<1> USE DEF Rounds, Inside, Labels, BootLabels
<1>1. /\ pc \in [Threads -> Labels] /\ request \in [Threads -> Requests \cup {NoRequest}]
      /\ job \in [Threads -> Jobs]
      /\ UNCHANGED <<table, mBuffer, registers, late>>
  BY DEF Lock, Read, IInv, TypeOK
<1>2. CASE Lock(t)
  <2>1. /\ \A u \in Threads : pc[u] \notin Inside
        /\ pc' = [pc EXCEPT ![t] = "clear"] /\ mutex' = TRUE /\ request' = request
        /\ job' = [job EXCEPT ![t] = NewJob(request[t])]
        /\ request[t] \in Requests /\ pc[t] = "lock"
    BY <1>2 DEF Lock, Goto, IInv, PortOwned, Working
  <2>2. NewJob(request[t]) \in Jobs
        /\ (NewJob(request[t]).fills > 0 \/ NewJob(request[t]).rest > 0)
    BY <2>1, JobTyped
  <2>3. TypeOK'
    BY <1>1, <2>1, <2>2 DEF IInv, TypeOK, registers
  <2>4. PortOwned' /\ BootFirst'
    BY <1>1, <2>1 DEF IInv, PortOwned, BootFirst
  <2>5. Working'
    BY <1>1, <2>1, <2>2 DEF IInv, Working
  <2>6. BitSet' /\ Quiet'
    BY <1>1, <2>1 DEF IInv, BitSet, Quiet, registers
  <2>7. Served'
    BY <1>1, <2>1 DEF Served
  <2> QED BY <2>3, <2>4, <2>5, <2>6, <2>7 DEF IInv
<1>3. CASE \E r \in Requests : Read(t, r)
  <2>1. PICK r \in Requests : Read(t, r)
    BY <1>3
  <2>2. /\ pc' = [pc EXCEPT ![t] = "lock"] /\ request' = [request EXCEPT ![t] = r]
        /\ UNCHANGED <<mutex, job>> /\ pc[t] = "idle" /\ pc[Boot] \notin BootLabels
    BY <2>1 DEF Read, Goto
  <2>3. TypeOK'
    BY <1>1, <2>2 DEF IInv, TypeOK, registers
  <2>4. PortOwned' /\ BootFirst'
    BY <1>1, <2>2, AhciAssumption DEF IInv, PortOwned, BootFirst
  <2>5. Working'
    BY <1>1, <2>2 DEF IInv, Working
  <2>6. BitSet' /\ Quiet'
    BY <1>1, <2>2 DEF IInv, BitSet, Quiet, registers
  <2>7. Served'
    <3>1. \A u \in Threads : pc'[u] # "lock" => pc'[u] = pc[u]
      BY <1>1, <2>2
    <3> QED BY <1>1, <2>2, <3>1 DEF IInv, Served, BufferHas, Command, registers
  <2> QED BY <2>3, <2>4, <2>5, <2>6, <2>7 DEF IInv
<1> QED BY <1>2, <1>3

\* The port is configured while nobody reads.
LEMMA ConfiguringInv == ASSUME IInv, Configuring PROVE IInv'
<1> USE AhciAssumption DEF Rounds, Inside, Labels, BootLabels
<1>1. /\ pc \in [Threads -> Labels] /\ pc[Boot] \in BootLabels
      /\ \A t \in Threads \ {Boot} : pc[t] = "idle"
      /\ UNCHANGED <<request, job, mBuffer, commandIssue, taskFileError, listRunning, busy,
                     armed, command, late>>
  BY DEF Configuring, StopCMD, StoppedOrTimedOut, Configure, StartCMD, IInv, TypeOK, BootFirst,
         registers
<1>2. \E label \in {"stopping", "configure", "start", "idle"} :
        pc' = [pc EXCEPT ![Boot] = label] /\ mutex' = (label = "stopping")
  BY <1>1 DEF Configuring, StopCMD, StoppedOrTimedOut, Configure, StartCMD, Goto, IInv, PortOwned,
              TypeOK
<1>3. PICK label \in {"stopping", "configure", "start", "idle"} :
        pc' = [pc EXCEPT ![Boot] = label] /\ mutex' = (label = "stopping")
  BY <1>2
<1>4. pc'[Boot] = label /\ \A t \in Threads \ {Boot} : pc'[t] = "idle"
  BY <1>1, <1>3
<1>5. table' \in Commands \cup {Blank} /\ start' \in BOOLEAN
  BY DEF Configuring, StopCMD, StoppedOrTimedOut, Configure, StartCMD, IInv, TypeOK, registers
<1>6. TypeOK'
  BY <1>1, <1>3, <1>5 DEF IInv, TypeOK
<1>7. PortOwned' /\ BootFirst' /\ Working'
  <2>1. PortOwned'
    <3>1. \A t \in Threads : pc'[t] \in Inside <=> t = Boot /\ label = "stopping"
      BY <1>4
    <3> HIDE DEF Inside
    <3> QED BY <1>3, <3>1 DEF PortOwned
  <2>2. BootFirst'
    BY <1>4 DEF BootFirst
  <2>3. Working'
    BY <1>4 DEF Working
  <2> QED BY <2>1, <2>2, <2>3
<1>8. BitSet'
  BY <1>1 DEF IInv, BitSet
<1>9. Quiet'
  BY <1>1 DEF IInv, Quiet
<1>10. Served'
  BY <1>4 DEF Served
<1> QED BY <1>6, <1>7, <1>8, <1>9, <1>10 DEF IInv

\* The device moves.
LEMMA DeviceInv == ASSUME IInv, Device PROVE IInv'
<1> USE DEF Rounds, Inside, Labels, BootLabels
<1>1. UNCHANGED drivers
  BY DEF Device, ListStarts, Fetch, Complete, Fail
<1>2. PortOwned' /\ Working' /\ BootFirst'
  BY <1>1 DEF drivers, IInv, PortOwned, Working, BootFirst
<1>3. \A t \in Threads : Command(job[t])' = Command(job[t])
  BY <1>1 DEF drivers, Command
<1>4. CASE ListStarts
  <2>1. UNCHANGED <<mBuffer, commandIssue, taskFileError, start, busy, armed, command>>
        /\ listRunning' \in BOOLEAN
    BY <1>4 DEF ListStarts, IInv, TypeOK
  <2>2. TypeOK' /\ BitSet' /\ Quiet'
    BY <1>1, <2>1 DEF drivers, IInv, TypeOK, BitSet, Quiet
  <2>3. Served'
    BY <1>1, <1>3, <2>1 DEF drivers, IInv, Served, BufferHas
  <2> QED BY <1>2, <2>2, <2>3 DEF IInv
<1>5. CASE Fetch
  <2>1. /\ armed /\ ~busy /\ busy' = TRUE /\ armed' = FALSE /\ command' = table
        /\ UNCHANGED <<mBuffer, commandIssue, taskFileError, start, listRunning>>
    BY <1>5 DEF Fetch
  <2>2. commandIssue
    BY <2>1 DEF IInv, BitSet
  <2>3. TypeOK' /\ BitSet' /\ Quiet'
    BY <1>1, <2>1, <2>2 DEF drivers, IInv, TypeOK, BitSet, Quiet
  <2>4. Served'
    BY <1>1, <1>3, <2>1, <2>2 DEF drivers, IInv, Served
  <2> QED BY <1>2, <2>3, <2>4 DEF IInv
<1>6. CASE Complete
  <2>1. /\ busy /\ command # Blank /\ busy' = FALSE /\ commandIssue' = FALSE /\ command' = Blank
        /\ mBuffer' = [x \in DOMAIN mBuffer |->
                         IF x < command.count THEN command.lba + x ELSE mBuffer[x]]
        /\ UNCHANGED <<taskFileError, start, listRunning, armed>>
        /\ commandIssue /\ ~armed
    BY <1>6 DEF Complete, IInv, BitSet
  <2>2. command \in Commands /\ command.lba \in Nat /\ command.count \in 1 .. BufferSectors
        /\ mBuffer \in [0 .. BufferSectors - 1 -> Nat \cup {Junk}]
    BY <2>1 DEF IInv, TypeOK, Commands
  <2>3. mBuffer' \in [0 .. BufferSectors - 1 -> Nat \cup {Junk}]
    BY <2>1, <2>2
  <2>4. TypeOK'
    BY <1>1, <2>1, <2>3 DEF drivers, IInv, TypeOK
  <2>5. BitSet' /\ Quiet'
    BY <2>1 DEF BitSet, Quiet
  <2>6. Served'
    <3>1. \A x \in 0 .. command.count - 1 : mBuffer'[x] = command.lba + x
      <4>1. BufferSectors \in Nat
        BY AhciAssumption
      <4> QED BY <2>1, <2>2, <4>1
    <3>2. ASSUME NEW t \in Threads, pc[t] = "wait" PROVE BufferHas(Command(job[t]))'
      <4>1. command = Command(job[t])
        BY <2>1, <3>2 DEF IInv, Served
      <4> QED BY <1>3, <3>1, <4>1 DEF BufferHas
    <3>3. \A t \in Threads : pc[t] # "copy"
      BY <2>1 DEF IInv, Served
    <3> QED BY <1>1, <1>3, <2>1, <3>2, <3>3 DEF drivers, IInv, Served
  <2> QED BY <1>2, <2>4, <2>5, <2>6 DEF IInv
<1>7. CASE Fail
  <2>1. /\ busy /\ busy' = FALSE /\ command' = Blank /\ taskFileError' = TRUE
        /\ UNCHANGED <<mBuffer, commandIssue, start, listRunning, armed>>
    BY <1>7 DEF Fail
  <2>2. TypeOK'
    BY <1>1, <2>1 DEF drivers, IInv, TypeOK
  <2>3. BitSet' /\ Quiet'
    BY <1>1, <2>1 DEF drivers, IInv, BitSet, Quiet
  <2>4. Served'
    BY <1>1, <1>3, <2>1 DEF drivers, IInv, Served, BufferHas
  <2> QED BY <1>2, <2>2, <2>3, <2>4 DEF IInv
<1> QED BY <1>4, <1>5, <1>6, <1>7 DEF Device

-----------------------------------------------------------------------------
\* The invariant holds initially, and every step preserves it.
LEMMA Initially == Init => IInv
<1> SUFFICES ASSUME Init PROVE IInv
  OBVIOUS
<1> USE AhciAssumption DEF Init, Rounds, Inside, Labels, BootLabels
<1>1. NoJob \in Jobs
  <2> DEFINE m == BufferSectors * SectorSize
  <2>1. m \in Nat \ {0}
    OBVIOUS
  <2>2. <<>> \in Seq(Nat \cup {Junk})
    OBVIOUS
  <2> HIDE DEF m
  <2>3. 0 \in 0 .. m - 1 /\ 0 \in 0 .. BufferSectors - 1
    BY <2>1
  <2> QED BY <2>2, <2>3 DEF NoJob, Jobs, m
<1>2. TypeOK
  BY <1>1 DEF TypeOK
<1>3. PortOwned /\ Working /\ BootFirst /\ BitSet /\ Served /\ Quiet
  BY DEF PortOwned, Working, BootFirst, BitSet, Served, Quiet
<1> QED BY <1>2, <1>3 DEF IInv

LEMMA Inductive == IInv /\ [Next]_vars => IInv'
<1> SUFFICES ASSUME IInv, [Next]_vars PROVE IInv'
  OBVIOUS
<1>1. CASE Configuring
  BY <1>1, ConfiguringInv
<1>2. ASSUME NEW t \in Threads, Step(t) PROVE IInv'
  BY <1>2, PrepareInv, WaitInv, OverInv DEF Step
<1>3. ASSUME NEW t \in Threads, Lock(t) \/ \E r \in Requests : Read(t, r) PROVE IInv'
  BY <1>3, EnterInv
<1>4. CASE Device
  BY <1>4, DeviceInv
<1>5. CASE UNCHANGED vars
  BY <1>5 DEF vars, registers, IInv, TypeOK, PortOwned, Working, BootFirst, BitSet, Served,
              Quiet, BufferHas, Command
<1> QED BY <1>1, <1>2, <1>3, <1>4, <1>5 DEF Next

THEOREM Invariance == Spec => []IInv
  BY Initially, Inductive, PTL DEF Spec

\* Every variable of the port keeps its type: no read fills more than the
\* buffer, copies more than it holds or computes a negative number of bytes.
THEOREM TypeCorrect == Spec => []TypeOK
<1>1. IInv => TypeOK
  BY DEF IInv
<1> QED BY <1>1, Invariance, PTL

\* The mutex has one owner: no path through Read, ReadBytes and ReadFillBuffer
\* unlocks it twice or works without it.
THEOREM PortOwnedHolds == Spec => []PortOwned
<1>1. IInv => PortOwned
  BY DEF IInv
<1> QED BY <1>1, Invariance, PTL

\* What memcpy takes from the port's buffer is what the thread's own command
\* read, whatever commands were given up before, by anybody.
THEOREM BufferFreshHolds == Spec => []BufferFresh
<1>1. IInv => BufferFresh
  BY DEF IInv, Served, BufferFresh, BufferHas
<1> QED BY <1>1, Invariance, PTL

\* A command table that the device executes is not written to, unless a driver
\* gave up a command that the device still had.
THEOREM TableStableHolds == Spec => TableStable
<1>1. IInv /\ [Next]_vars => [busy => table' = table \/ late]_vars
  <2> SUFFICES ASSUME IInv, Next, busy, ~late PROVE table' = table
    OBVIOUS
  <2> USE DEF Inside, Labels, BootLabels
  <2>1. PICK t \in Threads : pc[t] \in {"wait", "over"}
    BY DEF IInv, Quiet
  <2>2. \A u \in Threads : pc[u] \notin {"clear", "fill", "configure"}
    <3>1. \A u \in Threads \ {t} : pc[u] \notin {"clear", "fill"}
      BY <2>1 DEF IInv, PortOwned
    <3>2. \A u \in Threads : pc[u] # "configure"
      BY <2>1 DEF IInv, BootFirst
    <3> QED BY <2>1, <3>1, <3>2
  <2> QED BY <2>2, AhciAssumption
        DEF Next, Configuring, StopCMD, StoppedOrTimedOut, Configure, StartCMD, Lock, Read, Step,
            Clear, Fill, AwaitIdle, Issue, Await, GiveUp, Copy, Return, Device, ListStarts, Fetch,
            Complete, Fail, drivers
<1> QED BY <1>1, Invariance, PTL DEF Spec, TableStable

-----------------------------------------------------------------------------
(***************************************************************************)
(* What a read has left to do gets less with every step.                   *)
(***************************************************************************)
\* How many steps a thread in a read has left at most: each round takes six,
\* a whole buffer is tried twice and the rest once.
StepsLeft(t) ==
    LET j == job[t]
        tries == 2 * j.fills + (IF j.rest > 0 THEN 1 ELSE 0) - (IF j.retried THEN 1 ELSE 0)
        step == CASE pc[t] = "clear" -> 7 [] pc[t] = "fill" -> 6 [] pc[t] = "busy" -> 5
                  [] pc[t] = "issue" -> 4 [] pc[t] = "wait" -> 3 [] OTHER -> 2
    IN  IF pc[t] = "idle" THEN 0 ELSE IF pc[t] \in {"success", "fail"} THEN 1
        ELSE 8 * tries + step

\* A thread that has the port comes nearer to giving it back with every step,
\* whatever the device does: no round is tried for a third time, and none is
\* done a second time.
CountsDown ==
    [][\A t \in Threads : pc[t] \in Inside \ BootLabels /\ pc'[t] # pc[t] =>
           StepsLeft(t)' \in 0 .. StepsLeft(t) - 1]_vars

Tries(j) == 2 * j.fills + (IF j.rest > 0 THEN 1 ELSE 0) - (IF j.retried THEN 1 ELSE 0)

LEMMA TriesCount ==
  ASSUME NEW j \in Jobs, j.fills > 0 \/ j.rest > 0
  PROVE  Tries(j) \in Nat
<1>1. j.fills \in Nat /\ j.rest \in Nat
  BY AhciAssumption DEF Jobs
<1>2. QED BY <1>1 DEF Tries

\* A second attempt, and a round that was done, leave fewer tries.
LEMMA RetryCounts ==
  ASSUME NEW j \in Jobs, j.fills > 0, ~j.retried
  PROVE  Tries([j EXCEPT !.retried = TRUE]) = Tries(j) - 1
<1> DEFINE k == [j EXCEPT !.retried = TRUE]
<1>1. k.fills = j.fills /\ k.rest = j.rest /\ k.retried = TRUE /\ j.fills \in Nat
  BY DEF Jobs
<1> HIDE DEF k
<1>2. Tries(k) = Tries(j) - 1
  BY <1>1 DEF Tries
<1>3. QED BY <1>2 DEF k

LEMMA AdvancedCounts ==
  ASSUME NEW j \in Jobs, j.fills > 0, NEW k \in Jobs, k.fills = j.fills - 1, k.rest = j.rest,
         k.retried = FALSE
  PROVE  Tries(k) <= Tries(j) - 1
<1>1. j.fills \in Nat /\ j.rest \in Nat
  BY AhciAssumption DEF Jobs
<1>2. QED BY <1>1 DEF Tries

LEMMA StepCounts ==
  ASSUME IInv, IInv', [Next]_vars,
         NEW t \in Threads, pc[t] \in Inside \ BootLabels, pc'[t] # pc[t]
  PROVE  StepsLeft(t)' \in 0 .. StepsLeft(t) - 1
<1> USE DEF Rounds, Labels, BootLabels, Inside
<1> DEFINE j == job[t]
           k == job'[t]
<1>1. /\ pc \in [Threads -> Labels] /\ job \in [Threads -> Jobs]
      /\ j \in Jobs /\ k \in Jobs
      /\ pc[t] \in Rounds => j.fills > 0 \/ j.rest > 0
      /\ pc'[t] \in Rounds => k.fills > 0 \/ k.rest > 0
  BY DEF IInv, TypeOK, Working
<1>2. Step(t)
  <2>1. ~Device /\ ~UNCHANGED vars
    BY DEF Device, ListStarts, Fetch, Complete, Fail, drivers, vars
  <2>2. ~Configuring
    <3>1. pc[Boot] \notin BootLabels
      BY DEF IInv, BootFirst
    <3>2. QED BY <3>1 DEF Configuring, StopCMD, StoppedOrTimedOut, Configure, StartCMD
  <2>3. PICK u \in Threads : Lock(u) \/ Step(u) \/ \E r \in Requests : Read(u, r)
    BY <2>1, <2>2 DEF Next
  <2>4. u = t
    <3>1. \E label : pc' = [pc EXCEPT ![u] = label]
      BY <2>3 DEF Lock, Read, Step, Clear, Fill, AwaitIdle, Issue, Await, GiveUp, Copy, Return, Goto
    <3>2. QED BY <1>1, <3>1
  <2>5. ~Lock(t) /\ \A r \in Requests : ~Read(t, r)
    BY DEF Lock, Read
  <2>6. QED BY <2>3, <2>4, <2>5
<1>3. /\ pc[t] \in Rounds => StepsLeft(t) = 8 * Tries(j) + (
             CASE pc[t] = "clear" -> 7 [] pc[t] = "fill" -> 6 [] pc[t] = "busy" -> 5
               [] pc[t] = "issue" -> 4 [] pc[t] = "wait" -> 3 [] OTHER -> 2)
      /\ pc[t] \in {"success", "fail"} => StepsLeft(t) = 1
  BY DEF StepsLeft, Tries
<1>4. /\ pc'[t] \in Rounds => StepsLeft(t)' = 8 * Tries(k) + (
             CASE pc'[t] = "clear" -> 7 [] pc'[t] = "fill" -> 6 [] pc'[t] = "busy" -> 5
               [] pc'[t] = "issue" -> 4 [] pc'[t] = "wait" -> 3 [] OTHER -> 2)
      /\ pc'[t] \in {"success", "fail"} => StepsLeft(t)' = 1
      /\ pc'[t] = "idle" => StepsLeft(t)' = 0
  BY DEF StepsLeft, Tries
<1>5. /\ pc[t] \in Rounds => Tries(j) \in Nat
      /\ pc'[t] \in Rounds => Tries(k) \in Nat
  BY <1>1, TriesCount
<1> HIDE DEF j, k
<1>6. CASE Clear(t) \/ Fill(t) \/ AwaitIdle(t) \/ Issue(t) \/ Await(t)
  <2>1. /\ k = j /\ pc[t] \in Rounds /\ pc'[t] \in Rounds
        /\ \/ pc[t] = "clear" /\ pc'[t] = "fill"
           \/ pc[t] = "fill" /\ pc'[t] = "busy"
           \/ pc[t] = "busy" /\ pc'[t] \in {"issue", "over"}
           \/ pc[t] = "issue" /\ pc'[t] = "wait"
           \/ pc[t] = "wait" /\ pc'[t] \in {"over", "copy"}
    BY <1>1, <1>6 DEF Clear, Fill, AwaitIdle, Issue, Await, Goto, j, k
  <2> DEFINE n == Tries(j)
  <2>2. n \in Nat /\ Tries(k) = n
    BY <1>5, <2>1
  <2>3. PICK a \in 3 .. 7, b \in 2 .. 6 :
          b < a /\ StepsLeft(t) = 8 * n + a /\ StepsLeft(t)' = 8 * n + b
    <3> HIDE DEF n
    <3>1. QED BY <1>3, <1>4, <2>1, <2>2 DEF n
  <2> HIDE DEF n
  <2>4. QED BY <2>2, <2>3
<1>7. CASE GiveUp(t)
  <2>1. /\ pc[t] = "over"
        /\ \/ j.fills > 0 /\ ~j.retried /\ k = [j EXCEPT !.retried = TRUE] /\ pc'[t] = "clear"
           \/ pc'[t] = "fail"
    BY <1>1, <1>7 DEF GiveUp, Goto, j, k
  <2>2. StepsLeft(t) = 8 * Tries(j) + 2 /\ Tries(j) \in Nat
    BY <1>3, <1>5, <2>1
  <2>3. CASE pc'[t] = "fail"
    BY <1>4, <2>2, <2>3
  <2>4. CASE pc'[t] = "clear"
    <3>1. Tries(k) = Tries(j) - 1
      BY <1>1, <2>1, <2>4, RetryCounts
    <3>2. StepsLeft(t)' = 8 * Tries(k) + 7 /\ Tries(k) \in Nat
      BY <1>4, <1>5, <2>4
    <3>3. QED BY <2>2, <3>1, <3>2
  <2>5. QED BY <2>1, <2>3, <2>4
<1>8. CASE Copy(t)
  <2>1. pc[t] = "copy" /\ pc'[t] \in {"clear", "success"}
    BY <1>1, <1>8 DEF Copy, Goto
  <2>2. StepsLeft(t) = 8 * Tries(j) + 2 /\ Tries(j) \in Nat
    BY <1>3, <1>5, <2>1
  <2>3. CASE pc'[t] = "success"
    BY <1>4, <2>2, <2>3
  <2>4. CASE pc'[t] = "clear"
    <3>1. /\ j.fills > 0
          /\ k = [Advanced(j) EXCEPT !.out = @ \o Bytes(BufferSectors * SectorSize)]
      BY <1>1, <1>8, <2>4 DEF Copy, Goto, j, k
    <3>2. k.fills = j.fills - 1 /\ k.rest = j.rest /\ k.retried = FALSE
      <4>1. /\ Advanced(j).fills = j.fills - 1 /\ Advanced(j).rest = j.rest
            /\ Advanced(j).retried = FALSE
        BY <1>1 DEF Advanced, Jobs
      <4>2. QED BY <3>1, <4>1
    <3>3. Tries(k) <= Tries(j) - 1
      BY <1>1, <3>1, <3>2, AdvancedCounts
    <3>4. StepsLeft(t)' = 8 * Tries(k) + 7 /\ Tries(k) \in Nat
      BY <1>4, <1>5, <2>4
    <3>5. QED BY <2>2, <3>3, <3>4
  <2>5. QED BY <2>1, <2>3, <2>4
<1>9. CASE Return(t)
  <2>1. pc[t] \in {"success", "fail"} /\ pc'[t] = "idle"
    BY <1>1, <1>9 DEF Return, Goto
  <2>2. QED BY <1>3, <1>4, <2>1
<1>10. QED BY <1>2, <1>6, <1>7, <1>8, <1>9 DEF Step

\* A read of n sectors takes at most a bounded number of its own steps, however
\* often the device fails or does not answer: it never tries for ever while it
\* holds the mutex.
THEOREM CountsDownHolds == Spec => CountsDown
<1>1. IInv /\ [Next]_vars => IInv'
  BY Inductive
<1>2. IInv /\ IInv' /\ [Next]_vars =>
        [\A t \in Threads : pc[t] \in Inside \ BootLabels /\ pc'[t] # pc[t] =>
           StepsLeft(t)' \in 0 .. StepsLeft(t) - 1]_vars
  BY StepCounts
<1>3. QED BY <1>1, <1>2, Invariance, PTL DEF Spec, CountsDown

-----------------------------------------------------------------------------
(***************************************************************************)
(* What a read delivers.                                                   *)
(***************************************************************************)
\* The bytes that were delivered so far are the first of those asked for.
InOrder(r, out) ==
    r.sector + SectorCount(r) <= LbaLow =>
        \A x \in 1 .. Len(out) : out[x] = r.sector * SectorSize + x - 1

\* Between two rounds j has delivered the sectors before its own, and has as
\* many to go as the request needs.
Midway(r, j) ==
    /\ j.rest = Rest(r) /\ j.tail = RestBytes(r)
    /\ r.sector <= j.sector
    /\ j.sector + j.fills * BufferSectors + j.rest = r.sector + SectorCount(r)
    /\ Len(j.out) = (j.sector - r.sector) * SectorSize
    /\ InOrder(r, j.out)

\* A read that returns true has delivered every byte asked for, in order, as
\* long as it stays below sector LbaLow; ReadBytes delivers up to a sector
\* more, because it counts whole sectors.
Delivered ==
    \A t \in Threads :
        LET r == request[t]
            wanted == IF r.bytes THEN r.size ELSE r.size * SectorSize
            out == job[t].out
        IN  pc[t] = "success" /\ r.sector + SectorCount(r) <= LbaLow =>
              /\ Len(out) - wanted \in 0 .. (IF r.bytes THEN SectorSize ELSE 0)
              /\ \A x \in 1 .. wanted : out[x] = r.sector * SectorSize + x - 1

\* What a read r that returns true has delivered.
Wanted(r) == IF r.bytes THEN r.size ELSE r.size * SectorSize

Done(r, out) ==
    /\ Len(out) - Wanted(r) \in 0 .. (IF r.bytes THEN SectorSize ELSE 0)
    /\ InOrder(r, out)

Progress == \A t \in Threads :
    /\ pc[t] \in Rounds => Midway(request[t], job[t])
    /\ pc[t] = "success" => Done(request[t], job[t].out)

\* A multiple of a number is not smaller.
LEMMA Multiple ==
  ASSUME NEW a \in Nat \ {0}, NEW c \in Nat
  PROVE  /\ c <= a * c /\ a * c \in Nat /\ (a - 1) * c \in Nat
         /\ a * c = (a - 1) * c + c
<1>1. 1 * c <= a * c /\ a * c \in Nat /\ (a - 1) * c \in Nat
  BY Product
<1>2. QED BY <1>1

\* How many sectors are read, and how that compares to what was asked for.
LEMMA Counted ==
  ASSUME NEW r \in Requests
  PROVE  /\ r.size \in Nat \ {0} /\ r.sector \in Nat /\ r.bytes \in BOOLEAN
         /\ Fills(r) \in Nat /\ Rest(r) \in 0 .. BufferSectors - 1
         /\ SectorCount(r) \in Nat \ {0}
         /\ SectorCount(r) = Fills(r) * BufferSectors + Rest(r)
         /\ Wanted(r) \in Nat
         /\ SectorCount(r) * SectorSize - Wanted(r) \in 0 .. (IF r.bytes THEN SectorSize ELSE 0)
<1> USE AhciAssumption
<1> DEFINE S == SectorSize
           B == BufferSectors
           n == SectorCount(r)
           q == r.size \div S
           m == r.size % S
<1>1. S \in Nat \ {0} /\ B \in Nat \ {0} /\ r.size \in Nat \ {0} /\ r.sector \in Nat
      /\ r.bytes \in BOOLEAN
  OBVIOUS
<1>2. q \in Nat /\ m \in 0 .. S - 1 /\ r.size = S * q + m
  BY <1>1, Division
<1>3. n = IF r.bytes THEN q + 1 ELSE r.size
  BY DEF SectorCount
<1>4. Fills(r) = n \div B /\ Rest(r) = n % B
  BY DEF Fills, Rest
<1>5. Wanted(r) = IF r.bytes THEN r.size ELSE r.size * S
  BY DEF Wanted
<1> HIDE DEF S, B, n, q, m
<1>6. n \in Nat \ {0}
  BY <1>1, <1>2, <1>3
<1>7. Fills(r) \in Nat /\ Rest(r) \in 0 .. B - 1 /\ n = Fills(r) * B + Rest(r)
  <2> DEFINE f == n \div B
             e == n % B
  <2>1. f \in Nat /\ e \in 0 .. B - 1 /\ n = B * f + e
    BY <1>1, <1>6, Division
  <2> HIDE DEF f, e
  <2>2. B * f = f * B
    BY <1>1, <2>1
  <2>3. n = f * B + e
    BY <2>1, <2>2
  <2>4. QED BY <1>4, <2>1, <2>3 DEF f, e
<1>8. Wanted(r) \in Nat
  BY <1>1, <1>5
<1>9. n * S - Wanted(r) \in 0 .. (IF r.bytes THEN S ELSE 0)
  <2>1. CASE r.bytes
    <3> DEFINE a == S * q
    <3>1. n * S = a + S
      BY <1>1, <1>2, <1>3, <2>1
    <3>2. a \in Nat /\ r.size = a + m
      BY <1>1, <1>2
    <3> HIDE DEF a
    <3>3. QED BY <1>1, <1>2, <1>5, <2>1, <3>1, <3>2
  <2>2. CASE ~r.bytes
    <3>1. n * S = Wanted(r)
      BY <1>3, <1>5, <2>2
    <3>2. QED BY <1>8, <2>2, <3>1
  <2>3. QED BY <2>1, <2>2
<1>10. QED BY <1>1, <1>6, <1>7, <1>8, <1>9 DEF n, B, S

\* The bytes of the last round, with those before, are those asked for, and no
\* more than the round's sectors hold.
LEMMA Remainder ==
  ASSUME NEW r \in Requests, Rest(r) > 0
  PROVE  /\ RestBytes(r) \in Nat /\ RestBytes(r) <= Rest(r) * SectorSize
         /\ (SectorCount(r) - Rest(r)) * SectorSize + RestBytes(r) = Wanted(r)
<1> DEFINE S == SectorSize
           B == BufferSectors
           f == Fills(r)
           e == Rest(r)
           n == SectorCount(r)
           w == Wanted(r)
           a == f * B
<1>1. /\ S \in Nat \ {0} /\ B \in Nat \ {0} /\ f \in Nat /\ e \in 0 .. B - 1 /\ e > 0
      /\ n \in Nat /\ n = f * B + e /\ w \in Nat
      /\ n * S - w \in 0 .. (IF r.bytes THEN S ELSE 0)
      /\ r.bytes \in BOOLEAN /\ r.size \in Nat
  BY Counted, AhciAssumption
<1>2. RestBytes(r) = IF r.bytes THEN r.size - f * B * S ELSE e * S
  BY DEF RestBytes
<1>3. w = IF r.bytes THEN r.size ELSE r.size * S
  BY DEF Wanted
<1>4. ~r.bytes => n = r.size
  BY DEF SectorCount
<1> HIDE DEF S, B, f, e, n, w
<1>5. a \in Nat /\ n = a + e /\ e \in Nat /\ f * B * S = a * S
  BY <1>1
<1> HIDE DEF a
<1> DEFINE u == a * S
           v == e * S
           z == n * S
<1>6. u \in Nat /\ v \in Nat /\ z \in Nat /\ z = u + v /\ S <= v /\ (n - e) * S = u
  <2>1. u \in Nat /\ v \in Nat /\ z \in Nat
    BY <1>1, <1>5
  <2>2. z = u + v
    BY <1>1, <1>5
  <2>3. S <= v
    <3>1. 1 * S <= e * S
      BY <1>1, <1>5, Product
    <3>2. QED BY <1>1, <3>1
  <2>4. n - e = a
    BY <1>1, <1>5
  <2>5. QED BY <2>1, <2>2, <2>3, <2>4
<1> HIDE DEF u, v, z
<1>7. CASE r.bytes
  <2>1. RestBytes(r) = w - u /\ z - w \in 0 .. S
    BY <1>1, <1>2, <1>3, <1>5, <1>7 DEF u, z
  <2>2. w - u \in Nat /\ w - u <= v /\ u + (w - u) = w
    BY <1>1, <1>6, <2>1
  <2>3. QED BY <1>6, <2>1, <2>2 DEF S, e, n, w, v
<1>8. CASE ~r.bytes
  <2>1. RestBytes(r) = v /\ w = z
    BY <1>2, <1>3, <1>4, <1>8 DEF v, z
  <2>2. QED BY <1>6, <2>1 DEF S, e, n, w, v
<1>9. QED BY <1>1, <1>7, <1>8

\* Below LbaLow the address of a command is its sector.
LEMMA LowAddress ==
  ASSUME NEW sector \in Nat, sector < LbaLow
  PROVE  Lba(sector) = sector
<1>1. LbaLow \in Nat \ {0} /\ Word \in Nat \ {0} /\ sector < Word
  BY AhciAssumption
<1>2. sector % Word = sector /\ sector \div Word = 0
  BY <1>1
<1>3. sector % LbaLow = sector
  BY <1>1
<1>4. 0 * LbaLow = 0
  BY <1>1
<1>5. QED BY <1>2, <1>3, <1>4 DEF Lba

\* What memcpy takes from a buffer that has c are c's bytes in order.
LEMMA BytesAre ==
  ASSUME NEW c \in Commands, BufferHas(c), NEW n \in Nat, n <= c.count * SectorSize
  PROVE  Len(Bytes(n)) = n /\ \A x \in 1 .. n : Bytes(n)[x] = c.lba * SectorSize + x - 1
<1> DEFINE S == SectorSize
<1>1. S \in Nat \ {0} /\ c.lba \in Nat /\ c.count \in Nat
  BY AhciAssumption DEF Commands
<1>2. ASSUME NEW x \in 1 .. n PROVE ByteAt(x - 1) = c.lba * S + x - 1
  <2> DEFINE y == x - 1
             q == y \div S
             m == y % S
  <2>1. y \in Nat /\ y < n /\ y = x - 1
    BY <1>2
  <2> HIDE DEF y
  <2>2. q \in Nat /\ m \in 0 .. S - 1 /\ y = S * q + m
    BY <1>1, <2>1, Division
  <2> HIDE DEF q, m
  <2>3. q < c.count
    <3>1. CASE q >= c.count
      <4>1. c.count * S <= q * S /\ q * S \in Nat /\ c.count * S \in Nat
        BY <1>1, <2>2, <3>1, Product
      <4>2. q * S = S * q
        BY <1>1, <2>2
      <4> DEFINE k == S * q
      <4>3. k \in Nat /\ n <= k /\ y = k + m
        BY <1>1, <2>2, <4>1, <4>2
      <4> HIDE DEF k
      <4>4. QED BY <1>1, <2>1, <2>2, <4>3
    <3>2. QED BY <1>1, <2>2, <3>1
  <2>4. mBuffer[q] = c.lba + q
    BY <1>1, <2>2, <2>3 DEF BufferHas
  <2>5. mBuffer[q] # Junk
    BY <1>1, <2>2, <2>4, AhciAssumption
  <2>6. ByteAt(y) = (c.lba + q) * S + m
    BY <2>4, <2>5 DEF ByteAt, q, m, S
  <2>7. (c.lba + q) * S = c.lba * S + S * q
    BY <1>1, <2>2
  <2> DEFINE a == c.lba * S
             b == S * q
  <2>8. a \in Nat /\ b \in Nat /\ ByteAt(y) = a + b + m /\ y = b + m
    BY <1>1, <2>2, <2>6, <2>7
  <2> HIDE DEF a, b
  <2>9. ByteAt(y) = a + x - 1
    BY <2>1, <2>2, <2>8
  <2>10. QED BY <2>9 DEF a, y
<1>3. Bytes(n) = [x \in 1 .. n |-> ByteAt(x - 1)]
  BY DEF Bytes
<1>4. QED BY <1>2, <1>3

\* A read begins with everything to go.
LEMMA BeginMidway == ASSUME NEW r \in Requests PROVE Midway(r, NewJob(r))
<1> DEFINE n == SectorCount(r)
           a == Fills(r) * BufferSectors
           e == Rest(r)
<1>1. r.sector \in Nat /\ n \in Nat /\ n = a + e /\ e \in Nat /\ a \in Nat /\ SectorSize \in Nat
  BY Counted, AhciAssumption
<1>2. /\ NewJob(r).rest = e /\ NewJob(r).tail = RestBytes(r) /\ NewJob(r).sector = r.sector
      /\ NewJob(r).fills * BufferSectors = a /\ NewJob(r).out = <<>>
  BY DEF NewJob
<1> HIDE DEF n, a, e
<1>3. r.sector + a + e = r.sector + n /\ (r.sector - r.sector) * SectorSize = 0
  BY <1>1
<1>4. Len(<<>>) = 0 /\ 1 .. 0 = {}
  OBVIOUS
<1>5. QED BY <1>1, <1>2, <1>3, <1>4 DEF Midway, InOrder, n, e

\* The bytes of a round come after those of the rounds before it.
LEMMA Appended ==
  ASSUME NEW r \in Requests, NEW j \in Jobs, Midway(r, j), j.fills > 0 \/ j.rest > 0,
         BufferHas(Command(j)), NEW n \in Nat, n <= Command(j).count * SectorSize,
         Bytes(n) \in Seq(Nat \cup {Junk}),
         NEW out, out = j.out \o Bytes(n)
  PROVE  Len(out) = (j.sector - r.sector) * SectorSize + n /\ InOrder(r, out)
<1> DEFINE S == SectorSize
           d == j.sector - r.sector
           b == Bytes(n)
<1>1. /\ r.sector \in Nat /\ SectorCount(r) \in Nat /\ S \in Nat \ {0} /\ BufferSectors \in Nat \ {0}
      /\ j.sector \in Nat /\ j.fills \in Nat /\ j.rest \in Nat /\ j.out \in Seq(Nat \cup {Junk})
      /\ r.sector <= j.sector
  BY Counted, AhciAssumption DEF Jobs, Midway
<1>2. d \in Nat /\ j.sector = r.sector + d
  BY <1>1
<1>3. Command(j) \in Commands /\ Command(j).lba = Lba(j.sector)
  BY CommandTyped DEF Command
<1>4. Len(b) = n /\ \A x \in 1 .. n : b[x] = Command(j).lba * S + x - 1
  BY <1>3, BytesAre
<1>5. /\ Len(out) = Len(j.out) + n
      /\ \A x \in 1 .. Len(j.out) : out[x] = j.out[x]
      /\ \A x \in (Len(j.out) + 1) .. (Len(j.out) + n) : out[x] = b[x - Len(j.out)]
  <2> DEFINE l == Len(j.out)
  <2>1. b \in Seq(Nat \cup {Junk}) /\ out = j.out \o b
    OBVIOUS
  <2> HIDE DEF b
  <2>2. /\ Len(out) = l + Len(b) /\ l \in Nat
        /\ \A x \in 1 .. l + Len(b) : out[x] = IF x <= l THEN j.out[x] ELSE b[x - l]
    BY <1>1, <2>1, ConcatProperties, LenProperties
  <2>3. Len(b) = n
    BY <1>4
  <2> HIDE DEF l
  <2>4. /\ \A x \in 1 .. l : x \in 1 .. l + n /\ x <= l
        /\ \A x \in (l + 1) .. (l + n) : x \in 1 .. l + n /\ ~(x <= l)
    BY <2>2
  <2>5. QED BY <2>2, <2>3, <2>4 DEF l
<1> HIDE DEF b, d, S
<1> DEFINE h == d * S
           g == r.sector * S
<1>6. h \in Nat /\ g \in Nat /\ j.sector * S = g + h
  BY <1>1, <1>2, SMTT(30)
<1>7. Len(j.out) = h
  BY DEF Midway, d, S
<1> HIDE DEF h, g
<1>8. InOrder(r, out)
  <2>1. SUFFICES ASSUME r.sector + SectorCount(r) <= LbaLow, NEW x \in 1 .. Len(out)
                 PROVE  out[x] = g + x - 1
    BY DEF InOrder, g, S
  <2>2. CASE x \in 1 .. h
    BY <1>5, <1>7, <2>1, <2>2 DEF Midway, InOrder, g, S
  <2>3. CASE x \in (h + 1) .. (h + n)
    <3>1. Command(j).lba = j.sector
      <4>1. j.sector + j.fills * BufferSectors + j.rest = r.sector + SectorCount(r)
        BY DEF Midway
      <4> DEFINE k == j.fills * BufferSectors
      <4>2. k \in Nat /\ (j.fills > 0 => k > 0)
        <5>1. k \in Nat
          BY <1>1
        <5>2. ASSUME j.fills > 0 PROVE k > 0
          <6>1. j.fills \in Nat \ {0}
            BY <1>1, <5>2
          <6>2. BufferSectors <= j.fills * BufferSectors
            BY <1>1, <6>1, Multiple
          <6>3. QED BY <1>1, <6>2, <5>1
        <5>3. QED BY <5>1, <5>2
      <4>3. j.sector + k + j.rest = r.sector + SectorCount(r)
        BY <4>1
      <4> HIDE DEF k
      <4>4. j.sector < LbaLow
        BY <1>1, <2>1, <4>2, <4>3, AhciAssumption
      <4>5. QED BY <1>1, <1>3, <4>4, LowAddress
    <3>2. out[x] = b[x - h]
      BY <1>5, <1>7, <2>3
    <3>3. x - h \in 1 .. n
      BY <1>6, <2>3
    <3>4. b[x - h] = g + h + (x - h) - 1
      BY <1>4, <1>6, <3>1, <3>3
    <3>5. QED BY <1>6, <2>3, <3>2, <3>4
  <2>4. QED BY <1>5, <1>6, <1>7, <2>1, <2>2, <2>3
<1>9. Len(out) = h + n
  BY <1>5, <1>7
<1>10. QED BY <1>8, <1>9 DEF h, d, S

\* A whole buffer was copied: the job is midway again, or done.
LEMMA FillCopied ==
  ASSUME TypeOK, NEW r \in Requests, NEW j \in Jobs, Midway(r, j), j.fills > 0,
         BufferHas(Command(j)), NEW k,
         k = [Advanced(j) EXCEPT !.out = @ \o Bytes(BufferSectors * SectorSize)]
  PROVE  Midway(r, k) /\ (j.fills = 1 /\ j.rest = 0 => Done(r, k.out))
<1> DEFINE S == SectorSize
           B == BufferSectors
           out == j.out \o Bytes(B * S)
<1>1. /\ r.sector \in Nat /\ SectorCount(r) \in Nat /\ S \in Nat \ {0} /\ B \in Nat \ {0}
      /\ j.sector \in Nat /\ j.fills \in Nat /\ j.rest \in Nat /\ r.sector <= j.sector
      /\ Wanted(r) \in Nat
      /\ SectorCount(r) * S - Wanted(r) \in 0 .. (IF r.bytes THEN S ELSE 0)
  BY Counted, AhciAssumption DEF Jobs, Midway
<1>2. /\ Len(out) = (j.sector - r.sector) * S + B * S /\ InOrder(r, out)
  <2>1. B * S \in Nat /\ B * S <= Command(j).count * S
    BY <1>1 DEF Command
  <2>2. B * S \in 0 .. BufferSectors * SectorSize
    BY <2>1
  <2>3. Bytes(B * S) \in Seq(Nat \cup {Junk})
    BY <2>2, BytesTyped
  <2>4. QED BY <2>1, <2>3, Appended
<1>3. /\ k.sector = j.sector + B /\ k.fills = j.fills - 1 /\ k.rest = j.rest
      /\ k.tail = j.tail /\ k.out = out
  <2> DEFINE a == j.fills - 1
             b == j.sector + B
             bytes == Bytes(B * S)
  <2>1. Advanced(j) = [[[j EXCEPT !.fills = a] EXCEPT !.sector = b] EXCEPT !.retried = FALSE]
    BY DEF Advanced, Jobs
  <2> HIDE DEF a, b
  <2>2. /\ Advanced(j).out = j.out /\ Advanced(j).fills = a /\ Advanced(j).sector = b
        /\ Advanced(j).rest = j.rest /\ Advanced(j).tail = j.tail
        /\ DOMAIN Advanced(j) = DOMAIN j
    BY <2>1 DEF Jobs
  <2>3. k = [Advanced(j) EXCEPT !.out = out]
    BY <2>2
  <2> HIDE DEF out, bytes
  <2>4. DOMAIN j = {"sector", "fills", "rest", "tail", "retried", "out"}
    BY DEF Jobs
  <2>5. k.sector = b /\ k.fills = a /\ k.rest = j.rest /\ k.tail = j.tail /\ k.out = out
    BY <2>2, <2>3, <2>4
  <2>6. QED BY <2>5 DEF a, b
<1> HIDE DEF out, S, B
<1>4. Len(out) = (j.sector + B - r.sector) * S
  <2>1. (j.sector + B - r.sector) * S = (j.sector - r.sector) * S + B * S
    BY <1>1
  <2>2. QED BY <1>2, <2>1
<1> DEFINE c == j.fills * B
           e == (j.fills - 1) * B
<1>5. c \in Nat /\ e \in Nat /\ c = e + B
  <2>1. \A x \in Nat, y \in Nat \ {0} : (y - 1) * x \in Nat /\ y * x \in Nat /\ y * x = (y - 1) * x + x
    BY Multiple
  <2>2. j.fills \in Nat \ {0}
    BY <1>1
  <2>3. QED BY <1>1, <2>1, <2>2
<1>6. j.sector + c + j.rest = r.sector + SectorCount(r)
  BY DEF Midway, B
<1> HIDE DEF c, e
<1>7. j.sector + B + e + j.rest = r.sector + SectorCount(r) /\ r.sector <= j.sector + B
  BY <1>1, <1>5, <1>6, SMTT(60)
<1>8. Midway(r, k)
  <2>1. k.rest = Rest(r) /\ k.tail = RestBytes(r)
    BY <1>3 DEF Midway
  <2>2. k.sector + k.fills * B + k.rest = r.sector + SectorCount(r) /\ r.sector <= k.sector
    BY <1>3, <1>7 DEF e
  <2>3. Len(k.out) = (k.sector - r.sector) * S
    <3> DEFINE d == j.sector - r.sector
               f == k.sector - r.sector
    <3>1. d \in Nat /\ f = d + B
      BY <1>1, <1>3
    <3>2. Len(k.out) = d * S + B * S
      BY <1>2, <1>3
    <3> HIDE DEF d, f
    <3>3. f * S = d * S + B * S
      BY <1>1, <3>1
    <3>4. Len(k.out) = f * S
      BY <3>2, <3>3
    <3>5. QED BY <3>4 DEF f
  <2>4. InOrder(r, k.out)
    BY <1>2, <1>3
  <2>5. QED BY <2>1, <2>2, <2>3, <2>4 DEF Midway, B, S
<1>9. ASSUME j.fills = 1, j.rest = 0 PROVE Done(r, out)
  <2>1. e = 0
    BY <1>1, <1>9 DEF e
  <2>2. j.sector + B - r.sector = SectorCount(r)
    <3>1. \A a, b, m, n \in Nat : a + b + 0 + 0 = m + n => a + b - m = n
      OBVIOUS
    <3>2. j.sector + B + 0 + 0 = r.sector + SectorCount(r)
      BY <1>7, <1>9, <2>1
    <3>3. B \in Nat
      BY <1>1
    <3>4. QED BY <1>1, <3>1, <3>2, <3>3
  <2>3. Len(out) = SectorCount(r) * S
    BY <1>4, <2>2
  <2>4. Len(out) - Wanted(r) \in 0 .. (IF r.bytes THEN S ELSE 0)
    BY <1>1, <2>3
  <2>5. QED BY <1>2, <2>4 DEF Done, S
<1>10. QED BY <1>3, <1>8, <1>9

\* The rest was copied: the read is done.
LEMMA RestCopied ==
  ASSUME TypeOK, NEW r \in Requests, NEW j \in Jobs, Midway(r, j), ~(j.fills > 0), j.rest > 0,
         BufferHas(Command(j)), NEW k, k = [j EXCEPT !.out = @ \o Bytes(j.tail)]
  PROVE  Done(r, k.out)
<1> DEFINE S == SectorSize
           B == BufferSectors
           out == j.out \o Bytes(j.tail)
           n == SectorCount(r)
<1>1. /\ r.sector \in Nat /\ n \in Nat /\ S \in Nat \ {0} /\ B \in Nat \ {0}
      /\ j.sector \in Nat /\ j.fills = 0 /\ j.rest \in Nat /\ r.sector <= j.sector
      /\ Wanted(r) \in Nat /\ j.rest = Rest(r) /\ j.tail = RestBytes(r)
  BY Counted, AhciAssumption DEF Jobs, Midway
<1>2. /\ j.tail \in Nat /\ j.tail <= j.rest * S /\ (n - j.rest) * S + j.tail = Wanted(r)
  BY <1>1, Remainder
<1>3. Len(out) = (j.sector - r.sector) * S + j.tail /\ InOrder(r, out)
  <2>1. Command(j).count = j.rest
    BY <1>1 DEF Command
  <2>2. B * S \in Nat /\ j.tail \in 0 .. B * S - 1
    BY <1>1 DEF Jobs
  <2>3. j.tail \in 0 .. BufferSectors * SectorSize
    BY <2>2
  <2>4. Bytes(j.tail) \in Seq(Nat \cup {Junk})
    BY <2>3, BytesTyped
  <2>5. QED BY <1>2, <2>1, <2>4, Appended
<1>4. k.out = out
  BY DEF Jobs
<1>5. j.sector - r.sector = n - j.rest
  <2>1. j.sector + j.fills * BufferSectors + j.rest = r.sector + n
    BY DEF Midway
  <2>2. j.fills * BufferSectors = 0
    BY <1>1
  <2>3. QED BY <1>1, <2>1, <2>2
<1> HIDE DEF out, n, S, B
<1>6. Len(out) = Wanted(r)
  BY <1>2, <1>3, <1>5
<1>7. Len(out) - Wanted(r) \in 0 .. (IF r.bytes THEN S ELSE 0)
  BY <1>1, <1>6
<1>8. QED BY <1>3, <1>4, <1>7 DEF Done, S

\* What was delivered in the end is no less than what was asked for.
LEMMA EnoughDone ==
  ASSUME NEW r \in Requests, NEW out \in Seq(Nat \cup {Junk}), Done(r, out)
  PROVE  /\ Len(out) >= Wanted(r)
         /\ Len(out) <= Wanted(r) + (IF r.bytes THEN SectorSize ELSE 0)
         /\ 1 .. Wanted(r) \subseteq 1 .. Len(out)
<1>1. Wanted(r) \in Nat /\ SectorSize \in Nat /\ Len(out) \in Nat
  BY Counted, AhciAssumption, LenProperties
<1>2. Len(out) - Wanted(r) \in 0 .. (IF r.bytes THEN SectorSize ELSE 0)
  BY DEF Done
<1>3. QED BY <1>1, <1>2

\* Every step leaves the reads of the other threads where they are.
LEMMA ProgressKept ==
  ASSUME IInv, Progress, [Next]_vars
  PROVE  Progress'
<1> USE DEF Rounds, Labels, BootLabels
<1>1. /\ pc \in [Threads -> Labels] /\ request \in [Threads -> Requests \cup {NoRequest}]
      /\ job \in [Threads -> Jobs]
  BY DEF IInv, TypeOK
<1>2. ASSUME NEW t \in Threads,
             pc'[t] = pc[t] \/ (pc[t] \in Rounds /\ pc'[t] \in Rounds)
               \/ pc'[t] \notin Rounds \cup {"success"},
             request'[t] = request[t] \/ pc'[t] \notin Rounds \cup {"success"},
             job'[t] = job[t] \/ pc'[t] \notin Rounds \cup {"success"}
      PROVE  /\ pc'[t] \in Rounds => Midway(request'[t], job'[t])
             /\ pc'[t] = "success" => Done(request'[t], job'[t].out)
  BY <1>2 DEF Progress
<1>3. ASSUME UNCHANGED <<pc, request, job>> PROVE Progress'
  BY <1>2, <1>3 DEF Progress
<1>4. CASE Configuring
  <2>1. /\ UNCHANGED <<request, job>>
        /\ \A t \in Threads : pc'[t] = pc[t] \/ pc'[t] \in BootLabels \cup {"idle"}
    BY <1>1, <1>4, AhciAssumption
       DEF Configuring, StopCMD, StoppedOrTimedOut, Configure, StartCMD, Goto
  <2>2. QED BY <1>2, <2>1 DEF Progress
<1>5. CASE Device \/ UNCHANGED vars
  BY <1>3, <1>5 DEF Device, ListStarts, Fetch, Complete, Fail, drivers, vars
<1>6. ASSUME NEW t \in Threads, Lock(t) \/ Step(t) \/ \E r \in Requests : Read(t, r)
      PROVE  Progress'
  <2>1. ASSUME NEW u \in Threads \ {t}
        PROVE  /\ pc'[u] \in Rounds => Midway(request'[u], job'[u])
               /\ pc'[u] = "success" => Done(request'[u], job'[u].out)
    <3>1. pc'[u] = pc[u] /\ request'[u] = request[u] /\ job'[u] = job[u]
      BY <1>1, <1>6, <2>1 DEF Lock, Read, Step, Clear, Fill, AwaitIdle, Issue, Await, GiveUp,
                              Copy, Return, Goto
    <3>2. QED BY <1>2, <3>1
  <2>2. /\ pc'[t] \in Rounds => Midway(request'[t], job'[t])
        /\ pc'[t] = "success" => Done(request'[t], job'[t].out)
    <3>1. CASE \/ Clear(t) \/ Fill(t) \/ AwaitIdle(t) \/ Issue(t) \/ Await(t)
               \/ Return(t) \/ \E r \in Requests : Read(t, r)
      BY <1>1, <1>2, <3>1 DEF Clear, Fill, AwaitIdle, Issue, Await, Return, Read, Goto
    <3>2. CASE Lock(t)
      <4>1. /\ request'[t] \in Requests /\ job'[t] = NewJob(request'[t]) /\ pc'[t] = "clear"
        BY <1>1, <3>2 DEF Lock, Goto, IInv, Working
      <4>2. QED BY <4>1, BeginMidway
    <3>3. CASE GiveUp(t)
      <4>1. /\ pc[t] = "over" /\ request' = request /\ pc'[t] \in {"clear", "fail"}
            /\ job' = job \/ job' = [job EXCEPT ![t].retried = TRUE]
        BY <1>1, <3>3 DEF GiveUp, Goto
      <4>2. /\ job'[t].rest = job[t].rest /\ job'[t].tail = job[t].tail
            /\ job'[t].sector = job[t].sector /\ job'[t].fills = job[t].fills
            /\ job'[t].out = job[t].out
        BY <1>1, <4>1 DEF Jobs
      <4>3. Midway(request[t], job[t])
        BY <4>1 DEF Progress
      <4>4. Midway(request[t], job'[t])
        BY <4>2, <4>3 DEF Midway
      <4>5. QED BY <4>1, <4>4
    <3>4. CASE Copy(t)
      <4> DEFINE r == request[t]
                 j == job[t]
      <4>1. /\ pc[t] = "copy" /\ r \in Requests /\ j \in Jobs /\ Midway(r, j)
            /\ BufferHas(Command(j)) /\ (j.fills > 0 \/ j.rest > 0)
            /\ request' = request /\ TypeOK
        BY <1>1, <3>4 DEF Copy, IInv, Working, Served, Progress
      <4>2. CASE j.fills > 0
        <5> DEFINE k == [Advanced(j) EXCEPT !.out = @ \o Bytes(BufferSectors * SectorSize)]
                   label == IF j.fills = 1 /\ j.rest = 0 THEN "success" ELSE "clear"
        <5>1. job'[t] = k /\ pc'[t] = label
          BY <1>1, <3>4, <4>2 DEF Copy, Goto
        <5>2. Midway(r, k) /\ (j.fills = 1 /\ j.rest = 0 => Done(r, k.out))
          <6> HIDE DEF r, j
          <6>1. \A n : n = [Advanced(j) EXCEPT !.out = @ \o Bytes(BufferSectors * SectorSize)] =>
                  Midway(r, n) /\ (j.fills = 1 /\ j.rest = 0 => Done(r, n.out))
            BY <4>1, <4>2, FillCopied
          <6>2. QED BY <6>1
        <5>3. label = "success" => Done(r, k.out)
          BY <5>2
        <5> HIDE DEF k, label
        <5>4. QED BY <4>1, <5>1, <5>2, <5>3
      <4>3. CASE ~(j.fills > 0)
        <5> DEFINE k == [j EXCEPT !.out = @ \o Bytes(j.tail)]
        <5>1. job'[t] = k /\ pc'[t] = "success"
          BY <1>1, <3>4, <4>3 DEF Copy, Goto
        <5>2. Done(r, k.out)
          <6> HIDE DEF r, j
          <6>1. \A n : n = [j EXCEPT !.out = @ \o Bytes(j.tail)] => Done(r, n.out)
            BY <4>1, <4>3, RestCopied
          <6>2. QED BY <6>1
        <5> HIDE DEF k
        <5>3. QED BY <4>1, <5>1, <5>2
      <4>4. QED BY <4>2, <4>3
    <3>5. QED BY <1>6, <3>1, <3>2, <3>3, <3>4 DEF Step
  <2>3. QED BY <2>1, <2>2 DEF Progress
<1>7. QED BY <1>4, <1>5, <1>6 DEF Next

\* A read that returns true has delivered the bytes of the sectors it asked
\* for, in order and none from elsewhere, however many rounds it took, however
\* often one was tried again, and whatever other threads read in between.
THEOREM DeliveredHolds == Spec => []Delivered
<1>1. Init => Progress
  BY AhciAssumption DEF Init, Progress, Rounds, BootLabels
<1>2. IInv /\ Progress /\ [Next]_vars => Progress'
  BY ProgressKept
<1>3. IInv /\ Progress => Delivered
  <2>1. SUFFICES ASSUME IInv, Progress, NEW t \in Threads, pc[t] = "success"
                 PROVE  /\ Len(job[t].out) - Wanted(request[t])
                              \in 0 .. (IF request[t].bytes THEN SectorSize ELSE 0)
                        /\ request[t].sector + SectorCount(request[t]) <= LbaLow =>
                             \A x \in 1 .. Wanted(request[t]) :
                               job[t].out[x] = request[t].sector * SectorSize + x - 1
    BY DEF Delivered, Wanted
  <2> DEFINE r == request[t]
             out == job[t].out
  <2>2. r \in Requests /\ Done(r, out) /\ out \in Seq(Nat \cup {Junk})
    BY <2>1 DEF IInv, TypeOK, Working, BootLabels, Jobs, Progress
  <2> HIDE DEF r, out
  <2>3. 1 .. Wanted(r) \subseteq 1 .. Len(out)
    BY <2>2, EnoughDone
  <2>4. QED BY <2>2, <2>3 DEF Done, InOrder, r, out
<1>4. QED BY <1>1, <1>2, <1>3, Invariance, PTL DEF Spec

-----------------------------------------------------------------------------
(***************************************************************************)
(* The port is the disk of module Disk.                                    *)
(***************************************************************************)
\* A thread that is not in a read has no request, and a read that waits for
\* the mutex has delivered nothing.
Resting == \A t \in Threads :
    /\ pc[t] \in BootLabels \cup {"idle"} => request[t] = NoRequest
    /\ pc[t] \in BootLabels \cup {"idle", "lock"} => job[t].out = <<>>

\* What Disk allows, in the words of this module.
LEMMA RightIs ==
  ASSUME NEW r, NEW out, InOrder(r, out),
         Len(out) <= Wanted(r) + (IF r.bytes THEN SectorSize ELSE 0)
  PROVE  Promise!Right(r, out)
<1>1. Promise!Reached(r) = (r.sector + SectorCount(r) <= LbaLow)
  BY DEF Promise!Reached, SectorCount
<1>2. Promise!Wanted(r) = Wanted(r)
  BY DEF Promise!Wanted, Wanted
<1>3. Promise!Surplus(r) = IF r.bytes THEN SectorSize ELSE 0
  BY DEF Promise!Surplus
<1>4. Promise!Reached(r) => \A x \in 1 .. Len(out) : out[x] = r.sector * SectorSize + x - 1
  BY <1>1 DEF InOrder
<1>5. QED BY <1>2, <1>3, <1>4, Zenon DEF Promise!Right

\* What is delivered between two rounds may be in the caller's buffer: it is
\* no more than the sectors of the read hold.
LEMMA RightSoFar ==
  ASSUME NEW r \in Requests, NEW j \in Jobs, Midway(r, j)
  PROVE  Promise!Right(r, j.out)
<1> DEFINE S == SectorSize
           d == j.sector - r.sector
           n == SectorCount(r)
           a == j.fills * BufferSectors
           s == IF r.bytes THEN S ELSE 0
<1>1. /\ S \in Nat /\ n \in Nat /\ Wanted(r) \in Nat /\ n * S - Wanted(r) \in 0 .. s
      /\ r.sector \in Nat /\ j.sector \in Nat /\ j.rest \in Nat /\ r.bytes \in BOOLEAN
      /\ BufferSectors \in Nat /\ j.fills \in Nat
  BY Counted, AhciAssumption DEF Jobs
<1>2. a \in Nat
  BY <1>1
<1>3. /\ r.sector <= j.sector /\ j.sector + a + j.rest = r.sector + n
      /\ Len(j.out) = d * S /\ InOrder(r, j.out)
  BY DEF Midway
<1> HIDE DEF S, n, a
<1>4. d \in Nat /\ d <= n
  <2>1. \A p, q, b, c, m \in Nat : p <= q /\ q + b + c = p + m => q - p \in Nat /\ q - p <= m
    OBVIOUS
  <2>2. QED BY <1>1, <1>2, <1>3, <2>1
<1> HIDE DEF d
<1>5. d * S <= n * S /\ d * S \in Nat /\ n * S \in Nat
  BY <1>1, <1>4, Product
<1>6. Len(j.out) <= Wanted(r) + s
  BY <1>1, <1>3, <1>5
<1>7. QED BY <1>3, <1>6, RightIs DEF S

\* So may what a read has delivered that returns true, which is enough.
LEMMA RightAtEnd ==
  ASSUME NEW r \in Requests, NEW out \in Seq(Nat \cup {Junk}), Done(r, out)
  PROVE  Promise!Right(r, out) /\ Len(out) >= Promise!Wanted(r)
<1>1. Len(out) >= Promise!Wanted(r)
  BY EnoughDone DEF Promise!Wanted, Wanted
<1>2. QED BY <1>1, EnoughDone, RightIs DEF Done

\* The steps of a thread as Disk sees them.
LEMMA RestingKept ==
  ASSUME IInv, Resting, [Next]_vars
  PROVE  Resting'
<1> USE DEF Labels, BootLabels
<1>1. /\ pc \in [Threads -> Labels] /\ request \in [Threads -> Requests \cup {NoRequest}]
      /\ job \in [Threads -> Jobs]
  BY DEF IInv, TypeOK
<1>2. ASSUME NEW t \in Threads,
             \A u \in Threads \ {t} : /\ pc'[u] = pc[u] /\ request'[u] = request[u]
                                      /\ job'[u] = job[u],
             pc'[t] \in BootLabels \cup {"idle"} => request'[t] = NoRequest,
             pc'[t] \in BootLabels \cup {"idle", "lock"} => job'[t].out = <<>>
      PROVE  Resting'
  BY <1>2 DEF Resting
<1>3. CASE Configuring
  <2>1. /\ UNCHANGED <<request, job>> /\ pc[Boot] \in BootLabels
        /\ \A u \in Threads \ {Boot} : pc'[u] = pc[u]
    BY <1>1, <1>3, AhciAssumption
       DEF Configuring, StopCMD, StoppedOrTimedOut, Configure, StartCMD, Goto
  <2>2. request[Boot] = NoRequest /\ job[Boot].out = <<>>
    BY <2>1, AhciAssumption DEF Resting
  <2>3. QED BY <1>2, <2>1, <2>2, AhciAssumption
<1>4. CASE Device \/ UNCHANGED vars
  <2>1. UNCHANGED <<pc, request, job>>
    BY <1>4 DEF Device, ListStarts, Fetch, Complete, Fail, drivers, vars
  <2>2. QED BY <2>1 DEF Resting
<1>5. ASSUME NEW t \in Threads, Lock(t) \/ Step(t) \/ \E r \in Requests : Read(t, r)
      PROVE  Resting'
  <2>1. \A u \in Threads \ {t} : pc'[u] = pc[u] /\ request'[u] = request[u] /\ job'[u] = job[u]
    BY <1>1, <1>5 DEF Lock, Read, Step, Clear, Fill, AwaitIdle, Issue, Await, GiveUp, Copy,
                      Return, Goto
  <2>2. CASE Return(t)
    <3>1. request'[t] = NoRequest /\ job'[t] = NoJob
      BY <1>1, <2>2 DEF Return
    <3>2. QED BY <1>2, <2>1, <3>1 DEF NoJob
  <2>3. CASE \E r \in Requests : Read(t, r)
    <3>1. pc'[t] = "lock" /\ job'[t] = job[t] /\ pc[t] = "idle"
      BY <1>1, <2>3 DEF Read, Goto
    <3>2. job[t].out = <<>>
      BY <3>1 DEF Resting
    <3>3. QED BY <1>2, <2>1, <3>1, <3>2
  <2>4. CASE Lock(t) \/ (Step(t) /\ ~Return(t))
    <3>1. pc'[t] \notin BootLabels \cup {"idle", "lock"}
      BY <1>1, <2>4 DEF Lock, Step, Clear, Fill, AwaitIdle, Issue, Await, GiveUp, Copy, Goto
    <3>2. QED BY <1>2, <2>1, <3>1
  <2>5. QED BY <1>5, <2>2, <2>3, <2>4
<1>6. QED BY <1>3, <1>4, <1>5 DEF Next

LEMMA SaidBy ==
  ASSUME IInv, NEW t \in Threads, NEW label, pc' = [pc EXCEPT ![t] = label]
  PROVE  Answer' = [Answer EXCEPT ![t] = Said(label)]
  BY DEF IInv, TypeOK, Answer

LEMMA DataMoved ==
  ASSUME IInv, NEW t \in Threads, NEW j, job' = [job EXCEPT ![t] = j]
  PROVE  Data' = [Data EXCEPT ![t] = j.out]
  BY DEF IInv, TypeOK, Data

\* The thread in a read has the port to itself.
LEMMA ServingMoved ==
  ASSUME IInv, NEW t \in Threads, pc[t] \in Inside \ BootLabels,
         NEW label, pc' = [pc EXCEPT ![t] = label]
  PROVE  /\ Serving = {t}
         /\ Serving' = IF label \in Inside \ BootLabels THEN {t} ELSE {}
<1>1. \A u \in Threads \ {t} : pc[u] \notin Inside /\ pc'[u] = pc[u]
  BY Alone DEF IInv, TypeOK
<1>2. pc'[t] = label
  BY DEF IInv, TypeOK
<1>3. QED BY <1>1, <1>2 DEF Serving

\* The locals of a read that copies: Disk delivers what was there and more.
LEMMA CopyDelivers ==
  ASSUME IInv, Progress, Progress', NEW t \in Threads, Copy(t)
  PROVE  Promise!Deliver(t, Data'[t])
<1> USE DEF Rounds, Labels, BootLabels, Inside
<1> DEFINE r == request[t]
           j == job[t]
           out == Data'[t]
<1>1. /\ pc \in [Threads -> Labels] /\ job \in [Threads -> Jobs]
      /\ r \in Requests /\ pc[t] = "copy" /\ j \in Jobs /\ UNCHANGED request
      /\ j.fills > 0 \/ j.rest > 0
  BY DEF IInv, TypeOK, Working, Copy
<1>2. PICK label \in {"clear", "success"}, n \in 0 .. BufferSectors * SectorSize, k \in Jobs :
        /\ pc' = [pc EXCEPT ![t] = label] /\ job' = [job EXCEPT ![t] = k]
        /\ k.out = j.out \o Bytes(n)
  <2>1. CASE j.fills > 0
    <3> DEFINE n == BufferSectors * SectorSize
               k == [Advanced(j) EXCEPT !.out = @ \o Bytes(n)]
    <3>1. n \in 0 .. BufferSectors * SectorSize
      BY AhciAssumption
    <3>2. Bytes(n) \in Seq(Nat \cup {Junk})
      BY <3>1, BytesTyped DEF IInv
    <3>3. k \in Jobs /\ k.out = j.out \o Bytes(n)
      <4> HIDE DEF n, j
      <4>1. /\ Advanced(j).out = j.out /\ "out" \in DOMAIN Advanced(j)
        BY <1>1 DEF Advanced, Jobs
      <4>2. k.out = j.out \o Bytes(n)
        BY <4>1
      <4>3. k \in Jobs
        BY <1>1, <2>1, <3>2, AdvancedTyped
      <4>4. QED BY <4>2, <4>3
    <3>4. /\ job' = [job EXCEPT ![t] = k]
          /\ \E label \in {"clear", "success"} : pc' = [pc EXCEPT ![t] = label]
      BY <2>1 DEF Copy, Goto
    <3> HIDE DEF k, n, j
    <3>5. QED BY <3>1, <3>3, <3>4
  <2>2. CASE ~(j.fills > 0)
    <3> DEFINE n == j.tail
               k == [j EXCEPT !.out = @ \o Bytes(n)]
    <3>1. n \in 0 .. BufferSectors * SectorSize
      <4>1. BufferSectors * SectorSize \in Nat /\ n \in 0 .. BufferSectors * SectorSize - 1
        BY <1>1, AhciAssumption DEF Jobs
      <4>2. QED BY <4>1
    <3>2. Bytes(n) \in Seq(Nat \cup {Junk})
      BY <3>1, BytesTyped DEF IInv
    <3>3. j.out \o Bytes(n) \in Seq(Nat \cup {Junk})
      <4>1. j.out \in Seq(Nat \cup {Junk})
        BY <1>1 DEF Jobs
      <4>2. QED BY <3>2, <4>1, ConcatProperties
    <3>4. k \in Jobs /\ k.out = j.out \o Bytes(n)
      BY <1>1, <3>3 DEF Jobs
    <3>5. job' = [job EXCEPT ![t] = k] /\ pc' = [pc EXCEPT ![t] = "success"]
      BY <2>2 DEF Copy, Goto
    <3> HIDE DEF k, n, j
    <3>6. QED BY <3>1, <3>4, <3>5
  <2>3. QED BY <2>1, <2>2
<1>3. pc'[t] = label /\ job'[t] = k
  BY <1>1, <1>2
<1>4. out = k.out /\ Data[t] = j.out
  BY <1>3 DEF Data
<1>5. Promise!Extends(j.out, k.out)
  <2>1. Bytes(n) \in Seq(Nat \cup {Junk}) /\ j.out \in Seq(Nat \cup {Junk})
    BY <1>1, <1>2, BytesTyped DEF IInv, Jobs
  <2> DEFINE a == j.out
             b == Bytes(n)
  <2>2. /\ Len(a \o b) = Len(a) + Len(b) /\ Len(a) \in Nat /\ Len(b) \in Nat
        /\ \A x \in 1 .. Len(a) + Len(b) : (a \o b)[x] = IF x <= Len(a) THEN a[x] ELSE b[x - Len(a)]
    <3> HIDE DEF a, b
    <3>1. QED BY <2>1, ConcatProperties, LenProperties DEF a, b
  <2> HIDE DEF a, b
  <2>3. Promise!Extends(a, a \o b)
    BY <2>2 DEF Promise!Extends
  <2>4. QED BY <1>2, <2>3 DEF a, b
<1>6. Promise!Right(r, k.out) /\ (label = "success" => Len(k.out) >= Promise!Wanted(r))
  <2>1. CASE label = "clear"
    <3>1. Midway(r, k)
      BY <1>1, <1>3, <2>1 DEF Progress
    <3>2. QED BY <1>1, <1>2, <2>1, <3>1, RightSoFar
  <2>2. CASE label = "success"
    <3>1. Done(r, k.out) /\ k.out \in Seq(Nat \cup {Junk})
      BY <1>1, <1>2, <1>3, <2>2 DEF Progress, Jobs
    <3>2. QED BY <1>1, <3>1, RightAtEnd
  <2>3. QED BY <2>1, <2>2
<1>7. Serving = {t} /\ Serving' = {t}
  BY <1>1, <1>2, ServingMoved
<1>8. Answer[t] = "none" /\ (Answer' = IF label = "success" THEN [Answer EXCEPT ![t] = "true"] ELSE Answer)
  <2>1. Answer' = [Answer EXCEPT ![t] = Said(label)] /\ Answer[t] = "none"
    BY <1>1, <1>2, SaidBy DEF Answer, Said
  <2>2. Said(label) = IF label = "success" THEN "true" ELSE "none"
    BY DEF Said
  <2>3. [Answer EXCEPT ![t] = "none"] = Answer
    BY <2>1 DEF Answer
  <2>4. QED BY <2>1, <2>2, <2>3
<1>9. Data' = [Data EXCEPT ![t] = k.out]
  BY <1>2, DataMoved
<1> HIDE DEF r, j, out
<1>10. QED BY <1>1, <1>4, <1>5, <1>6, <1>7, <1>8, <1>9 DEF Promise!Deliver, r, out

LEMMA StepRefines ==
  ASSUME IInv, Progress, Progress', Resting, [Next]_vars
  PROVE  [Promise!Next]_(Promise!vars)
<1> USE DEF Labels, BootLabels, Inside
<1>1. /\ pc \in [Threads -> Labels] /\ request \in [Threads -> Requests \cup {NoRequest}]
      /\ job \in [Threads -> Jobs]
  BY DEF IInv, TypeOK
<1>2. ASSUME UNCHANGED <<request, Serving, Data, Answer>> PROVE UNCHANGED Promise!vars
  BY <1>2 DEF Promise!vars
<1>3. CASE Device \/ UNCHANGED vars
  <2>1. UNCHANGED <<pc, request, job>>
    BY <1>3 DEF Device, ListStarts, Fetch, Complete, Fail, drivers, vars
  <2>2. QED BY <1>2, <2>1 DEF Serving, Data, Answer
<1>4. CASE Configuring
  <2>1. PICK label \in BootLabels \cup {"idle"} :
          /\ pc' = [pc EXCEPT ![Boot] = label] /\ pc[Boot] \in BootLabels
          /\ UNCHANGED <<request, job>>
    BY <1>4 DEF Configuring, StopCMD, StoppedOrTimedOut, Configure, StartCMD, Goto
  <2>2. \A u \in Threads : \/ pc'[u] = pc[u]
                           \/ pc[u] \in BootLabels /\ pc'[u] \in BootLabels \cup {"idle"}
    <3>1. pc'[Boot] = label /\ \A u \in Threads \ {Boot} : pc'[u] = pc[u]
      BY <1>1, <2>1, AhciAssumption
    <3>2. pc[Boot] \in BootLabels /\ pc'[Boot] \in BootLabels \cup {"idle"}
      BY <2>1, <3>1
    <3>3. QED BY <3>1, <3>2
  <2>3. UNCHANGED Serving
    BY <2>2 DEF Serving
  <2>4. UNCHANGED Answer
    BY <2>2 DEF Answer, Said
  <2>5. QED BY <1>2, <2>1, <2>3, <2>4 DEF Data
<1>5. ASSUME NEW t \in Threads, NEW r \in Requests, Read(t, r) PROVE Promise!Next
  <2>1. /\ pc[t] = "idle" /\ pc' = [pc EXCEPT ![t] = "lock"]
        /\ request' = [request EXCEPT ![t] = r] /\ UNCHANGED job
    BY <1>5 DEF Read, Goto
  <2>2. UNCHANGED <<Serving, Data, Answer>>
    BY <1>1, <2>1 DEF Serving, Data, Answer, Said
  <2>3. request[t] = NoRequest
    BY <2>1 DEF Resting
  <2>4. Promise!Ask(t)
    BY <2>1, <2>2, <2>3 DEF Promise!Ask
  <2>5. QED BY <2>4 DEF Promise!Next
<1>6. ASSUME NEW t \in Threads, Lock(t) PROVE Promise!Next
  <2>1. /\ pc[t] = "lock" /\ pc' = [pc EXCEPT ![t] = "clear"] /\ ~mutex
        /\ job' = [job EXCEPT ![t] = NewJob(request[t])] /\ UNCHANGED request
    BY <1>6 DEF Lock, Goto
  <2>2. Serving = {} /\ Serving' = {t}
    <3>1. \A u \in Threads : pc[u] \notin Inside
      BY <2>1 DEF IInv, PortOwned
    <3>2. pc'[t] = "clear" /\ \A u \in Threads \ {t} : pc'[u] = pc[u]
      BY <1>1, <2>1
    <3>3. QED BY <3>1, <3>2 DEF Serving
  <2>3. UNCHANGED Data
    <3> DEFINE j == NewJob(request[t])
    <3>1. j.out = <<>>
      BY DEF NewJob
    <3>2. job' = [job EXCEPT ![t] = j]
      BY <2>1
    <3> HIDE DEF j
    <3>3. Data' = [Data EXCEPT ![t] = <<>>]
      BY <3>1, <3>2, DataMoved
    <3>4. Data[t] = <<>>
      BY <2>1 DEF Resting, Data
    <3>5. QED BY <3>3, <3>4 DEF Data
  <2>4. UNCHANGED Answer
    BY <1>1, <2>1 DEF Answer, Said
  <2>5. request[t] # NoRequest
    <3>1. request[t] \in Requests
      BY <2>1 DEF IInv, Working
    <3>2. NoRequest.size = 0 /\ request[t].size # 0
      BY <3>1, AhciAssumption DEF NoRequest
    <3>3. QED BY <3>2
  <2>6. Promise!Begin(t)
    BY <2>1, <2>2, <2>3, <2>4, <2>5 DEF Promise!Begin
  <2>7. QED BY <2>6 DEF Promise!Next
<1>7. ASSUME NEW t \in Threads, \/ Clear(t) \/ Fill(t) \/ AwaitIdle(t) \/ Issue(t) \/ Await(t)
                                \/ GiveUp(t) /\ job' # job
      PROVE  UNCHANGED Promise!vars
  <2> USE DEF Rounds
  <2>1. PICK label \in Rounds :
          /\ pc[t] \in Rounds /\ pc' = [pc EXCEPT ![t] = label] /\ UNCHANGED request
          /\ UNCHANGED job \/ job' = [job EXCEPT ![t].retried = TRUE]
    BY <1>7 DEF Clear, Fill, AwaitIdle, Issue, Await, GiveUp, Goto
  <2>2. UNCHANGED Serving
    BY <2>1, ServingMoved
  <2>3. UNCHANGED Data
    <3>1. CASE UNCHANGED job
      BY <3>1 DEF Data
    <3>2. CASE job' = [job EXCEPT ![t].retried = TRUE]
      <4> DEFINE k == [job[t] EXCEPT !.retried = TRUE]
      <4>1. k.out = job[t].out
        BY <1>1 DEF Jobs
      <4>2. job' = [job EXCEPT ![t] = k]
        BY <3>2
      <4> HIDE DEF k
      <4>3. Data' = [Data EXCEPT ![t] = job[t].out]
        BY <4>1, <4>2, DataMoved
      <4>4. QED BY <4>3 DEF Data
    <3>3. QED BY <2>1, <3>1, <3>2
  <2>4. UNCHANGED Answer
    <3>1. Said(label) = "none" /\ Said(pc[t]) = "none"
      BY <2>1 DEF Said
    <3>2. QED BY <2>1, <3>1, SaidBy DEF Answer
  <2>5. QED BY <1>2, <2>1, <2>2, <2>3, <2>4
<1>8. ASSUME NEW t \in Threads, GiveUp(t), job' = job
      PROVE  Promise!Next \/ UNCHANGED Promise!vars
  <2>1. PICK label \in {"clear", "fail"} :
          pc[t] = "over" /\ pc' = [pc EXCEPT ![t] = label] /\ UNCHANGED <<request, job>>
    BY <1>8 DEF GiveUp, Goto
  <2>2. Serving = {t} /\ Serving' = {t} /\ UNCHANGED Data
    BY <2>1, ServingMoved DEF Data
  <2>3. Answer[t] = "none" /\ Answer' = [Answer EXCEPT ![t] = Said(label)]
    BY <2>1, SaidBy DEF Answer, Said
  <2>4. CASE label = "clear"
    <3>1. UNCHANGED Answer
      BY <2>3, <2>4 DEF Answer, Said
    <3>2. QED BY <1>2, <2>1, <2>2, <3>1
  <2>5. CASE label = "fail"
    <3>1. Promise!Refuse(t)
      BY <2>1, <2>2, <2>3, <2>5 DEF Promise!Refuse, Said
    <3>2. QED BY <3>1 DEF Promise!Next
  <2>6. QED BY <2>4, <2>5
<1>9. ASSUME NEW t \in Threads, Copy(t) PROVE Promise!Next
  BY <1>9, CopyDelivers DEF Promise!Next
<1>10. ASSUME NEW t \in Threads, Return(t) PROVE Promise!Next
  <2>1. /\ pc[t] \in {"success", "fail"} /\ pc' = [pc EXCEPT ![t] = "idle"]
        /\ request' = [request EXCEPT ![t] = NoRequest] /\ job' = [job EXCEPT ![t] = NoJob]
    BY <1>10 DEF Return, Goto
  <2>2. Serving = {t} /\ Serving' = {}
    BY <2>1, ServingMoved
  <2>3. Data' = [Data EXCEPT ![t] = <<>>]
    <3>1. NoJob.out = <<>>
      BY DEF NoJob
    <3>2. QED BY <2>1, <3>1, DataMoved
  <2>4. Answer[t] # "none" /\ Answer' = [Answer EXCEPT ![t] = "none"]
    <3>1. Answer[t] # "none"
      BY <2>1 DEF Answer, Said
    <3>2. Said("idle") = "none"
      BY DEF Said
    <3>3. QED BY <2>1, <3>1, <3>2, SaidBy
  <2>5. Promise!Return(t)
    BY <2>1, <2>2, <2>3, <2>4 DEF Promise!Return
  <2>6. QED BY <2>5 DEF Promise!Next
<1>11. QED BY <1>3, <1>4, <1>5, <1>6, <1>7, <1>8, <1>9, <1>10 DEF Next, Step

\* ATAPort::Read and ReadBytes implement Disk: reads are served one at a time,
\* what they write to a caller's buffer are the bytes of the disk in order,
\* also when they fail in the middle, they write no more than a sector past
\* what was asked for, and return true only when all of it was delivered.
THEOREM ImplementsHolds == Spec => Implements
<1>1. Init => Progress /\ Resting
  BY AhciAssumption DEF Init, Progress, Resting, Rounds, BootLabels, NoJob
<1>2. IInv /\ Progress /\ Resting /\ [Next]_vars => Progress' /\ Resting'
  BY ProgressKept, RestingKept
<1>3. IInv /\ Progress /\ Progress' /\ Resting /\ [Next]_vars => [Promise!Next]_(Promise!vars)
  BY StepRefines
<1>4. Init => Promise!Init
  BY AhciAssumption
     DEF Init, Promise!Init, Serving, Data, Answer, Said, Inside, Labels, BootLabels, NoJob
<1>5. QED
  BY <1>1, <1>2, <1>3, <1>4, Invariance, PTL DEF Spec, Implements, Promise!Spec
=============================================================================
