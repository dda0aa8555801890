---------------------------- MODULE DriverProofs ----------------------------
(***************************************************************************)
(* Proofs about the two programs that follow something outside the machine *)
(* by polling a ring in memory: the NVMe driver of the file server and the *)
(* TCP client of the network program.  The two have nothing in common but  *)
(* this; each part below uses one of the two specifications only.          *)
(*                                                                         *)
(* NvmeQueue: the driver takes from the completion ring exactly what the   *)
(* device put there, each completion once and in order, although it knows  *)
(* the device's index only through the phase bits; and a call that         *)
(* succeeds was answered by its own commands.  For rings and identifiers   *)
(* of any size, any number of commands and of time-outs.                   *)
(*                                                                         *)
(* TcpClient: what recv hands out is the response in its order, and the    *)
(* peer hears of its end, although the client compares no sequence number. *)
(* For responses of any length and any number of faults.                   *)
(***************************************************************************)
EXTENDS NvmeQueue, TcpClient, FiniteSetTheorems, SequenceTheorems, TLAPS

-----------------------------------------------------------------------------
(* The NVMe driver.  Types.                                                *)
TypeOK ==
    /\ issued \in Nat
    /\ sq \in [Slot -> Command] /\ cq \in [Slot -> Completion]
    /\ ioSqTail \in Slot /\ sqDoorbell \in Slot /\ sqHead \in Slot
    /\ ioCqHead \in Slot /\ cqTail \in Slot
    /\ ioPhase \in {0, 1} /\ devPhase \in {0, 1}
    /\ pendingIos \subseteq Slot
    /\ async \subseteq Command /\ running \subseteq Command /\ open \subseteq Command
    /\ call \in [op : {"none", "one", "batch", "drain"}, own : SUBSET Command, late : SUBSET Command]
    /\ state \in {"busy", "ok", "failed"}
    /\ left \subseteq Command /\ got \subseteq Completion
    /\ err \in BOOLEAN /\ overrun \in BOOLEAN
    /\ dma \in [Part -> Nat]

(* The phase bits tell the two laps apart, at every slot.                  *)
RingInStep ==
    /\ IF devPhase = ioPhase THEN ioCqHead <= cqTail ELSE cqTail < ioCqHead
    /\ \A i \in Slot : cq[i].phase = IF i < cqTail THEN devPhase ELSE 1 - devPhase

(* The slots the device has filled and the driver not emptied, and the     *)
(* other way round.                                                        *)
Posted(i) == IF devPhase = ioPhase THEN ioCqHead <= i /\ i < cqTail ELSE ioCqHead <= i \/ i < cqTail
Queued(i) == IF sqHead <= ioSqTail THEN sqHead <= i /\ i < ioSqTail ELSE sqHead <= i \/ i < ioSqTail

Told == IF sqHead <= ioSqTail THEN sqHead <= sqDoorbell /\ sqDoorbell <= ioSqTail
        ELSE sqHead <= sqDoorbell \/ sqDoorbell <= ioSqTail

-----------------------------------------------------------------------------
LEMMA Multiple == \A m \in Nat, k \in Int : k >= 1 => m * k >= m
  OBVIOUS

(* Numbers less than m apart have different remainders modulo m.           *)
LEMMA ModDistinct == \A m \in Nat \ {0}, a, b \in Nat : a < b /\ b < a + m => a % m # b % m
<1> SUFFICES ASSUME NEW m \in Nat \ {0}, NEW a \in Nat, NEW b \in Nat,
                    a < b, b < a + m, a % m = b % m
             PROVE  FALSE
  OBVIOUS
<1> DEFINE p == a \div m
           q == b \div m
           k == q - p
<1>1. a = m * p + (a % m) /\ p \in Int /\ (a % m) \in Int
  OBVIOUS
<1>2. b = m * q + (b % m) /\ q \in Int
  OBVIOUS
<1> HIDE DEF p, q
<1>3. b - a = m * q - m * p
  BY <1>1, <1>2
<1>4. m * q - m * p = m * k /\ k \in Int
  BY <1>1, <1>2
<1> HIDE DEF k
<1>5. CASE k >= 1
  BY <1>3, <1>4, <1>5, Multiple
<1>6. CASE k < 1
  <2>1. m * k <= 0
    BY <1>4, <1>6
  <2> QED BY <1>3, <1>4, <2>1
<1> QED BY <1>4, <1>5, <1>6

LEMMA SlotFacts == /\ 0 \in Slot /\ Depth \in Nat /\ Depth >= 4
                   /\ \A i \in Slot : i \in Nat /\ i < Depth /\ After(i) \in Slot
                   /\ \A i \in Slot : After(i) = IF i = Depth - 1 THEN 0 ELSE i + 1
                   /\ \A n \in Nat : SlotOf(n) \in Slot
  BY QueueAssumption DEF Slot, After, SlotOf

LEMMA CmdType == \A n \in Nat, k \in {"read", "write", "flush"}, p \in 0 .. Depth - 1 :
                    p # 0 \/ k # "write" => Cmd(n, k, p) \in Command
  BY DEF Cmd, Command

LEMMA Parts == 1 \in 0 .. Depth - 1 /\ 0 \in 0 .. Depth - 1 /\ 1 \in Part
  BY QueueAssumption DEF Part

LEMMA CqeType == \A c \in Command, ok \in BOOLEAN, ph \in {0, 1}, d \in Nat :
                    /\ Cqe(c, ok, ph, d) \in Completion
                    /\ Cqe(c, ok, ph, d).cmd = c
                    /\ Cqe(c, ok, ph, d).phase = ph
                    /\ Cqe(c, ok, ph, d).data = d
  BY DEF Cqe, Completion

LEMMA TypeInit == Init => TypeOK
<1> SUFFICES ASSUME Init PROVE TypeOK
  OBVIOUS
<1>1. NoCommand \in Command
  BY CmdType, Parts DEF NoCommand
<1>2. Cqe(NoCommand, TRUE, 0, 0) \in Completion
  BY <1>1, CqeType
<1>3. call \in [op : {"none", "one", "batch", "drain"}, own : SUBSET Command, late : SUBSET Command]
  BY DEF Init
<1>4. dma \in [Part -> Nat]
  BY DEF Init
<1>5. sq \in [Slot -> Command] /\ cq \in [Slot -> Completion]
  BY <1>1, <1>2 DEF Init
<1> QED BY <1>3, <1>4, <1>5, SlotFacts DEF Init, TypeOK

LEMMA TypeSubmit ==
    ASSUME TypeOK, NEW c \in Command, ioSubmitOne(c)
    PROVE  /\ issued' \in Nat /\ sq' \in [Slot -> Command] /\ ioSqTail' \in Slot
           /\ open' \subseteq Command /\ overrun' \in BOOLEAN
  BY SlotFacts DEF TypeOK, ioSubmitOne

LEMMA TypePop ==
    ASSUME TypeOK, popIoCqe
    PROVE  /\ ioCqHead' \in Slot /\ ioPhase' \in {0, 1} /\ open' \subseteq Command
           /\ cqe \in Completion /\ cqe.cmd \in Command /\ cqe.ok \in BOOLEAN /\ cqe.cmd.id \in Nat
<1>1. cqe \in Completion
  BY DEF TypeOK, cqe
<1>2. cqe.cmd \in Command /\ cqe.ok \in BOOLEAN
  BY <1>1 DEF Completion
<1>3. cqe.cmd.id \in Nat
  BY <1>2 DEF Command
<1> QED BY <1>1, <1>2, <1>3, SlotFacts DEF TypeOK, popIoCqe

LEMMA TypeStart ==
    ASSUME TypeOK, NEW op \in {"one", "batch", "drain"}, NEW own \in SUBSET Command,
           NEW late \in SUBSET Command, Start(op, own, late)
    PROVE  /\ call' \in [op : {"none", "one", "batch", "drain"}, own : SUBSET Command, late : SUBSET Command]
           /\ state' \in {"busy", "ok", "failed"}
           /\ left' \subseteq Command /\ got' \subseteq Completion /\ err' \in BOOLEAN
  BY DEF TypeOK, Start

LEMMA TypeWaiting ==
    ASSUME TypeOK, NEW k \in {"read", "write", "flush"}, Waiting(k), dma' \in [Part -> Nat]
    PROVE  TypeOK'
<1> DEFINE c == Cmd(issued, k, 1)
<1>1. c \in Command
  BY CmdType, Parts DEF TypeOK
<1> HIDE DEF c
<1>2. Start("one", {c}, open) /\ ioSubmit(c) /\ UNCHANGED <<ring, device, pendingIos, async>>
  BY DEF Waiting, c
<1>3. ioSubmitOne(c) /\ sqDoorbell' = After(ioSqTail)
  BY <1>2 DEF ioSubmit
<1>4. open \in SUBSET Command
  BY DEF TypeOK
<1> QED BY <1>1, <1>2, <1>3, <1>4, TypeSubmit, TypeStart, SlotFacts DEF TypeOK, ring, device

LEMMA TypeNext == ASSUME TypeOK, [Next]_vars PROVE TypeOK'
<1>1. CASE readSectors
  BY <1>1, TypeWaiting DEF readSectors, TypeOK
<1>2. CASE writeSectors
  <2>1. dma' \in [Part -> Nat]
    BY <1>2 DEF writeSectors, TypeOK
  <2> QED BY <1>2, <2>1, TypeWaiting DEF writeSectors
<1>3. CASE flush
  BY <1>3, TypeWaiting DEF flush, TypeOK
<1>4. ASSUME NEW n \in Part, readSectorsBatch(n) PROVE TypeOK'
  <2>1. ASSUME NEW i \in 1 .. n PROVE Cmd(issued + i - 1, "read", i) \in Command
    <3>1. issued + i - 1 \in Nat /\ i \in 0 .. Depth - 1
      BY QueueAssumption DEF TypeOK, Part
    <3> QED BY <3>1, CmdType
  <2>2. BatchOf(n) \in SUBSET Command
    BY <2>1 DEF BatchOf
  <2> QED BY <1>4, <2>2, TypeStart DEF readSectorsBatch, TypeOK, driver, ring, device
<1>5. CASE BatchAdd
  <2>1. PICK c \in call.own : ioSubmitOne(c) /\ sqDoorbell' \in {After(ioSqTail), sqDoorbell}
    BY <1>5 DEF BatchAdd, Unsent
  <2>2. c \in Command
    BY DEF TypeOK
  <2> QED BY <1>5, <2>1, <2>2, TypeSubmit, SlotFacts DEF BatchAdd, TypeOK, ring, answer, device
<1>6. CASE ioCompleteFor
  BY <1>6, TypePop DEF ioCompleteFor, Return, TypeOK, driver, device, answer
<1>7. CASE BatchCollect
  BY <1>7, TypePop DEF BatchCollect, Return, TypeOK, driver, device, answer
<1>8. CASE TimeOut
  BY <1>8 DEF TimeOut, Return, TypeOK, driver, ring, device
<1>9. CASE readAsync
  <2>1. Cmd(issued, "read", 0) \in Command
    BY CmdType, Parts DEF TypeOK
  <2> QED BY <1>9, <2>1, TypeSubmit, SlotFacts DEF readAsync, ioSubmit, Marked, TypeOK, ring, answer, device
<1>10. CASE drainAll
  <2>1. async \in SUBSET Command /\ open \ async \in SUBSET Command
    BY DEF TypeOK
  <2> QED BY <1>10, <2>1, TypeStart DEF drainAll, TypeOK, driver, ring, device
<1>11. CASE pollAny
  BY <1>11, TypePop DEF pollAny, Drained, Return, TypeOK, driver, device
<1>12. CASE PollEmpty
  BY <1>12 DEF PollEmpty, TypeOK, driver, ring, device
<1>13. CASE Fetch
  BY <1>13, SlotFacts DEF Fetch, TypeOK, driver, ring, answer
<1>14. ASSUME NEW c \in running, NEW ok \in BOOLEAN, Complete(c, ok) PROVE TypeOK'
  <2>1. c \in Command /\ c.id \in Nat /\ c.kind \in {"read", "write", "flush"}
    BY DEF TypeOK, Command
  <2>2. dma' \in [Part -> Nat]
    BY <1>14, <2>1 DEF Complete, TypeOK
  <2>3. Moved(c) \in Nat
    BY <2>1, QueueAssumption, SMTT(30) DEF Moved, TypeOK, Command, Part
  <2>4. cq' \in [Slot -> Completion]
    BY <1>14, <2>1, <2>3, CqeType DEF Complete, TypeOK
  <2> QED BY <1>14, <2>1, <2>2, <2>4, SlotFacts DEF Complete, TypeOK, driver, ring, answer
<1>15. CASE NoCall \/ UNCHANGED vars
  BY <1>15 DEF NoCall, vars, driver, ring, answer, device, TypeOK
<1> QED BY <1>1, <1>2, <1>3, <1>4, <1>5, <1>6, <1>7, <1>8, <1>9, <1>10, <1>11, <1>12, <1>13, <1>14, <1>15
        DEF Next, Calls, Loops, Device

-----------------------------------------------------------------------------
(* The completion ring.                                                    *)
LEMMA RingPop ==
    ASSUME TypeOK, RingInStep, popIoCqe, UNCHANGED device
    PROVE  /\ RingInStep'
           /\ Posted(ioCqHead)
           /\ \A i \in Slot : Posted(i)' <=> Posted(i) /\ i # ioCqHead
<1>1. /\ cq[ioCqHead].phase = ioPhase
      /\ ioCqHead' = After(ioCqHead)
      /\ ioPhase' = IF After(ioCqHead) = 0 THEN 1 - ioPhase ELSE ioPhase
      /\ cq' = cq /\ cqTail' = cqTail /\ devPhase' = devPhase
  BY DEF popIoCqe, New, cqe, device
<1>2. ioCqHead \in Slot /\ cqTail \in Slot /\ ioPhase \in {0, 1} /\ devPhase \in {0, 1}
  BY DEF TypeOK
<1>3. IF devPhase = ioPhase THEN ioCqHead < cqTail ELSE cqTail < ioCqHead
  BY <1>1, <1>2, SlotFacts DEF RingInStep
<1>4. Posted(ioCqHead)
  BY <1>2, <1>3, SlotFacts DEF Posted
<1>5. CASE ioCqHead = Depth - 1
  <2>1. ioCqHead' = 0 /\ ioPhase' = 1 - ioPhase /\ devPhase # ioPhase
    <3>1. ioCqHead' = 0 /\ ioPhase' = 1 - ioPhase
      BY <1>1, <1>2, <1>5, SlotFacts
    <3>2. cqTail \in Nat /\ cqTail < Depth /\ Depth \in Nat
      BY <1>2, SlotFacts
    <3> QED BY <1>3, <1>5, <3>1, <3>2
  <2>2. ioPhase' = devPhase'
    BY <1>1, <1>2, <2>1
  <2>3. RingInStep'
    BY <1>1, <1>2, <2>1, <2>2, SlotFacts DEF RingInStep
  <2> QED BY <1>1, <1>2, <1>3, <1>4, <1>5, <2>1, <2>2, <2>3, SlotFacts DEF Posted
<1>6. CASE ioCqHead # Depth - 1
  <2>1. ioCqHead' = ioCqHead + 1 /\ ioPhase' = ioPhase
    BY <1>1, <1>2, <1>6, SlotFacts
  <2>2. RingInStep'
    BY <1>1, <1>2, <1>3, <2>1, SlotFacts DEF RingInStep
  <2> QED BY <1>1, <1>2, <1>3, <1>4, <2>1, <2>2, SlotFacts DEF Posted
<1> QED BY <1>5, <1>6

LEMMA RingComplete ==
    ASSUME TypeOK, RingInStep, NEW c \in running, NEW ok \in BOOLEAN, Complete(c, ok)
    PROVE  /\ RingInStep'
           /\ ~Posted(cqTail)
           /\ \A i \in Slot : Posted(i)' <=> Posted(i) \/ i = cqTail
           /\ \A i \in Slot : cq'[i].cmd = IF i = cqTail THEN c ELSE cq[i].cmd
<1> DEFINE e == Cqe(c, ok, devPhase, Moved(c))
<1>1. e.phase = devPhase /\ e.cmd = c
  BY DEF Cqe
<1>2. cq' = [cq EXCEPT ![cqTail] = e]
  BY DEF Complete
<1> HIDE DEF e
<1>3. \A i \in Slot : cq'[i] = IF i = cqTail THEN e ELSE cq[i]
  BY <1>2 DEF TypeOK
<1>4. /\ After(cqTail) # ioCqHead /\ cqTail' = After(cqTail)
      /\ devPhase' = IF After(cqTail) = 0 THEN 1 - devPhase ELSE devPhase
      /\ ioCqHead' = ioCqHead /\ ioPhase' = ioPhase
  BY DEF Complete, ring
<1>5. \A i \in Slot : cq'[i].phase = IF i = cqTail THEN devPhase ELSE cq[i].phase
  BY <1>1, <1>3
<1>6. ioCqHead \in Slot /\ cqTail \in Slot /\ ioPhase \in {0, 1} /\ devPhase \in {0, 1}
  BY DEF TypeOK
<1>7. ~Posted(cqTail)
  BY <1>6, SlotFacts DEF RingInStep, Posted
<1>8. CASE cqTail = Depth - 1
  <2>1. cqTail' = 0 /\ devPhase' = 1 - devPhase /\ ioCqHead # 0 /\ devPhase = ioPhase
    BY <1>4, <1>6, <1>8, SlotFacts DEF RingInStep
  <2>2. devPhase' # ioPhase'
    BY <1>4, <1>6, <2>1
  <2>3. \A i \in Slot : cq'[i].phase = 1 - devPhase'
    BY <1>5, <1>6, <1>8, <2>1, SlotFacts DEF RingInStep
  <2>4. RingInStep'
    BY <1>4, <1>6, <2>1, <2>2, <2>3, SlotFacts DEF RingInStep
  <2> QED BY <1>1, <1>3, <1>4, <1>6, <1>7, <1>8, <2>1, <2>2, <2>4, SlotFacts DEF Posted
<1>9. CASE cqTail # Depth - 1
  <2>1. cqTail' = cqTail + 1 /\ devPhase' = devPhase
    BY <1>4, <1>6, <1>9, SlotFacts
  <2>2. RingInStep'
    BY <1>4, <1>5, <1>6, <2>1, SlotFacts, SMTT(30) DEF RingInStep
  <2>3. \A i \in Slot : Posted(i)' <=> Posted(i) \/ i = cqTail
    BY <1>4, <1>6, <2>1, SlotFacts, SMTT(30) DEF Posted, RingInStep
  <2> QED BY <1>1, <1>3, <1>7, <2>2, <2>3
<1> QED BY <1>8, <1>9

LEMMA RingInit == Init => RingInStep
<1> SUFFICES ASSUME Init PROVE RingInStep
  OBVIOUS
<1>1. Cqe(NoCommand, TRUE, 0, 0).phase = 0
  BY DEF Cqe
<1>2. \A i \in Slot : cq[i].phase = 0
  BY <1>1 DEF Init
<1>3. devPhase = 1 /\ ioPhase = 1 /\ ioCqHead = 0 /\ cqTail = 0
  BY DEF Init
<1> QED BY <1>2, <1>3, SlotFacts DEF RingInStep

LEMMA RingNext == ASSUME TypeOK, RingInStep, [Next]_vars PROVE RingInStep'
<1>1. CASE UNCHANGED <<ring, device>>
  BY <1>1 DEF RingInStep, ring, device
<1>2. CASE popIoCqe /\ UNCHANGED device
  BY <1>2, RingPop
<1>3. CASE Fetch
  BY <1>3 DEF Fetch, RingInStep, ring
<1>4. ASSUME NEW c \in running, NEW ok \in BOOLEAN, Complete(c, ok) PROVE RingInStep'
  BY <1>4, RingComplete
<1>5. Calls \/ BatchAdd \/ TimeOut \/ PollEmpty \/ NoCall \/ UNCHANGED vars => UNCHANGED <<ring, device>>
  BY DEF Calls, readSectors, writeSectors, flush, Waiting, readSectorsBatch, readAsync, drainAll,
         BatchAdd, TimeOut, PollEmpty, NoCall, vars
<1>6. ioCompleteFor \/ BatchCollect \/ pollAny => popIoCqe /\ UNCHANGED device
  BY DEF ioCompleteFor, BatchCollect, pollAny
<1> QED BY <1>1, <1>2, <1>3, <1>4, <1>5, <1>6 DEF Next, Loops, Device

(* What is new to the driver is what the device has posted and the driver  *)
(* not taken: the phase bits stand for the index it cannot read.           *)
NewIsPosted == New <=> devPhase # ioPhase \/ ioCqHead # cqTail

LEMMA StepMeansNew == ASSUME TypeOK, RingInStep PROVE NewIsPosted
<1>1. ioCqHead \in Slot /\ cqTail \in Slot /\ ioPhase \in {0, 1} /\ devPhase \in {0, 1}
  BY DEF TypeOK
<1>2. cq[ioCqHead].phase = IF ioCqHead < cqTail THEN devPhase ELSE 1 - devPhase
  BY <1>1 DEF RingInStep
<1> QED BY <1>1, <1>2, SlotFacts DEF RingInStep, NewIsPosted, New, cqe

-----------------------------------------------------------------------------
(* Where the commands are.                                                 *)
Places ==
    /\ \A c \in open : c.id < issued
    /\ running \subseteq open
    /\ \A i \in Slot : Queued(i) => sq[i] \in open \ running
    /\ \A i \in Slot : Posted(i) => cq[i].cmd \in open \ running
    /\ \A i, j \in Slot : Queued(i) /\ Queued(j) /\ sq[i] = sq[j] => i = j
    /\ \A i, j \in Slot : Posted(i) /\ Posted(j) /\ cq[i].cmd = cq[j].cmd => i = j
    /\ \A i, j \in Slot : Queued(i) /\ Posted(j) => sq[i] # cq[j].cmd

Placed == ~overrun => Told /\ Places

LEMMA QueueSubmit ==
    ASSUME TypeOK, Told, NEW c, ioSubmitOne(c), ~overrun', UNCHANGED device,
           sqDoorbell' \in {sqDoorbell, After(ioSqTail)}
    PROVE  /\ Told'
           /\ ~Queued(ioSqTail)
           /\ \A i \in Slot : Queued(i)' <=> Queued(i) \/ i = ioSqTail
           /\ \A i \in Slot : sq'[i] = IF i = ioSqTail THEN c ELSE sq[i]
<1>1. /\ ioSqTail' = After(ioSqTail) /\ sqHead' = sqHead /\ After(ioSqTail) # sqHead
      /\ sqDoorbell' \in {sqDoorbell, After(ioSqTail)}
  BY DEF ioSubmitOne, device
<1>2. ioSqTail \in Slot /\ sqHead \in Slot /\ sqDoorbell \in Slot
  BY DEF TypeOK
<1>3. \A i \in Slot : sq'[i] = IF i = ioSqTail THEN c ELSE sq[i]
  BY DEF ioSubmitOne, TypeOK
<1>4. ~Queued(ioSqTail)
  BY <1>2, SlotFacts DEF Queued
<1>5. /\ Depth \in Nat /\ ioSqTail \in Nat /\ sqHead \in Nat /\ sqDoorbell \in Nat
      /\ ioSqTail < Depth /\ sqHead < Depth /\ sqDoorbell < Depth
      /\ ioSqTail' = IF ioSqTail = Depth - 1 THEN 0 ELSE ioSqTail + 1
      /\ sqHead' # ioSqTail' /\ sqDoorbell' \in {sqDoorbell, ioSqTail'}
  BY <1>1, <1>2, SlotFacts
<1>6. Told'
  BY <1>1, <1>5 DEF Told
<1>7. ASSUME NEW i \in Slot PROVE Queued(i)' <=> Queued(i) \/ i = ioSqTail
  <2>1. i \in Nat /\ i < Depth
    BY SlotFacts
  <2> QED BY <1>1, <1>5, <2>1 DEF Queued
<1> QED BY <1>3, <1>4, <1>6, <1>7

LEMMA QueueFetch ==
    ASSUME TypeOK, Told, Fetch
    PROVE  /\ Told'
           /\ Queued(sqHead)
           /\ \A i \in Slot : Queued(i)' <=> Queued(i) /\ i # sqHead
<1>1. /\ sqHead' = After(sqHead) /\ sqHead # sqDoorbell
      /\ ioSqTail' = ioSqTail /\ sqDoorbell' = sqDoorbell
  BY DEF Fetch, driver
<1>2. ioSqTail \in Slot /\ sqHead \in Slot /\ sqDoorbell \in Slot
  BY DEF TypeOK
<1>3. CASE sqHead = Depth - 1
  BY <1>1, <1>2, <1>3, SlotFacts DEF Queued, Told
<1>4. CASE sqHead # Depth - 1
  BY <1>1, <1>2, <1>4, SlotFacts DEF Queued, Told
<1> QED BY <1>3, <1>4

LEMMA PlacedSubmit ==
    ASSUME TypeOK, Placed, NEW c, c.id = issued, ioSubmitOne(c), UNCHANGED <<ring, device>>,
           sqDoorbell' \in {sqDoorbell, After(ioSqTail)}
    PROVE  Placed'
<1> SUFFICES ASSUME ~overrun' PROVE Told' /\ Places'
  BY DEF Placed
<1>1. ~overrun
  BY DEF ioSubmitOne
<1>2. Told /\ Places
  BY <1>1 DEF Placed
<1>3. /\ Told'
      /\ \A i \in Slot : Queued(i)' <=> Queued(i) \/ i = ioSqTail
      /\ \A i \in Slot : sq'[i] = IF i = ioSqTail THEN c ELSE sq[i]
  BY <1>2, QueueSubmit
<1>4. \A i \in Slot : Posted(i)' <=> Posted(i)
  BY DEF Posted, ring, device
<1>5. issued' = issued + 1 /\ open' = open \cup {c} /\ issued \in Nat /\ open \subseteq Command
  BY DEF ioSubmitOne, TypeOK
<1>6. c \notin open
  BY <1>2, <1>5 DEF Places
<1>7. cq' = cq /\ running' = running
  BY DEF device
<1>8. \A d \in open : d.id \in Nat
  BY <1>5 DEF Command
<1>9. \A d \in open' : d.id < issued'
  BY <1>2, <1>5, <1>8 DEF Places
<1> QED BY <1>2, <1>3, <1>4, <1>5, <1>6, <1>7, <1>9 DEF Places

LEMMA PlacedPop ==
    ASSUME TypeOK, RingInStep, Placed, popIoCqe, UNCHANGED <<driver, device>>
    PROVE  Placed'
<1> SUFFICES ASSUME ~overrun' PROVE Told' /\ Places'
  BY DEF Placed
<1>1. Told /\ Places
  BY DEF Placed, driver
<1>2. Told' /\ \A i \in Slot : Queued(i)' <=> Queued(i)
  BY <1>1 DEF Told, Queued, driver, device
<1>3. Posted(ioCqHead) /\ \A i \in Slot : Posted(i)' <=> Posted(i) /\ i # ioCqHead
  BY RingPop
<1>4. open' = open \ {cq[ioCqHead].cmd} /\ ioCqHead \in Slot
  BY DEF popIoCqe, cqe, TypeOK
<1>5. cq' = cq /\ running' = running /\ issued' = issued /\ sq' = sq
  BY DEF driver, device
<1> QED BY <1>1, <1>2, <1>3, <1>4, <1>5 DEF Places

LEMMA PlacedInit == Init => Placed
<1> SUFFICES ASSUME Init PROVE Told /\ Places
  BY DEF Placed
<1>1. \A i \in Slot : ~Queued(i) /\ ~Posted(i)
  BY SlotFacts DEF Init, Queued, Posted
<1>2. Told
  BY DEF Init, Told
<1> QED BY <1>1, <1>2 DEF Init, Places

LEMMA PlacedNext == ASSUME TypeOK, RingInStep, Placed, [Next]_vars PROVE Placed'
<1>1. ASSUME NEW c, c.id = issued, ioSubmitOne(c), UNCHANGED <<ring, device>>,
             sqDoorbell' \in {sqDoorbell, After(ioSqTail)}
      PROVE  Placed'
  BY <1>1, PlacedSubmit
<1>2. ASSUME NEW k, Waiting(k) PROVE Placed'
  <2> DEFINE c == Cmd(issued, k, 1)
  <2>1. c.id = issued
    BY DEF Cmd
  <2>2. ioSubmit(c) /\ UNCHANGED <<ring, device>>
    BY <1>2 DEF Waiting
  <2> HIDE DEF c
  <2> QED BY <1>1, <2>1, <2>2 DEF ioSubmit
<1>3. CASE readAsync
  <2> DEFINE c == Cmd(issued, "read", 0)
  <2>1. c.id = issued
    BY DEF Cmd
  <2>2. ioSubmit(c) /\ UNCHANGED <<ring, device>>
    BY <1>3 DEF readAsync
  <2> HIDE DEF c
  <2> QED BY <1>1, <2>1, <2>2 DEF ioSubmit
<1>4. CASE BatchAdd
  <2>1. PICK c \in call.own : /\ c.id = issued /\ ioSubmitOne(c)
                              /\ sqDoorbell' \in {sqDoorbell, After(ioSqTail)}
    BY <1>4 DEF BatchAdd, Unsent
  <2> QED BY <1>1, <1>4, <2>1 DEF BatchAdd
<1>5. CASE popIoCqe /\ UNCHANGED <<driver, device>>
  BY <1>5, PlacedPop
<1>6. CASE UNCHANGED <<driver, ring, device, open>>
  BY <1>6 DEF Placed, Told, Places, Queued, Posted, driver, ring, device
<1>7. CASE Fetch
  <2> SUFFICES ASSUME ~overrun' PROVE Told' /\ Places'
    BY DEF Placed
  <2>1. Told /\ Places
    BY <1>7 DEF Placed, Fetch, driver
  <2>2. Told' /\ Queued(sqHead) /\ \A i \in Slot : Queued(i)' <=> Queued(i) /\ i # sqHead
    BY <1>7, <2>1, QueueFetch
  <2>3. \A i \in Slot : Posted(i)' <=> Posted(i)
    BY <1>7 DEF Fetch, Posted, ring
  <2>4. /\ running' = running \cup {sq[sqHead]} /\ sqHead \in Slot
        /\ open' = open /\ cq' = cq /\ sq' = sq /\ issued' = issued
    BY <1>7 DEF Fetch, driver, TypeOK
  <2> QED BY <2>1, <2>2, <2>3, <2>4 DEF Places
<1>8. ASSUME NEW c \in running, NEW ok \in BOOLEAN, Complete(c, ok) PROVE Placed'
  <2> SUFFICES ASSUME ~overrun' PROVE Told' /\ Places'
    BY DEF Placed
  <2>1. Told /\ Places
    BY <1>8 DEF Placed, Complete, driver
  <2>2. Told' /\ \A i \in Slot : Queued(i)' <=> Queued(i)
    BY <1>8, <2>1 DEF Complete, Told, Queued, driver
  <2>3. /\ ~Posted(cqTail)
        /\ \A i \in Slot : Posted(i)' <=> Posted(i) \/ i = cqTail
        /\ \A i \in Slot : cq'[i].cmd = IF i = cqTail THEN c ELSE cq[i].cmd
    BY <1>8, RingComplete
  <2>4. running' = running \ {c} /\ open' = open /\ sq' = sq /\ issued' = issued
    BY <1>8 DEF Complete, driver
  <2> QED BY <2>1, <2>2, <2>3, <2>4 DEF Places
<1>9. ioCompleteFor \/ BatchCollect \/ pollAny => popIoCqe /\ UNCHANGED <<driver, device>>
  BY DEF ioCompleteFor, BatchCollect, pollAny
<1>10. \/ \E n \in Part : readSectorsBatch(n)
       \/ drainAll \/ TimeOut \/ PollEmpty \/ NoCall \/ UNCHANGED vars
       => UNCHANGED <<driver, ring, device, open>>
  BY DEF readSectorsBatch, drainAll, TimeOut, PollEmpty, NoCall, vars
<1> QED BY <1>2, <1>3, <1>4, <1>5, <1>6, <1>7, <1>8, <1>9, <1>10
        DEF Next, Calls, Loops, Device, readSectors, writeSectors, flush

-----------------------------------------------------------------------------
(* What a call has taken for its answers.                                  *)
Cids(S) == \A c, d \in S : CidOf(c.id) = CidOf(d.id) => c = d
Taken == {g.cmd : g \in got}

Answered ==
    /\ state = "busy" => open \subseteq call.own \cup call.late
    /\ call.op = "one" => \E c : call.own = {c}
    /\ call.op = "batch" => Cids(call.own)
    /\ call.op = "batch" /\ state # "failed" => left \subseteq call.own
    /\ call.op = "batch" /\ state = "ok" => left = {}
    /\ ~overrun /\ ~Mistakable =>
          /\ call.op = "one" /\ state = "ok" => Taken = call.own
          /\ call.op = "batch" /\ state # "failed" => Taken = call.own \ left

IInv == TypeOK /\ RingInStep /\ Placed /\ Answered

LEMMA BatchCids == ASSUME NEW n \in Part, issued \in Nat PROVE Cids(BatchOf(n))
<1> SUFFICES ASSUME NEW i \in 1 .. n, NEW j \in 1 .. n,
                    CidOf(issued + i - 1) = CidOf(issued + j - 1)
             PROVE  i = j
  BY DEF Cids, BatchOf, Cmd
<1> DEFINE a == issued + i - 1
           b == issued + j - 1
<1>1. /\ CidMod \in Nat \ {0} /\ a \in Nat /\ b \in Nat
      /\ a < b + CidMod /\ b < a + CidMod
  BY QueueAssumption DEF Part
<1>2. a % CidMod = b % CidMod
  BY DEF CidOf
<1> HIDE DEF a, b
<1>3. ~(a < b)
  BY <1>1, <1>2, ModDistinct
<1>4. ~(b < a)
  BY <1>1, <1>2, ModDistinct
<1>5. a = b
  BY <1>1, <1>3, <1>4
<1> QED BY <1>5 DEF a, b, Part

LEMMA StartAnswered ==
    ASSUME NEW op, NEW own, NEW late, Start(op, own, late),
           op = "one" => \E c : own = {c}, op = "batch" => Cids(own),
           open' \subseteq own \cup late
    PROVE  Answered'
  BY DEF Start, Answered, Taken

(* The entry the driver takes belongs to an open command.                  *)
LEMMA HeadIsOpen ==
    ASSUME TypeOK, RingInStep, Placed, ~overrun, popIoCqe, UNCHANGED device
    PROVE  cqe.cmd \in open
  BY RingPop DEF Placed, Places, cqe, TypeOK

LEMMA AnsweredNext == ASSUME IInv, [Next]_vars PROVE Answered'
<1> USE DEF IInv
<1>1. CASE state # "busy" /\ UNCHANGED <<call, answer>> /\ (overrun => overrun')
  BY <1>1 DEF Answered, answer, Taken, Mistakable
<1>2. CASE UNCHANGED <<call, answer, overrun>> /\ open' \subseteq open
  BY <1>2 DEF Answered, answer, Taken, Mistakable
<1>3. ASSUME NEW k, Waiting(k) PROVE Answered'
  <2> DEFINE c == Cmd(issued, k, 1)
  <2>1. Start("one", {c}, open) /\ open' = open \cup {c}
    BY <1>3 DEF Waiting, ioSubmit, ioSubmitOne
  <2> HIDE DEF c
  <2> QED BY <2>1, StartAnswered
<1>4. ASSUME NEW n \in Part, readSectorsBatch(n) PROVE Answered'
  <2>1. Start("batch", BatchOf(n), open) /\ open' = open
    BY <1>4 DEF readSectorsBatch
  <2> QED BY <2>1, StartAnswered, BatchCids DEF TypeOK
<1>5. CASE BatchAdd
  <2>1. PICK c \in call.own : ioSubmitOne(c)
    BY <1>5 DEF BatchAdd, Unsent
  <2>2. open' = open \cup {c} /\ (overrun => overrun') /\ UNCHANGED <<call, answer>>
    BY <1>5, <2>1 DEF BatchAdd, ioSubmitOne
  <2> QED BY <2>2 DEF Answered, answer, Taken, Mistakable
<1>6. CASE ioCompleteFor
  <2>1. /\ state = "busy" /\ call.op = "one" /\ popIoCqe /\ UNCHANGED <<device, call, overrun>>
        /\ open' \subseteq open
    BY <1>6 DEF ioCompleteFor, popIoCqe, driver
  <2>2. PICK c \in call.own : IF Accepted(c)
                              THEN Return(cqe.ok) /\ got' = {cqe} /\ UNCHANGED <<left, err>>
                              ELSE UNCHANGED answer
    BY <1>6 DEF ioCompleteFor
  <2>3. call.own = {c} /\ open \subseteq call.own \cup call.late
    BY <2>1 DEF Answered
  <2>4. CASE ~Accepted(c)
    BY <1>2, <2>1, <2>2, <2>4
  <2>5. CASE Accepted(c)
    <3>1. got' = {cqe} /\ state' # "busy" /\ Taken' = {cqe.cmd}
      BY <2>2, <2>5 DEF Return, Taken
    <3>2. ASSUME ~overrun, ~Mistakable PROVE cqe.cmd = c
      <4>1. cqe.cmd \in call.own \cup call.late
        BY <2>1, <2>3, <3>2, HeadIsOpen
      <4>2. cqe.cmd \in call.late => FALSE
        BY <2>1, <2>3, <2>5, <3>2 DEF Accepted, Expected, Answers, Mistakable
      <4> QED BY <2>3, <4>1, <4>2
    <3> QED BY <2>1, <2>3, <3>1, <3>2 DEF Answered, Mistakable
  <2> QED BY <2>4, <2>5
<1>7. CASE BatchCollect
  <2>1. /\ state = "busy" /\ call.op = "batch" /\ popIoCqe /\ UNCHANGED <<device, call, overrun>>
        /\ open' \subseteq open
    BY <1>7 DEF BatchCollect, popIoCqe, driver
  <2>2. CASE UNCHANGED answer
    BY <1>2, <2>1, <2>2
  <2>3. ASSUME NEW c \in left, Answers(c), left' = left \ {c}, got' = got \cup {cqe},
               IF left = {c} THEN Return(~err /\ cqe.ok) ELSE UNCHANGED state
        PROVE  Answered'
    <3>1. left \subseteq call.own /\ Cids(call.own) /\ open \subseteq call.own \cup call.late
      BY <2>1 DEF Answered
    <3>2. Taken' = Taken \cup {cqe.cmd}
      BY <2>3 DEF Taken
    <3>3. ASSUME ~overrun, ~Mistakable PROVE Taken' = call.own \ left'
      <4>1. cqe.cmd \in call.own \cup call.late
        BY <2>1, <3>1, <3>3, HeadIsOpen
      <4>2. cqe.cmd \notin call.late
        BY <2>3, <3>1, <3>3 DEF Answers, Mistakable
      <4>3. cqe.cmd = c
        BY <2>3, <3>1, <4>1, <4>2 DEF Answers, Cids
      <4>4. Taken = call.own \ left
        BY <2>1, <3>3 DEF Answered
      <4> QED BY <2>3, <3>1, <3>2, <4>3, <4>4
    <3>4. state' = "busy" \/ left' = {}
      BY <2>1, <2>3 DEF Return
    <3>5. Mistakable' <=> Mistakable
      BY <2>1 DEF Mistakable
    <3>6. left' \subseteq call.own
      BY <2>3, <3>1
    <3> QED BY <2>1, <3>1, <3>3, <3>4, <3>5, <3>6 DEF Answered
  <2> QED BY <1>7, <2>2, <2>3 DEF BatchCollect
<1>8. CASE TimeOut
  <2>1. state' = "failed" /\ UNCHANGED <<call, overrun>>
    BY <1>8 DEF TimeOut, Return, driver
  <2> QED BY <2>1 DEF Answered, Mistakable
<1>9. CASE drainAll
  <2>1. Start("drain", async, open \ async) /\ open' = open
    BY <1>9 DEF drainAll
  <2>2. open' \subseteq async \cup (open \ async)
    BY <2>1
  <2> QED BY <2>1, <2>2, StartAnswered
<1>10. CASE pollAny \/ PollEmpty
  <2>1. call.op = "drain" /\ UNCHANGED call /\ state = "busy" /\ open' \subseteq open
    BY <1>10 DEF pollAny, PollEmpty, popIoCqe
  <2> QED BY <2>1 DEF Answered
<1>11. readAsync \/ NoCall => state # "busy" /\ UNCHANGED <<call, answer>> /\ (overrun => overrun')
  <2>1. readAsync => state # "busy" /\ UNCHANGED <<call, answer>>
    BY DEF readAsync, Free
  <2>2. readAsync => overrun' = (overrun \/ After(ioSqTail) = sqHead)
    BY DEF readAsync, ioSubmit, ioSubmitOne
  <2>3. NoCall => state # "busy" /\ UNCHANGED <<call, answer, overrun>>
    BY DEF NoCall, Free, vars, driver
  <2> QED BY <2>1, <2>2, <2>3
<1>12. ASSUME NEW c \in running, NEW ok \in BOOLEAN, Complete(c, ok)
       PROVE  UNCHANGED <<call, answer, overrun>> /\ open' \subseteq open
  BY <1>12 DEF Complete, driver
<1>13. Fetch \/ UNCHANGED vars => UNCHANGED <<call, answer, overrun>> /\ open' \subseteq open
  BY DEF Fetch, vars, driver
<1> QED BY <1>1, <1>2, <1>3, <1>4, <1>5, <1>6, <1>7, <1>8, <1>9, <1>10, <1>11, <1>12, <1>13
        DEF Next, Calls, Loops, Device, readSectors, writeSectors, flush

LEMMA AnsweredInit == Init => Answered
  BY DEF Init, Answered

THEOREM Invariance == Spec => []IInv
<1>1. Init => IInv
  BY TypeInit, RingInit, PlacedInit, AnsweredInit DEF IInv
<1>2. IInv /\ [Next]_vars => IInv'
  BY TypeNext, RingNext, PlacedNext, AnsweredNext DEF IInv
<1> QED BY <1>1, <1>2, PTL DEF Spec

(* The driver sees a new completion exactly when the device has posted one *)
(* it has not taken: no completion is taken twice, skipped or taken early. *)
THEOREM PhaseTellsNew == Spec => []NewIsPosted
<1>1. IInv => NewIsPosted
  BY StepMeansNew DEF IInv
<1> QED BY <1>1, Invariance, PTL

(* A call that succeeds was answered by its own commands.                  *)
THEOREM SuccessIsOwn == Spec => []AnswerIsOwn
<1>1. IInv => AnswerIsOwn
  BY DEF IInv, Answered, AnswerIsOwn, Succeeded, Taken
<1> QED BY <1>1, Invariance, PTL

-----------------------------------------------------------------------------
(* Asynchronous reads.  Those in flight are fewer than the slots and have  *)
(* consecutive numbers, so each has a slot of its own; and an open one is  *)
(* pending unless a late command has its slot.                             *)
Draining == state = "busy" /\ call.op = "drain"
Older == IF Draining THEN call.late ELSE open \ async

InFlight ==
    /\ IsFiniteSet(async) /\ Cardinality(async) <= Depth - 2
    /\ \A c \in async : issued - Cardinality(async) <= c.id /\ c.id < issued
    /\ \A c, d \in async : c.id = d.id => c = d
    /\ state = "busy" => IF call.op = "drain" THEN call.own = async ELSE async = {}
    /\ call.op = "drain" => \A c \in call.own : c.id < issued

Pending(c) == SlotOf(c.id) \in pendingIos \/ \E d \in Older : SlotOf(d.id) = SlotOf(c.id)

Drains == ~overrun => (\A c \in async \cap open : Pending(c)) /\ DrainMeansDone

LEMMA AsyncSlots ==
    ASSUME TypeOK, InFlight, NEW c \in async, NEW d \in async, SlotOf(c.id) = SlotOf(d.id)
    PROVE  c = d
<1>1. c.id \in Nat /\ d.id \in Nat /\ Depth \in Nat \ {0} /\ Cardinality(async) \in Nat
  BY FS_CardinalityType, QueueAssumption DEF TypeOK, Command, InFlight
<1>2. c.id < d.id + Depth /\ d.id < c.id + Depth
  BY <1>1 DEF InFlight, TypeOK
<1>3. c.id % Depth = d.id % Depth
  BY DEF SlotOf
<1>4. ~(c.id < d.id)
  BY <1>1, <1>2, <1>3, ModDistinct
<1>5. ~(d.id < c.id)
  BY <1>1, <1>2, <1>3, ModDistinct
<1> QED BY <1>1, <1>4, <1>5 DEF InFlight

LEMMA InFlightInit == Init => InFlight
  BY FS_EmptySet, QueueAssumption DEF Init, InFlight

LEMMA InFlightNext == ASSUME TypeOK, InFlight, [Next]_vars PROVE InFlight'
<1>0. Cardinality(async) \in Nat /\ Cardinality({}) = 0 /\ IsFiniteSet({})
  BY FS_CardinalityType, FS_EmptySet DEF InFlight
<1>1. ASSUME async' = {}, issued' \in Nat, issued' >= issued, state' = "busy" => call'.op # "drain",
             call'.op = "drain" => call' = call
      PROVE  InFlight'
  <2>1. ASSUME call'.op = "drain", NEW c \in call'.own PROVE c.id < issued'
    <3>1. call' = call /\ c.id < issued /\ c.id \in Nat
      BY <1>1, <2>1 DEF InFlight, TypeOK, Command
    <3> QED BY <1>1, <3>1 DEF TypeOK
  <2> QED BY <1>0, <1>1, <2>1, QueueAssumption DEF InFlight
<1>2. ASSUME NEW k, Waiting(k) PROVE InFlight'
  <2> DEFINE c == Cmd(issued, k, 1)
  <2>1. async' = {} /\ issued' = issued + 1 /\ call'.op = "one"
    BY <1>2 DEF Waiting, Start, ioSubmit, ioSubmitOne
  <2> QED BY <1>1, <2>1 DEF TypeOK
<1>3. ASSUME NEW n \in Part, readSectorsBatch(n) PROVE InFlight'
  <2>1. async' = {} /\ issued' = issued /\ call'.op = "batch"
    BY <1>3 DEF readSectorsBatch, Start, driver
  <2> QED BY <1>1, <2>1 DEF TypeOK
<1>4. CASE BatchAdd \/ ioCompleteFor \/ BatchCollect \/ TimeOut
  <2>1. call' = call /\ async' = async /\ state = "busy" /\ call.op \in {"one", "batch"}
    BY <1>4 DEF BatchAdd, ioCompleteFor, BatchCollect, TimeOut
  <2>2. async = {}
    BY <2>1 DEF InFlight
  <2>3. issued' \in {issued, issued + 1}
    BY <1>4 DEF BatchAdd, ioCompleteFor, BatchCollect, TimeOut, driver, ioSubmitOne
  <2> QED BY <1>1, <2>1, <2>2, <2>3 DEF TypeOK
<1>5. CASE readAsync
  <2> DEFINE c == Cmd(issued, "read", 0)
  <2>1. c.id = issued
    BY DEF Cmd
  <2>2. /\ issued' = issued + 1 /\ async' = async \cup {c} /\ call' = call /\ state' = state
        /\ state # "busy" /\ Cardinality(async) < 2 * AsyncBatch
    BY <1>5 DEF readAsync, ioSubmit, ioSubmitOne, answer, Free
  <2> HIDE DEF c
  <2>3. c \notin async
    BY <2>1 DEF InFlight, TypeOK
  <2>4. IsFiniteSet(async') /\ Cardinality(async') = Cardinality(async) + 1
    BY <2>2, <2>3, FS_AddElement DEF InFlight
  <2>5. 2 * AsyncBatch <= Depth - 2
    BY QueueAssumption DEF AsyncBatch
  <2>6. AsyncBatch \in Int
    BY QueueAssumption DEF AsyncBatch
  <2>7. Cardinality(async') <= Depth - 2
    BY <1>0, <2>2, <2>4, <2>5, <2>6, QueueAssumption
  <2>8. \A d \in async : d.id \in Nat
    BY DEF TypeOK, Command
  <2>9. \A d \in async' : issued' - Cardinality(async') <= d.id /\ d.id < issued'
    BY <1>0, <2>1, <2>2, <2>4, <2>8 DEF InFlight, TypeOK
  <2>10. call'.op = "drain" => \A d \in call'.own : d.id < issued'
    BY <2>2 DEF InFlight, TypeOK, Command
  <2>11. \A d, e \in async' : d.id = e.id => d = e
    BY <2>1, <2>2 DEF InFlight, TypeOK
  <2> QED BY <2>2, <2>4, <2>7, <2>9, <2>10, <2>11 DEF InFlight
<1>6. CASE drainAll
  <2>1. async' = async /\ issued' = issued /\ call'.op = "drain" /\ call'.own = async
    BY <1>6 DEF drainAll, Start, driver
  <2> QED BY <2>1 DEF InFlight
<1>7. CASE pollAny
  <2>1. /\ call' = call /\ issued' = issued /\ call.op = "drain" /\ state = "busy"
        /\ (async' = {} /\ state' # "busy") \/ (async' = async /\ state' = state)
    BY <1>7 DEF pollAny, Drained, Return, driver
  <2>2. CASE async' = {} /\ state' # "busy"
    BY <1>1, <2>1, <2>2 DEF TypeOK
  <2>3. CASE async' = async /\ state' = state
    BY <2>1, <2>3 DEF InFlight
  <2> QED BY <2>1, <2>2, <2>3
<1>8. CASE UNCHANGED <<call, async, state, issued>>
  BY <1>8 DEF InFlight
<1>9. ASSUME NEW c \in running, NEW ok \in BOOLEAN, Complete(c, ok)
      PROVE  UNCHANGED <<call, async, state, issued>>
  BY <1>9 DEF Complete, driver, answer
<1>10. PollEmpty \/ Fetch \/ NoCall \/ UNCHANGED vars => UNCHANGED <<call, async, state, issued>>
  BY DEF PollEmpty, Fetch, NoCall, vars, driver, answer
<1> QED BY <1>2, <1>3, <1>4, <1>5, <1>6, <1>7, <1>8, <1>9, <1>10
        DEF Next, Calls, Loops, Device, readSectors, writeSectors, flush

LEMMA DrainsNext == ASSUME IInv, InFlight, Drains, [Next]_vars PROVE Drains'
<1> SUFFICES ASSUME ~overrun' PROVE (\A c \in async' \cap open' : Pending(c)') /\ DrainMeansDone'
  BY DEF Drains
<1> USE DEF IInv
<1>1. overrun' = overrun => (\A c \in async \cap open : Pending(c)) /\ DrainMeansDone
  BY DEF Drains
<1>2. ASSUME async' = {}, call'.op # "drain" PROVE Drains'
  BY <1>2 DEF Drains, DrainMeansDone
<1>3. ASSUME NEW k, Waiting(k) PROVE Drains'
  BY <1>2, <1>3 DEF Waiting, Start
<1>4. ASSUME NEW n \in Part, readSectorsBatch(n) PROVE Drains'
  BY <1>2, <1>4 DEF readSectorsBatch, Start
<1>5. CASE BatchAdd \/ ioCompleteFor \/ BatchCollect \/ TimeOut
  <2>1. call' = call /\ async' = async /\ state = "busy" /\ call.op \in {"one", "batch"}
    BY <1>5 DEF BatchAdd, ioCompleteFor, BatchCollect, TimeOut
  <2> QED BY <1>2, <2>1 DEF InFlight, Drains
<1>6. CASE readAsync
  <2> DEFINE c == Cmd(issued, "read", 0)
  <2>1. c.id = issued
    BY DEF Cmd
  <2>2. /\ async' = async \cup {c} /\ open' = open \cup {c} /\ call' = call /\ state' = state
        /\ state # "busy" /\ overrun' = (overrun \/ After(ioSqTail) = sqHead)
        /\ pendingIos' = pendingIos \cup {SlotOf(issued)}
    BY <1>6 DEF readAsync, ioSubmit, ioSubmitOne, answer, Free, Marked
  <2> HIDE DEF c
  <2>3. ~overrun /\ (\A d \in async \cap open : Pending(d)) /\ DrainMeansDone
    BY <2>2 DEF Drains
  <2>4. Places
    BY <2>3 DEF Placed
  <2>5. c \notin open /\ c \notin async
    BY <2>1, <2>4 DEF Places, InFlight, TypeOK
  <2>6. Older' = Older
    BY <2>2, <2>5 DEF Older, Draining
  <2>7. \A d \in async' \cap open' : Pending(d)'
    BY <2>1, <2>2, <2>3, <2>6 DEF Pending
  <2>8. call.op = "drain" => c \notin call.own
    BY <2>1 DEF InFlight, TypeOK
  <2>9. DrainMeansDone'
    BY <2>2, <2>3, <2>8 DEF DrainMeansDone, Free, SlotTaken
  <2> QED BY <2>7, <2>9
<1>7. CASE drainAll
  <2>1. /\ async' = async /\ open' = open /\ call'.op = "drain" /\ call'.late = open \ async
        /\ state' = "busy" /\ state # "busy" /\ overrun' = overrun /\ pendingIos' = pendingIos
    BY <1>7 DEF drainAll, Start, driver, Free
  <2>2. Older' = Older
    BY <2>1 DEF Older, Draining
  <2> QED BY <1>1, <2>1, <2>2 DEF Pending, DrainMeansDone, Free
<1>8. CASE pollAny
  <2>1. /\ call' = call /\ call.op = "drain" /\ state = "busy" /\ overrun' = overrun
        /\ open' = open \ {cqe.cmd} /\ pendingIos' = pendingIos \ {SlotOf(cqe.cmd.id)}
        /\ \/ pendingIos' = {} /\ async' = {} /\ state' # "busy"
           \/ pendingIos' # {} /\ async' = async /\ state' = "busy"
    BY <1>8 DEF pollAny, Drained, Return, driver, popIoCqe
  <2>2. cqe.cmd \in call.own \cup call.late /\ call.own = async
    BY <1>8, <2>1, HeadIsOpen DEF pollAny, Answered, InFlight
  <2>3. ASSUME NEW c \in async \cap open', \A d \in call.late : SlotOf(d.id) # SlotOf(c.id)
        PROVE  SlotOf(c.id) \in pendingIos'
    <3>1. c # cqe.cmd /\ c \in open
      BY <2>1, <2>3
    <3>2. SlotOf(c.id) \in pendingIos
      BY <1>1, <2>1, <2>3, <3>1 DEF Pending, Older, Draining
    <3>3. ASSUME SlotOf(cqe.cmd.id) = SlotOf(c.id) PROVE FALSE
      <4>1. cqe.cmd \in async
        BY <2>2, <2>3, <3>3
      <4>2. cqe.cmd = c
        BY <2>3, <3>3, <4>1, AsyncSlots
      <4> QED BY <3>1, <4>2
    <3> QED BY <2>1, <3>2, <3>3
  <2>4. CASE pendingIos' = {} /\ async' = {} /\ state' # "busy"
    <3>1. SlotTaken' \/ call.own \cap open' = {}
      BY <2>1, <2>2, <2>3, <2>4 DEF SlotTaken
    <3> QED BY <2>1, <2>4, <3>1 DEF DrainMeansDone
  <2>5. CASE pendingIos' # {} /\ async' = async /\ state' = "busy"
    <3>1. Older' = call.late
      BY <2>1, <2>5 DEF Older, Draining
    <3> QED BY <2>3, <2>5, <3>1 DEF Pending, DrainMeansDone, Free
  <2> QED BY <2>1, <2>4, <2>5
<1>9. CASE UNCHANGED <<call, async, state, open, pendingIos, overrun>>
  BY <1>1, <1>9 DEF Pending, Older, Draining, DrainMeansDone, Free, SlotTaken
<1>10. ASSUME NEW c \in running, NEW ok \in BOOLEAN, Complete(c, ok)
       PROVE  UNCHANGED <<call, async, state, open, pendingIos, overrun>>
  BY <1>10 DEF Complete, driver, answer
<1>11. PollEmpty \/ Fetch \/ NoCall \/ UNCHANGED vars
       => UNCHANGED <<call, async, state, open, pendingIos, overrun>>
  BY DEF PollEmpty, Fetch, NoCall, vars, driver, answer
<1> QED BY <1>3, <1>4, <1>5, <1>6, <1>7, <1>8, <1>9, <1>10, <1>11
        DEF Drains, Next, Calls, Loops, Device, readSectors, writeSectors, flush

LEMMA DrainsInit == Init => Drains
  BY DEF Init, Drains, DrainMeansDone

(* When drainAll returns, its reads are done: by IInv a completion taken   *)
(* while it polls belongs to one of them or to a late command, by InFlight *)
(* those of its reads clear no slot but their own.                         *)
THEOREM DrainIsComplete == Spec => []DrainMeansDone
<1>1. Init => InFlight /\ Drains
  BY InFlightInit, DrainsInit
<1>2. IInv /\ InFlight /\ Drains /\ [Next]_vars => InFlight' /\ Drains'
  BY InFlightNext, DrainsNext DEF IInv
<1>3. Drains => DrainMeansDone
  BY DEF Drains, DrainMeansDone
<1> QED BY <1>1, <1>2, <1>3, Invariance, PTL DEF Spec
-----------------------------------------------------------------------------
(* Whose data a call moved.  The parts of the DMA buffer tell the commands *)
(* of a call apart; only its own commands and late reads of the same part, *)
(* which the property excepts, write to a part it uses.                    *)
Calling == call.op \in {"one", "batch"}
NoLateRead == \A c \in call.own, d \in call.late : d.kind = "read" => d.part # c.part
Trusted == Calling /\ state # "failed" /\ ~overrun /\ ~Mistakable /\ NoLateRead

InBuffer(c) == dma[c.part] = c.id
Right(g) == g.data = g.cmd.id /\ (g.ok /\ g.cmd.kind = "read" => InBuffer(g.cmd))

Parted ==
    /\ \A c \in async : c.part = 0
    /\ Calling => /\ open \subseteq call.own \cup call.late \cup async
                  /\ \A c \in call.own : c.part # 0
                  /\ \A c, d \in call.own : c.part = d.part => c = d

NoErrors == state = "ok" \/ (call.op = "batch" /\ ~err)

Moves ==
    /\ \A c \in call.own : c.kind = "write" => InBuffer(c)
    /\ \A i \in Slot : Posted(i) /\ cq[i].cmd \in call.own => Right(cq[i])
    /\ \A g \in got : Right(g) /\ (NoErrors => g.ok)
    /\ call.op = "one" /\ state = "busy" => got = {}

Moving == Parted /\ (Trusted => Moves)

LEMMA MovingInit == Init => Moving
  BY DEF Init, Moving, Parted, Trusted, Calling

LEMMA PartedNext == ASSUME TypeOK, InFlight, Parted, [Next]_vars PROVE Parted'
<1>1. ASSUME NEW k, Waiting(k) PROVE Parted'
  <2> DEFINE c == Cmd(issued, k, 1)
  <2>1. c.part = 1
    BY DEF Cmd
  <2>2. /\ async' = {} /\ call'.own = {c} /\ call'.late = open
        /\ open' = open \cup {c}
    BY <1>1 DEF Waiting, Start, ioSubmit, ioSubmitOne
  <2> HIDE DEF c
  <2> QED BY <2>1, <2>2 DEF Parted
<1>2. ASSUME NEW n \in Part, readSectorsBatch(n) PROVE Parted'
  <2>1. async' = {} /\ call'.own = BatchOf(n) /\ call'.late = open /\ open' = open
    BY <1>2 DEF readSectorsBatch, Start
  <2>2. \A c \in BatchOf(n) : c.part \in 1 .. n /\ c = Cmd(issued + c.part - 1, "read", c.part)
    BY DEF BatchOf, Cmd
  <2>3. \A c \in BatchOf(n) : c.part # 0
    BY <2>2 DEF Part
  <2>4. \A c, d \in BatchOf(n) : c.part = d.part => c = d
    BY <2>2
  <2> QED BY <2>1, <2>3, <2>4 DEF Parted
<1>3. CASE BatchAdd
  <2>1. PICK c \in call.own : open' = open \cup {c}
    BY <1>3 DEF BatchAdd, Unsent, ioSubmitOne
  <2>2. call' = call /\ async' = async
    BY <1>3 DEF BatchAdd
  <2> QED BY <2>1, <2>2 DEF Parted, Calling
<1>4. CASE readAsync
  <2> DEFINE c == Cmd(issued, "read", 0)
  <2>1. c.part = 0
    BY DEF Cmd
  <2>2. async' = async \cup {c} /\ open' = open \cup {c} /\ call' = call
    BY <1>4 DEF readAsync, ioSubmit, ioSubmitOne
  <2> HIDE DEF c
  <2> QED BY <2>1, <2>2 DEF Parted, Calling
<1>5. CASE drainAll
  <2>1. call'.op = "drain" /\ async' = async
    BY <1>5 DEF drainAll, Start
  <2> QED BY <2>1 DEF Parted, Calling
<1>6. CASE pollAny
  <2>1. call.op = "drain" /\ call' = call /\ async' \in {{}, async}
    BY <1>6 DEF pollAny, Drained
  <2> QED BY <2>1 DEF Parted, Calling
<1>7. CASE ioCompleteFor \/ BatchCollect \/ TimeOut \/ PollEmpty
  <2>1. open' \subseteq open /\ call' = call /\ async' = async
    BY <1>7 DEF ioCompleteFor, BatchCollect, TimeOut, PollEmpty, popIoCqe
  <2> QED BY <2>1 DEF Parted, Calling
<1>8. CASE Device \/ NoCall \/ UNCHANGED vars
  <2>1. open' = open /\ call' = call /\ async' = async
    BY <1>8 DEF Device, Fetch, Complete, NoCall, vars
  <2> QED BY <2>1 DEF Parted, Calling
<1> QED BY <1>1, <1>2, <1>3, <1>4, <1>5, <1>6, <1>7, <1>8
        DEF Next, Calls, Loops, readSectors, writeSectors, flush

(* A call begins: none of its commands has been completed yet, for those   *)
(* that were are older.                                                    *)
LEMMA MovesStart ==
    ASSUME IInv, NEW op, NEW own, NEW late, Start(op, own, late), UNCHANGED <<ring, device>>,
           ~overrun, \A c \in own : c.id \in Nat /\ c.id >= issued,
           \A c \in own : c.kind = "write" => InBuffer(c)'
    PROVE  Moves'
<1>1. call'.own = own /\ got' = {}
  BY DEF Start
<1>2. \A i \in Slot : Posted(i)' <=> Posted(i)
  BY DEF Posted, ring, device
<1>3. \A i \in Slot : Posted(i) => cq[i].cmd \notin own
  <2>1. \A i \in Slot : Posted(i) => cq[i].cmd.id < issued /\ cq[i].cmd.id \in Nat
    BY DEF IInv, Placed, Places, TypeOK, Command
  <2> QED BY <2>1 DEF IInv, TypeOK
<1>4. cq' = cq
  BY DEF device
<1> QED BY <1>1, <1>2, <1>3, <1>4 DEF Moves

(* The call has nothing new.                                               *)
LEMMA MovesKept ==
    ASSUME Moving, Trusted', UNCHANGED <<call, answer, ring, cq, cqTail, devPhase, dma>>,
           overrun => overrun'
    PROVE  Moves'
<1>1. Trusted
  BY DEF Trusted, Calling, Mistakable, NoLateRead, answer
<1>2. Moves
  BY <1>1 DEF Moving
<1>3. \A i \in Slot : Posted(i)' <=> Posted(i)
  BY DEF Posted, ring
<1>4. \A c : InBuffer(c)' <=> InBuffer(c)
  BY DEF InBuffer
<1>5. \A g : Right(g)' <=> Right(g)
  BY <1>4 DEF Right
<1>6. NoErrors' <=> NoErrors
  BY DEF NoErrors, answer
<1>7. UNCHANGED <<call, cq, got, state>>
  BY DEF answer
<1> QED BY <1>2, <1>3, <1>4, <1>5, <1>6, <1>7 DEF Moves

(* A command completes.  If it is the call's, it leaves its data in a part *)
(* no other command of the call uses; if not, it touches none of them.     *)
LEMMA MovesComplete ==
    ASSUME IInv, Moving, Trusted', NEW c \in running, NEW ok \in BOOLEAN, Complete(c, ok)
    PROVE  Moves'
<1>1. UNCHANGED <<call, answer, overrun>>
  BY DEF Complete, driver
<1>2. Trusted /\ Moves /\ Calling
  BY <1>1 DEF Trusted, Calling, Mistakable, NoLateRead, answer, Moving
<1>3. c \in open /\ c \in Command /\ call.own \subseteq Command
  BY <1>2 DEF Trusted, IInv, Placed, Places, TypeOK
<1>4. \A d \in call.own : d.part \in Part
  BY <1>2, <1>3 DEF Moving, Parted, Command, Part
<1>5. /\ dma \in [Part -> Nat] /\ dma' \in [Part -> Nat]
      /\ dma' = IF ok /\ c.kind = "read" /\ c.part # 0 THEN [dma EXCEPT ![c.part] = c.id] ELSE dma
  <2>1. IInv => TypeOK
    BY DEF IInv
  <2> QED BY <1>3, <2>1 DEF TypeOK, Complete, Command
<1>6. ASSUME NEW d \in call.own, d # c, InBuffer(d) PROVE InBuffer(d)'
  <2>1. ok /\ c.kind = "read" /\ c.part # 0 => c.part # d.part
    BY <1>2, <1>3, <1>6 DEF Moving, Parted, Trusted, NoLateRead
  <2> QED BY <1>4, <1>5, <1>6, <2>1 DEF InBuffer
<1>7. c \in call.own /\ ok /\ c.kind = "read" => InBuffer(c)'
  BY <1>4, <1>5 DEF InBuffer, Part
<1>8. c \in call.own /\ c.kind = "write" /\ InBuffer(c) => InBuffer(c)'
  BY <1>5 DEF InBuffer
<1>9. ASSUME NEW g, g.cmd \in call.own, g.cmd # c, Right(g) PROVE Right(g)'
  BY <1>6, <1>9 DEF Right
<1>10. ASSUME NEW g, g.cmd = c, c \in call.own, Right(g) PROVE Right(g)'
  <2>1. g.ok /\ c.kind = "read" => InBuffer(c)'
    BY <1>5, <1>4, <1>10 DEF InBuffer, Right
  <2> QED BY <1>10, <2>1 DEF Right
<1>11. \A d \in call.own : d.kind = "write" => InBuffer(d)'
  BY <1>2, <1>6, <1>8 DEF Moves
<1>12. PICK e \in Completion : /\ cq' = [cq EXCEPT ![cqTail] = e]
                               /\ e.cmd = c /\ e.ok = ok /\ e.data = Moved(c)
  <2> DEFINE f == Cqe(c, ok, devPhase, Moved(c))
  <2>1. Moved(c) \in Nat /\ devPhase \in {0, 1}
    <3>1. c.id \in Nat /\ c.part \in 0 .. Depth - 1 /\ (c.part = 0 => c.kind # "write")
      BY <1>3 DEF Command
    <3> QED BY <1>5, <3>1, QueueAssumption DEF Moved, IInv, TypeOK, Part
  <2>2. f \in Completion
    BY <1>3, <2>1, CqeType
  <2>3. f.ok = ok /\ f.cmd = c /\ f.data = Moved(c)
    BY DEF Cqe
  <2>4. cq' = [cq EXCEPT ![cqTail] = f]
    BY DEF Complete
  <2> HIDE DEF f
  <2> QED BY <2>2, <2>3, <2>4
<1>13. c \in call.own => Right(e)'
  <2>1. c \in call.own => Moved(c) = c.id
    BY <1>2 DEF Moved, Moves, InBuffer
  <2> QED BY <1>7, <1>12, <2>1 DEF Right
<1>14. /\ \A i \in Slot : Posted(i)' <=> Posted(i) \/ i = cqTail
       /\ \A i \in Slot : cq'[i] = IF i = cqTail THEN e ELSE cq[i]
  BY <1>12, RingComplete DEF IInv, TypeOK
<1>15. ASSUME NEW i \in Slot, Posted(i)', cq'[i].cmd \in call.own PROVE Right(cq[i])'
  <2>1. CASE i = cqTail
    <3>1. cq'[i] = e /\ c \in call.own
      BY <1>12, <1>14, <1>15, <2>1
    <3> QED BY <1>13, <3>1 DEF Right, InBuffer
  <2>2. CASE i # cqTail
    <3>1. PICK g : g = cq[i] /\ g = cq'[i]
      BY <1>14, <2>2
    <3>2. Right(g) /\ g.cmd \in call.own
      BY <1>2, <1>14, <1>15, <2>2, <3>1 DEF Moves
    <3>3. Right(g)'
      BY <1>9, <1>10, <3>2
    <3> QED BY <3>1, <3>3 DEF Right, InBuffer
  <2> QED BY <2>1, <2>2
<1>16. \A g \in got : Right(g)' /\ (NoErrors' => g.ok)
  <2>1. \A g \in got : g.cmd \in call.own
    <3>1. got # {} => Taken \subseteq call.own
      BY <1>2 DEF IInv, Answered, Trusted, Calling, Moves, TypeOK
    <3> QED BY <3>1 DEF Taken
  <2>2. NoErrors' <=> NoErrors
    BY <1>1 DEF NoErrors, answer
  <2> QED BY <1>2, <1>9, <1>10, <2>1, <2>2 DEF Moves
<1>17. call' = call /\ got' = got /\ state' = state
  BY <1>1 DEF answer
<1> QED BY <1>2, <1>11, <1>15, <1>16, <1>17 DEF Moves

(* The driver takes a completion, and it is one of the call's commands or  *)
(* the call has no use for it.                                             *)
LEMMA MovesTake ==
    ASSUME IInv, Answered', Moving, Trusted', ioCompleteFor \/ BatchCollect
    PROVE  Moves'
<1>1. /\ popIoCqe /\ UNCHANGED <<call, cq, dma, device, overrun>>
      /\ state = "busy" /\ call.op \in {"one", "batch"}
  BY DEF ioCompleteFor, BatchCollect, driver, device
<1>2. Moves
  BY <1>1 DEF Moving, Trusted, Calling, Mistakable, NoLateRead
<1>3. Posted(ioCqHead) /\ \A i \in Slot : Posted(i)' => Posted(i)
  BY <1>1, RingPop DEF IInv
<1>4. cqe.cmd \in call.own => Right(cqe)
  BY <1>2, <1>3 DEF Moves, cqe, IInv, TypeOK
<1>5. \A g : Right(g)' <=> Right(g)
  BY <1>1 DEF Right, InBuffer
<1>6. ASSUME /\ \A g \in got' : Right(g) /\ (NoErrors' => g.ok)
             /\ call.op = "one" /\ state' = "busy" => got' = {}
      PROVE  Moves'
  <2>1. \A c \in call.own : c.kind = "write" => InBuffer(c)'
    BY <1>1, <1>2 DEF Moves, InBuffer
  <2>2. \A i \in Slot : Posted(i)' /\ cq[i].cmd \in call.own => Right(cq[i])
    BY <1>2, <1>3 DEF Moves
  <2> QED BY <1>1, <1>5, <1>6, <2>1, <2>2 DEF Moves, Right, InBuffer
<1>7. Taken' = IF state' = "ok" /\ call.op = "one" THEN call.own
               ELSE IF call.op = "batch" THEN call.own \ left' ELSE Taken'
  BY <1>1 DEF Answered, Trusted
<1>8. CASE UNCHANGED answer
  BY <1>1, <1>2, <1>6, <1>8 DEF answer, Moves, NoErrors
<1>9. CASE ioCompleteFor /\ ~UNCHANGED answer
  <2>1. call.op = "one" /\ Return(cqe.ok) /\ got' = {cqe}
    BY <1>9 DEF ioCompleteFor
  <2>2. state' = "ok" /\ cqe.ok
    BY <2>1 DEF Return, Trusted
  <2>3. Taken' = {cqe.cmd}
    BY <2>1 DEF Taken
  <2>4. Right(cqe)
    BY <1>4, <1>7, <2>1, <2>2, <2>3
  <2> QED BY <1>6, <2>1, <2>2, <2>4
<1>10. CASE BatchCollect /\ ~UNCHANGED answer
  <2>1. /\ call.op = "batch" /\ got' = got \cup {cqe} /\ err' = (err \/ ~cqe.ok)
        /\ Return(~err /\ cqe.ok) \/ UNCHANGED state
    BY <1>10 DEF BatchCollect
  <2>2. Right(cqe)
    <3>1. cqe.cmd \in Taken'
      BY <2>1 DEF Taken
    <3> QED BY <1>4, <1>7, <2>1, <3>1
  <2>3. err \in BOOLEAN /\ cqe.ok \in BOOLEAN
    BY <1>1, TypePop DEF IInv, TypeOK
  <2>4. NoErrors' => ~err /\ cqe.ok
    BY <1>1, <2>1, <2>3 DEF NoErrors, Return
  <2> QED BY <1>2, <1>6, <2>1, <2>2, <2>4 DEF Moves, NoErrors
<1> QED BY <1>8, <1>9, <1>10

LEMMA MovingNext == ASSUME IInv, Answered', InFlight, Moving, [Next]_vars PROVE Moving'
<1> SUFFICES ASSUME Trusted' PROVE Moves'
  BY PartedNext DEF Moving, IInv
<1>1. ASSUME NEW k, Waiting(k), k = "write" => dma' = [dma EXCEPT ![1] = issued] PROVE Moves'
  <2>0. PICK c : c = Cmd(issued, k, 1)
    OBVIOUS
  <2>1. c.id = issued /\ c.part = 1 /\ c.kind = k
    BY <2>0 DEF Cmd
  <2>2. Start("one", {c}, open) /\ ioSubmitOne(c) /\ UNCHANGED <<ring, device>>
    BY <1>1, <2>0 DEF Waiting, ioSubmit
  <2>3. issued \in Nat /\ dma \in [Part -> Nat]
    BY DEF IInv, TypeOK
  <2>4. ~overrun
    BY <2>2 DEF Trusted, ioSubmitOne
  <2>5. c.kind = "write" => InBuffer(c)'
    BY <1>1, <2>1, <2>3, Parts DEF InBuffer
  <2> QED BY <2>1, <2>2, <2>3, <2>4, <2>5, MovesStart
<1>2. ASSUME NEW n \in Part, readSectorsBatch(n) PROVE Moves'
  <2>1. \A c \in BatchOf(n) : c.id \in Nat /\ c.id >= issued /\ c.kind = "read"
    BY DEF BatchOf, Cmd, IInv, TypeOK
  <2>2. Start("batch", BatchOf(n), open) /\ UNCHANGED <<ring, device>> /\ ~overrun
    BY <1>2 DEF readSectorsBatch, driver, Trusted
  <2> QED BY <2>1, <2>2, MovesStart
<1>3. CASE UNCHANGED <<call, answer, ring, cq, cqTail, devPhase, dma>> /\ (overrun => overrun')
  BY <1>3, MovesKept
<1>4. BatchAdd => UNCHANGED <<call, answer, ring, cq, cqTail, devPhase, dma>> /\ (overrun => overrun')
  BY DEF BatchAdd, ioSubmitOne, device
<1>5. readAsync => UNCHANGED <<call, answer, ring, cq, cqTail, devPhase, dma>> /\ (overrun => overrun')
  BY DEF readAsync, ioSubmit, ioSubmitOne, device
<1>6. Fetch \/ NoCall \/ UNCHANGED vars
      => UNCHANGED <<call, answer, ring, cq, cqTail, devPhase, dma>> /\ (overrun => overrun')
  BY DEF Fetch, NoCall, vars, driver, device
<1>7. ~TimeOut
  BY DEF TimeOut, Return, Trusted
<1>8. ~drainAll /\ ~pollAny /\ ~PollEmpty
  BY DEF drainAll, Start, pollAny, PollEmpty, Trusted, Calling
<1>9. CASE readSectors \/ writeSectors \/ flush
  BY <1>1, <1>9 DEF readSectors, writeSectors, flush
<1> QED BY <1>2, <1>3, <1>4, <1>5, <1>6, <1>7, <1>8, <1>9, MovesTake, MovesComplete
        DEF Next, Calls, Loops, Device

(* When a call succeeds, the data it moved is its own: what it read is in  *)
(* the buffer, and what it wrote is what its caller had put there, for any *)
(* late commands but reads into the same part of the buffer.               *)
THEOREM SuccessMovedOwnData == Spec => []DataIsOwn
<1>1. Init => InFlight /\ Moving
  BY InFlightInit, MovingInit
<1>2. IInv /\ IInv' /\ InFlight /\ Moving /\ [Next]_vars => InFlight' /\ Moving'
  BY InFlightNext, MovingNext DEF IInv
<1>3. Moving => DataIsOwn
  <2> SUFFICES ASSUME Moving, Succeeded, ~Mistakable, NoLateRead
               PROVE  \A g \in got : g.data = g.cmd.id /\ (g.cmd.kind = "read" => InBuffer(g.cmd))
    BY DEF DataIsOwn, NoLateRead, InBuffer
  <2>1. Trusted /\ NoErrors
    BY DEF Succeeded, Trusted, Calling, NoErrors
  <2> QED BY <2>1 DEF Moving, Moves, Right
<1> QED BY <1>1, <1>2, <1>3, Invariance, PTL DEF Spec

-----------------------------------------------------------------------------
(* The TCP client.  What a segment is, and the types.                      *)
Flag == {"SYN", "ACK", "FIN", "RST"}
SegmentType == [flags : SUBSET Flag, seq : Nat, ack : Nat, len : {0, 1}]

TcpTypeOK ==
    /\ step \in {"connect", "send", "recv", "close", "end"}
    /\ waiting \in BOOLEAN /\ pendingFin \in BOOLEAN
    /\ connState \in {"Closed", "SynSent", "Established", "FinWait"}
    /\ seq \in Nat /\ ack \in Nat /\ una \in Nat /\ nxt \in Nat /\ rcvNxt \in Nat
    /\ faults \in Nat /\ acks \in Nat
    /\ waitTimer \in 0 .. MaxTimer
    /\ delivered \in Seq(Nat)
    /\ why \in {"none", "timeout", "fin", "decoded"}
    /\ toPeer \in Seq(SegmentType) /\ toClient \in Seq(SegmentType)
    /\ peer \in {"listen", "synReceived", "established", "finWithData", "fin", "reset"}
    /\ lost \in BOOLEAN /\ repeated \in BOOLEAN /\ reordered \in BOOLEAN

(* The network's operations on a queue: what stays in it, and in which     *)
(* order.                                                                  *)
LEMMA InSet ==
    ASSUME NEW S, NEW q \in Seq(S)
    PROVE  /\ Len(q) \in Nat /\ DOMAIN q = 1 .. Len(q)
           /\ \A i \in 1 .. Len(q) : q[i] \in ToSet(q)
           /\ \A s \in ToSet(q) : s \in S /\ \E i \in 1 .. Len(q) : s = q[i]
<1>1. Len(q) \in Nat /\ DOMAIN q = 1 .. Len(q) /\ q \in [1 .. Len(q) -> S]
  BY LenProperties
<1> QED
  BY <1>1 DEF ToSet

LEMMA Queues ==
    ASSUME TcpTypeOK
    PROVE  toClient \in Seq(SegmentType) /\ toPeer \in Seq(SegmentType) /\ delivered \in Seq(Nat)
  BY DEF TcpTypeOK

LEMMA Appended ==
    ASSUME NEW S, NEW q \in Seq(S), NEW e \in S
    PROVE  /\ Append(q, e) \in Seq(S) /\ Len(Append(q, e)) = Len(q) + 1
           /\ \A i \in 1 .. Len(q) : Append(q, e)[i] = q[i]
           /\ Append(q, e)[Len(q) + 1] = e
           /\ ToSet(Append(q, e)) = ToSet(q) \cup {e}
<1>1. /\ Append(q, e) \in Seq(S) /\ Len(Append(q, e)) = Len(q) + 1
      /\ \A i \in 1 .. Len(q) : Append(q, e)[i] = q[i]
      /\ Append(q, e)[Len(q) + 1] = e
  BY AppendProperties
<1>2. Len(q) \in Nat /\ DOMAIN q = 1 .. Len(q)
  BY LenProperties
<1>3. DOMAIN Append(q, e) = 1 .. Len(q) + 1
  BY <1>1, LenProperties
<1>4. 1 .. Len(q) + 1 = (1 .. Len(q)) \cup {Len(q) + 1}
  BY <1>2
<1> QED
  BY <1>1, <1>2, <1>3, <1>4 DEF ToSet

LEMMA HeadTaken ==
    ASSUME NEW S, NEW q \in Seq(S), q # <<>>
    PROVE  /\ Head(q) \in ToSet(q) /\ Head(q) \in S /\ Head(q) = q[1] /\ 1 \in 1 .. Len(q)
           /\ Tail(q) \in Seq(S) /\ Len(Tail(q)) = Len(q) - 1
           /\ \A i \in 1 .. Len(Tail(q)) : Tail(q)[i] = q[i + 1]
           /\ ToSet(q) = ToSet(Tail(q)) \cup {Head(q)}
<1>1. Len(q) \in Nat \ {0} /\ DOMAIN q = 1 .. Len(q)
  BY EmptySeq, LenProperties
<1>2. /\ Head(q) = q[1] /\ Tail(q) \in Seq(S) /\ Len(Tail(q)) = Len(q) - 1
      /\ \A i \in 1 .. Len(Tail(q)) : Tail(q)[i] = q[i + 1]
      /\ Head(q) \in S
  BY HeadTailProperties
<1>3. DOMAIN Tail(q) = 1 .. Len(q) - 1
  BY <1>2, LenProperties
<1>4. ASSUME NEW i \in 1 .. Len(q), i # 1 PROVE q[i] \in ToSet(Tail(q))
  <2>1. i - 1 \in 1 .. Len(q) - 1 /\ (i - 1) + 1 = i
    BY <1>1, <1>4
  <2> QED
    BY <2>1, <1>2, <1>3 DEF ToSet
<1>5. ASSUME NEW i \in 1 .. Len(q) - 1 PROVE Tail(q)[i] \in ToSet(q)
  <2>1. i + 1 \in 1 .. Len(q)
    BY <1>1, <1>5
  <2> QED
    BY <2>1, <1>1, <1>2 DEF ToSet
<1> QED
  BY <1>1, <1>2, <1>3, <1>4, <1>5 DEF ToSet

LEMMA Removed ==
    ASSUME NEW S, NEW q \in Seq(S), NEW k \in 1 .. Len(q)
    PROVE  /\ RemoveAt(q, k) \in Seq(S) /\ Len(RemoveAt(q, k)) = Len(q) - 1
           /\ \A i \in 1 .. Len(q) - 1 : RemoveAt(q, k)[i] = IF i < k THEN q[i] ELSE q[i + 1]
           /\ ToSet(q) = ToSet(RemoveAt(q, k)) \cup {q[k]}
<1>1. Len(q) \in Nat /\ DOMAIN q = 1 .. Len(q) /\ \A i \in 1 .. Len(q) : q[i] \in S
  BY LenProperties
<1> DEFINE a == SubSeq(q, 1, k - 1)
           b == SubSeq(q, k + 1, Len(q))
           r == RemoveAt(q, k)
<1>2. a \in Seq(S) /\ Len(a) = k - 1 /\ \A i \in 1 .. k - 1 : a[i] = q[i]
  <2>1. \A i \in 1 .. k - 1 : q[i] \in S
    BY <1>1
  <2>2. /\ a \in Seq(S) /\ Len(a) = IF 1 <= k - 1 THEN (k - 1) - 1 + 1 ELSE 0
        /\ \A i \in 1 .. (k - 1) - 1 + 1 : a[i] = q[1 + i - 1]
    <3>1. 1 \in Int /\ k - 1 \in Int
      OBVIOUS
    <3> QED
      BY <2>1, <3>1, SubSeqProperties
  <2> QED
    BY <2>2
<1>3. b \in Seq(S) /\ Len(b) = Len(q) - k /\ \A i \in 1 .. Len(q) - k : b[i] = q[k + i]
  <2> DEFINE m == k + 1
  <2>1. m \in Int /\ m = k + 1 /\ b = SubSeq(q, m, Len(q)) /\ Len(q) \in Int
    BY <1>1
  <2> HIDE DEF m, b
  <2>2. \A i \in m .. Len(q) : q[i] \in S
    BY <1>1, <2>1
  <2>3. /\ b \in Seq(S) /\ Len(b) = IF m <= Len(q) THEN Len(q) - m + 1 ELSE 0
        /\ \A i \in 1 .. Len(q) - m + 1 : b[i] = q[m + i - 1]
    BY <2>1, <2>2, SubSeqProperties
  <2>4. ASSUME NEW i \in 1 .. Len(q) - k PROVE i \in 1 .. Len(q) - m + 1 /\ m + i - 1 = k + i
    BY <1>1, <2>1
  <2>5. Len(b) = Len(q) - k
    <3>1. Len(b) = IF m <= Len(q) THEN Len(q) - m + 1 ELSE 0
      BY <2>3
    <3>2. k \in Nat /\ k <= Len(q)
      BY <1>1
    <3> QED
      BY <2>1, <3>1, <3>2
  <2> QED
    BY <2>3, <2>4, <2>5
<1>a. r = a \o b
  BY DEF RemoveAt
<1> HIDE DEF a, b, r
<1>4. /\ r \in Seq(S) /\ Len(r) = Len(a) + Len(b)
      /\ \A i \in 1 .. Len(a) + Len(b) : r[i] = IF i <= Len(a) THEN a[i] ELSE b[i - Len(a)]
  BY <1>a, <1>2, <1>3, ConcatProperties
<1>5. Len(r) = Len(q) - 1 /\ DOMAIN r = 1 .. Len(q) - 1
  BY <1>1, <1>2, <1>3, <1>4, LenProperties
<1>6. ASSUME NEW i \in 1 .. Len(q) - 1 PROVE r[i] = IF i < k THEN q[i] ELSE q[i + 1]
  <2>0. i \in 1 .. Len(a) + Len(b) /\ Len(a) = k - 1 /\ k \in Nat /\ i \in Nat
    BY <1>1, <1>2, <1>3
  <2>1. CASE i < k
    <3>1. i <= Len(a) /\ i \in 1 .. k - 1
      BY <2>0, <2>1
    <3> QED
      BY <2>0, <2>1, <3>1, <1>2, <1>4
  <2>2. CASE ~(i < k)
    <3>1. i - (k - 1) \in 1 .. Len(q) - k /\ k + (i - (k - 1)) = i + 1
      BY <2>2, <1>1
    <3>2. ~(i <= Len(a)) /\ r[i] = b[i - Len(a)]
      BY <2>2, <2>0, <1>4
    <3> QED
      BY <2>0, <3>1, <3>2, <2>2, <1>3
  <2> QED
    BY <2>1, <2>2
<1>7. ASSUME NEW i \in 1 .. Len(q), i # k PROVE q[i] \in ToSet(r)
  <2>1. CASE i < k
    <3>1. i \in 1 .. Len(q) - 1 /\ r[i] = q[i]
      BY <2>1, <1>1, <1>6
    <3> QED
      BY <3>1, <1>5 DEF ToSet
  <2>2. CASE i > k
    <3>1. i - 1 \in 1 .. Len(q) - 1 /\ (i - 1) + 1 = i /\ ~(i - 1 < k)
      BY <2>2, <1>1
    <3>2. r[i - 1] = q[i]
      BY <3>1, <1>6
    <3> QED
      BY <3>1, <3>2, <1>5 DEF ToSet
  <2> QED
    BY <2>1, <2>2, <1>7
<1>8. ASSUME NEW i \in 1 .. Len(q) - 1 PROVE r[i] \in ToSet(q)
  <2>1. i \in 1 .. Len(q) /\ i + 1 \in 1 .. Len(q)
    BY <1>1
  <2> QED
    BY <2>1, <1>1, <1>6 DEF ToSet
<1>9. ToSet(q) = ToSet(r) \cup {q[k]}
  BY <1>1, <1>5, <1>7, <1>8 DEF ToSet
<1> QED
  BY <1>4, <1>5, <1>6, <1>9 DEF r

LEMMA SwappedTwo ==
    ASSUME NEW S, NEW q \in Seq(S), NEW k \in 1 .. Len(q) - 1
    PROVE  /\ Swapped(q, k) \in Seq(S) /\ Len(Swapped(q, k)) = Len(q)
           /\ \A i \in 1 .. Len(q) :
                 Swapped(q, k)[i] = IF i = k THEN q[k + 1] ELSE IF i = k + 1 THEN q[k] ELSE q[i]
           /\ ToSet(Swapped(q, k)) = ToSet(q)
<1>1. Len(q) \in Nat /\ DOMAIN q = 1 .. Len(q) /\ q \in [1 .. Len(q) -> S]
  BY LenProperties
<1>2. k \in 1 .. Len(q) /\ k + 1 \in 1 .. Len(q) /\ k # k + 1
  BY <1>1
<1> DEFINE f == [q EXCEPT ![k] = q[k + 1]]
           r == Swapped(q, k)
<1>3. q[k] \in S /\ q[k + 1] \in S
  BY <1>1, <1>2
<1>4. f \in Seq(S) /\ Len(f) = Len(q) /\ \A i \in 1 .. Len(q) : f[i] = IF i = k THEN q[k + 1] ELSE q[i]
  BY <1>2, <1>3, ExceptSeq
<1>5. r = [f EXCEPT ![k + 1] = q[k]]
  BY DEF Swapped
<1> HIDE DEF f
<1>6. /\ r \in Seq(S) /\ Len(r) = Len(f)
      /\ \A i \in 1 .. Len(f) : r[i] = IF i = k + 1 THEN q[k] ELSE f[i]
  <2>1. k + 1 \in 1 .. Len(f)
    BY <1>2, <1>4
  <2> QED
    BY <2>1, <1>3, <1>4, <1>5, ExceptSeq
<1> HIDE DEF r
<1>7. /\ r \in Seq(S) /\ Len(r) = Len(q)
      /\ \A i \in 1 .. Len(q) : r[i] = IF i = k THEN q[k + 1] ELSE IF i = k + 1 THEN q[k] ELSE q[i]
  BY <1>2, <1>4, <1>6
<1>8. DOMAIN r = 1 .. Len(q)
  BY <1>7, LenProperties
<1>9. ASSUME NEW i \in 1 .. Len(q) PROVE r[i] \in ToSet(q) /\ q[i] \in ToSet(r)
  <2>1. r[i] \in {q[k], q[k + 1], q[i]}
    BY <1>7
  <2>2. q[i] \in {r[k], r[k + 1], r[i]}
    BY <1>2, <1>7
  <2> QED
    BY <2>1, <2>2, <1>1, <1>2, <1>8 DEF ToSet
<1>10. ToSet(r) = ToSet(q)
  BY <1>1, <1>8, <1>9 DEF ToSet
<1> QED
  BY <1>7, <1>10 DEF r

LEMMA SegmentFacts ==
    ASSUME NEW f \in SUBSET Flag, NEW s \in Nat, NEW a \in Nat, NEW l \in {0, 1}
    PROVE  /\ Segment(f, s, a, l) \in SegmentType
           /\ Segment(f, s, a, l).flags = f /\ Segment(f, s, a, l).seq = s
           /\ Segment(f, s, a, l).ack = a /\ Segment(f, s, a, l).len = l
  BY DEF Segment, SegmentType

(* The effect of an answer of poll: the call goes on with the next one,    *)
(* and may acknowledge a.                                                  *)
Answer(a) == Segment({"ACK"}, seq, a, 0)

Resumed(r, a) ==
    /\ step \in {"connect", "recv", "close"} /\ waiting' = FALSE
    /\ connState' \in {"Closed", "SynSent", "Established", "FinWait"}
    /\ toPeer' = toPeer \/ toPeer' = Append(toPeer, Answer(a))
    /\ step = "connect" => step' \in {"send", "end"} /\ why' = why
    /\ step = "close" => step' = "end" /\ why' = why
    /\ step = "recv" => \/ step' = "recv" /\ why' = why
                        \/ step' = "close" /\ why' \in {"timeout", "decoded"}
                        \/ step' = "close" /\ why' = "fin" /\ r = 2 /\ toPeer' = Append(toPeer, Answer(a))

Kept == UNCHANGED <<step, waiting, connState, why, toPeer>>

LEMMA ReturnsResumes ==
    ASSUME TcpTypeOK, NEW r, NEW a, NEW g, Returns(r, a, g)
    PROVE  Resumed(r, a)
<1>1. CASE ConnectReturns(r, a)
  BY <1>1 DEF Returns, ConnectReturns, sendRaw, Resumed, Answer, TcpTypeOK
<1>2. CASE RecvReturns(r, a, g)
  BY <1>2 DEF Returns, RecvReturns, Leave, sendRaw, Resumed, Answer, TcpTypeOK
<1>3. CASE CloseReturns(a)
  BY <1>3 DEF Returns, CloseReturns, sendRaw, Resumed, Answer, TcpTypeOK
<1> QED
  BY <1>1, <1>2, <1>3 DEF Returns

LEMMA TypeResumed ==
    ASSUME TcpTypeOK, NEW r, NEW a \in Nat, Resumed(r, a) \/ Kept
    PROVE  /\ step' \in {"connect", "send", "recv", "close", "end"}
           /\ waiting' \in BOOLEAN
           /\ connState' \in {"Closed", "SynSent", "Established", "FinWait"}
           /\ why' \in {"none", "timeout", "fin", "decoded"}
           /\ toPeer' \in Seq(SegmentType)
<1>1. Answer(a) \in SegmentType
  BY SegmentFacts DEF Answer, TcpTypeOK, Flag
<1>2. Append(toPeer, Answer(a)) \in Seq(SegmentType)
  BY <1>1, Appended, Queues
<1>3. CASE Resumed(r, a)
  BY <1>2, <1>3 DEF Resumed, TcpTypeOK
<1>4. CASE Kept
  BY <1>4 DEF Kept, TcpTypeOK
<1> QED
  BY <1>3, <1>4

LEMMA HeadOfClient ==
    ASSUME TcpTypeOK, toClient # <<>>
    PROVE  /\ Head(toClient) \in SegmentType /\ Head(toClient) \in ToSet(toClient)
           /\ Head(toClient).seq \in Nat /\ Head(toClient).len \in {0, 1}
           /\ NextAck(Head(toClient)) = Head(toClient).seq + 1
           /\ Tail(toClient) \in Seq(SegmentType)
           /\ ToSet(toClient) = ToSet(Tail(toClient)) \cup {Head(toClient)}
<1>1. /\ Head(toClient) \in SegmentType /\ Head(toClient) \in ToSet(toClient)
      /\ Tail(toClient) \in Seq(SegmentType)
      /\ ToSet(toClient) = ToSet(Tail(toClient)) \cup {Head(toClient)}
  BY HeadTaken, Queues
<1>2. Head(toClient).seq \in Nat /\ Head(toClient).len \in {0, 1}
  BY <1>1 DEF SegmentType
<1> QED
  BY <1>1, <1>2 DEF NextAck

(* The steps of the client that look at the ring of the card, as the       *)
(* proofs below see them.                                                  *)
LEMMA PollSteps ==
    ASSUME TcpTypeOK, poll
    PROVE  /\ UNCHANGED <<seq, peer, una, nxt, rcvNxt, acks, faults, lost, repeated, reordered>>
           /\ \/ /\ UNCHANGED <<ack, delivered, toClient>>
                 /\ \/ pendingFin' = pendingFin /\ (Kept \/ Resumed(-1, ack))
                    \/ pendingFin /\ pendingFin' = FALSE /\ Resumed(2, ack)
              \/ /\ toClient # <<>> /\ ~Accepts(Head(toClient))
                 /\ toClient' = Tail(toClient) /\ Kept
                 /\ UNCHANGED <<ack, delivered, pendingFin>>
              \/ /\ toClient # <<>> /\ ~pendingFin
                 /\ toClient' = Tail(toClient)
                 /\ ack' = NextAck(Head(toClient))
                 /\ delivered' = IF Delivers(Head(toClient)) THEN Append(delivered, Head(toClient).seq) ELSE delivered
                 /\ pendingFin' = (Delivers(Head(toClient)) /\ "FIN" \in Head(toClient).flags)
                 /\ Resumed(Result(Head(toClient)), NextAck(Head(toClient)))
<1> USE DEF server, network
<1>1. CASE PollExpired
  <2>1. Resumed(-1, ack)
    BY <1>1, ReturnsResumes DEF PollExpired
  <2> QED
    BY <1>1, <2>1 DEF PollExpired
<1>2. CASE PollPendingFin
  <2>1. Resumed(2, ack)
    BY <1>2, ReturnsResumes DEF PollPendingFin
  <2> QED
    BY <1>2, <2>1 DEF PollPendingFin
<1>3. CASE PollNoFrame
  <2>1. Kept \/ Resumed(-1, ack)
    <3>1. CASE Tick = 0
      BY <1>3, <3>1, ReturnsResumes DEF PollNoFrame, CountTwice
    <3>2. CASE Tick # 0
      BY <1>3, <3>2 DEF PollNoFrame, CountTwice, Kept
    <3> QED
      BY <3>1, <3>2
  <2> QED
    BY <1>3, <2>1 DEF PollNoFrame
<1>4. CASE PollOther
  BY <1>4 DEF PollOther, Kept, conn
<1>5. CASE PollUnwanted
  BY <1>5 DEF PollUnwanted, Kept, conn
<1>6. CASE PollAccepts
  <2>1. Resumed(Result(Head(toClient)), NextAck(Head(toClient)))
    BY <1>6, ReturnsResumes DEF PollAccepts
  <2> QED
    BY <1>6, <2>1 DEF PollAccepts
<1> QED
  BY <1>1, <1>2, <1>3, <1>4, <1>5, <1>6 DEF poll

LEMMA TimerPoll ==
    ASSUME TcpTypeOK, poll
    PROVE  waitTimer' \in 0 .. MaxTimer
<1> USE TcpAssumption
<1>1. MaxTimer \in Nat
  OBVIOUS
<1>2. Tick \in 0 .. MaxTimer
  BY <1>1 DEF Tick, TcpTypeOK
<1>3. waitTimer' \in {0, waitTimer, MaxTimer, Tick} \/ (Tick # 0 /\ waitTimer' = Tick - 1)
  <2>1. CASE PollNoFrame
    BY <2>1 DEF PollNoFrame, CountTwice
  <2>2. CASE PollExpired
    BY <2>2 DEF PollExpired
  <2>3. CASE PollAccepts
    BY <2>3 DEF PollAccepts
  <2>4. CASE PollPendingFin \/ PollOther \/ PollUnwanted
    BY <2>4 DEF PollPendingFin, PollOther, PollUnwanted
  <2> QED
    BY <2>1, <2>2, <2>3, <2>4 DEF poll
<1>4. waitTimer \in 0 .. MaxTimer
  BY DEF TcpTypeOK
<1> QED
  BY <1>1, <1>2, <1>3, <1>4

LEMMA TypePoll ==
    ASSUME TcpTypeOK, poll
    PROVE  TcpTypeOK'
<1> DEFINE h == Head(toClient)
<1>1. UNCHANGED <<seq, peer, una, nxt, rcvNxt, acks, faults, lost, repeated, reordered>>
  BY PollSteps
<1>2. /\ ack' \in Nat /\ delivered' \in Seq(Nat) /\ pendingFin' \in BOOLEAN
      /\ toClient' \in Seq(SegmentType)
      /\ Kept \/ \E r, a : a \in Nat /\ Resumed(r, a)
  <2>1. ack \in Nat /\ delivered \in Seq(Nat) /\ pendingFin \in BOOLEAN /\ toClient \in Seq(SegmentType)
    BY DEF TcpTypeOK
  <2>2. CASE /\ UNCHANGED <<ack, delivered, toClient>>
             /\ \/ pendingFin' = pendingFin /\ (Kept \/ Resumed(-1, ack))
                \/ pendingFin /\ pendingFin' = FALSE /\ Resumed(2, ack)
    BY <2>1, <2>2
  <2>3. CASE /\ toClient # <<>> /\ ~Accepts(h) /\ toClient' = Tail(toClient) /\ Kept
             /\ UNCHANGED <<ack, delivered, pendingFin>>
    BY <2>1, <2>3, HeadOfClient
  <2>4. CASE /\ toClient # <<>> /\ ~pendingFin
             /\ toClient' = Tail(toClient)
             /\ ack' = NextAck(h)
             /\ delivered' = IF Delivers(h) THEN Append(delivered, h.seq) ELSE delivered
             /\ pendingFin' = (Delivers(h) /\ "FIN" \in h.flags)
             /\ Resumed(Result(h), NextAck(h))
    <3>1. NextAck(h) \in Nat /\ h.seq \in Nat /\ Tail(toClient) \in Seq(SegmentType)
      BY <2>4, HeadOfClient
    <3>2. Append(delivered, h.seq) \in Seq(Nat)
      BY <2>1, <3>1, Appended
    <3>3. pendingFin' \in BOOLEAN
      BY <2>4
    <3> HIDE DEF h
    <3> QED
      BY <2>1, <2>4, <3>1, <3>2, <3>3
  <2> QED
    BY <2>2, <2>3, <2>4, PollSteps
<1>3. /\ step' \in {"connect", "send", "recv", "close", "end"} /\ waiting' \in BOOLEAN
      /\ connState' \in {"Closed", "SynSent", "Established", "FinWait"}
      /\ why' \in {"none", "timeout", "fin", "decoded"}
      /\ toPeer' \in Seq(SegmentType)
  <2>1. CASE Kept
    BY <2>1, TypeResumed
  <2>2. ASSUME NEW r, NEW a \in Nat, Resumed(r, a) PROVE <1>3
    BY <2>2, TypeResumed
  <2> QED
    BY <1>2, <2>1, <2>2
<1> QED
  BY <1>1, <1>2, <1>3, TimerPoll DEF TcpTypeOK

LEMMA TypeCalls ==
    ASSUME TcpTypeOK, connect \/ send \/ recv \/ close
    PROVE  TcpTypeOK'
<1> USE DEF server, network, conn
<1>1. MaxTimer \in 0 .. MaxTimer
  BY TcpAssumption
<1>2. /\ Segment({"SYN"}, 0, 0, 0) \in SegmentType
      /\ Segment({"ACK"}, seq, ack, 1) \in SegmentType
      /\ Segment({"FIN", "ACK"}, seq, ack, 0) \in SegmentType
  BY SegmentFacts DEF TcpTypeOK, Flag
<1>3. /\ Append(toPeer, Segment({"SYN"}, 0, 0, 0)) \in Seq(SegmentType)
      /\ Append(toPeer, Segment({"ACK"}, seq, ack, 1)) \in Seq(SegmentType)
      /\ Append(toPeer, Segment({"FIN", "ACK"}, seq, ack, 0)) \in Seq(SegmentType)
  BY <1>2, Appended, Queues
<1>4. CASE connect
  BY <1>1, <1>3, <1>4 DEF connect, sendRaw, Wait, TcpTypeOK
<1>5. CASE send
  BY <1>1, <1>3, <1>5 DEF send, sendRaw, TcpTypeOK
<1>6. CASE recv
  BY <1>1, <1>3, <1>6 DEF recv, Wait, TcpTypeOK
<1>7. CASE close
  BY <1>1, <1>3, <1>7 DEF close, sendRaw, Wait, TcpTypeOK
<1> QED
  BY <1>4, <1>5, <1>6, <1>7

LEMMA Replied ==
    ASSUME TcpTypeOK, NEW f \in SUBSET Flag, NEW s \in Nat, NEW l \in {0, 1}, rcvNxt' \in Nat, Reply(f, s, l)
    PROVE  /\ toClient' = Append(toClient, Segment(f, s, rcvNxt', l))
           /\ toClient' \in Seq(SegmentType)
           /\ Segment(f, s, rcvNxt', l) \in SegmentType
           /\ ToSet(toClient') = ToSet(toClient) \cup {Segment(f, s, rcvNxt', l)}
<1>1. toClient' = Append(toClient, Segment(f, s, rcvNxt', l))
  BY DEF Reply
<1>2. Segment(f, s, rcvNxt', l) \in SegmentType
  BY SegmentFacts
<1> QED
  BY <1>1, <1>2, Appended, Queues

LEMMA HeadOfPeer ==
    ASSUME TcpTypeOK, toPeer # <<>>
    PROVE  /\ Head(toPeer) \in SegmentType /\ Head(toPeer) \in ToSet(toPeer)
           /\ Head(toPeer).seq \in Nat /\ Head(toPeer).ack \in Nat /\ Head(toPeer).len \in {0, 1}
           /\ Ends(Head(toPeer)) \in Nat
           /\ Tail(toPeer) \in Seq(SegmentType)
           /\ ToSet(toPeer) = ToSet(Tail(toPeer)) \cup {Head(toPeer)}
<1>1. /\ Head(toPeer) \in SegmentType /\ Head(toPeer) \in ToSet(toPeer)
      /\ Tail(toPeer) \in Seq(SegmentType)
      /\ ToSet(toPeer) = ToSet(Tail(toPeer)) \cup {Head(toPeer)}
  BY HeadTaken, Queues
<1>2. Head(toPeer).seq \in Nat /\ Head(toPeer).ack \in Nat /\ Head(toPeer).len \in {0, 1}
  BY <1>1 DEF SegmentType
<1> QED
  BY <1>1, <1>2 DEF Ends

(* What the peer makes of a segment of the client.                         *)
Valid(s) == "ACK" \in s.flags /\ s.ack <= nxt

LEMMA Received ==
    ASSUME TcpTypeOK, PeerReceives
    PROVE  /\ toPeer # <<>> /\ toPeer' = Tail(toPeer)
           /\ una' = IF Valid(Head(toPeer)) /\ Head(toPeer).ack > una THEN Head(toPeer).ack ELSE una
           /\ peer' = peer \/ (peer = "synReceived" /\ peer' = "established")
           /\ rcvNxt' = IF Valid(Head(toPeer)) /\ Head(toPeer).seq = rcvNxt THEN Ends(Head(toPeer)) ELSE rcvNxt
           /\ (Reply({"ACK"}, nxt, 0) /\ acks' = acks + 1) \/ UNCHANGED <<toClient, acks>>
           /\ peer \notin {"listen", "reset"}
           /\ UNCHANGED <<nxt, client, network>>
  BY DEF PeerReceives, Valid

LEMMA TypePeer ==
    ASSUME TcpTypeOK, Peer
    PROVE  TcpTypeOK'
<1> USE DEF client, server, network, conn
<1>1. /\ {"SYN", "ACK"} \in SUBSET Flag /\ {"ACK"} \in SUBSET Flag
      /\ {"ACK", "FIN"} \in SUBSET Flag /\ {"RST", "ACK"} \in SUBSET Flag
  BY DEF Flag
<1>2. 0 \in Nat /\ 1 \in Nat /\ nxt \in Nat /\ una \in Nat /\ rcvNxt \in Nat
  BY DEF TcpTypeOK
<1>3. CASE PeerAccepts
  <2>1. rcvNxt' \in Nat /\ Reply({"SYN", "ACK"}, 0, 0)
    BY <1>3 DEF PeerAccepts
  <2>2. toClient' \in Seq(SegmentType)
    BY <1>1, <2>1, Replied
  <2>3. Tail(toPeer) \in Seq(SegmentType)
    BY <1>3, HeadOfPeer DEF PeerAccepts
  <2> QED
    BY <1>3, <2>2, <2>3 DEF PeerAccepts, TcpTypeOK
<1>4. CASE PeerReceives
  <2>1. rcvNxt' \in Nat /\ una' \in Nat /\ toPeer' \in Seq(SegmentType)
    BY <1>2, <1>4, Received, HeadOfPeer
  <2>2. toClient' \in Seq(SegmentType) /\ acks' \in Nat
    <3>1. CASE Reply({"ACK"}, nxt, 0) /\ acks' = acks + 1
      <4>1. toClient' \in Seq(SegmentType)
        BY <1>1, <1>2, <2>1, <3>1, Replied
      <4> QED
        BY <3>1, <4>1 DEF TcpTypeOK
    <3>2. CASE UNCHANGED <<toClient, acks>>
      BY <3>2 DEF TcpTypeOK
    <3> QED
      BY <3>1, <3>2, <1>4, Received
  <2>3. peer' = peer \/ peer' = "established"
    BY <1>4, Received
  <2>4. UNCHANGED <<nxt, client, network>>
    BY <1>4, Received
  <2> QED
    BY <2>1, <2>2, <2>3, <2>4 DEF TcpTypeOK
<1>5. CASE PeerSends
  <2>1. toClient' \in Seq(SegmentType)
    BY <1>1, <1>2, <1>5, Replied DEF PeerSends
  <2> QED
    BY <1>5, <2>1 DEF PeerSends, TcpTypeOK
<1>6. CASE PeerResends
  <2>1. toClient' \in Seq(SegmentType)
    BY <1>1, <1>2, <1>6, Replied DEF PeerResends
  <2>2. repeated' \in BOOLEAN
    BY <1>6 DEF PeerResends
  <2> QED
    BY <1>6, <2>1, <2>2 DEF PeerResends, Fault, TcpTypeOK
<1>7. CASE PeerResets
  <2>1. toClient' \in Seq(SegmentType)
    BY <1>1, <1>2, <1>7, Replied DEF PeerResets
  <2> QED
    BY <1>7, <2>1 DEF PeerResets, Fault, TcpTypeOK
<1> QED
  BY <1>3, <1>4, <1>5, <1>6, <1>7 DEF Peer

(* What a fault of the network does to one of the two queues.              *)
LEMMA NetworkSteps ==
    ASSUME TcpTypeOK, Network
    PROVE  /\ UNCHANGED <<client, server>> /\ faults' = faults + 1
           /\ toPeer' \in Seq(SegmentType) /\ ToSet(toPeer') \subseteq ToSet(toPeer)
           /\ toClient' \in Seq(SegmentType) /\ ToSet(toClient') \subseteq ToSet(toClient)
           /\ lost' \in BOOLEAN /\ repeated' \in BOOLEAN /\ reordered' \in BOOLEAN
           /\ (lost => lost') /\ (repeated => repeated') /\ (reordered => reordered')
<1>1. toPeer \in Seq(SegmentType) /\ toClient \in Seq(SegmentType)
      /\ lost \in BOOLEAN /\ repeated \in BOOLEAN /\ reordered \in BOOLEAN
  BY DEF TcpTypeOK
<1>2. DOMAIN toPeer = 1 .. Len(toPeer) /\ DOMAIN toClient = 1 .. Len(toClient)
  BY <1>1, LenProperties
<1>3. /\ \A i \in DOMAIN toPeer : toPeer[i] \in SegmentType /\ toPeer[i] \in ToSet(toPeer)
      /\ \A i \in DOMAIN toClient : toClient[i] \in SegmentType /\ toClient[i] \in ToSet(toClient)
  BY <1>1, <1>2, InSet
<1>4. CASE Lose
  <2>1. /\ toPeer' = toPeer \/ \E i \in DOMAIN toPeer : toPeer' = RemoveAt(toPeer, i)
        /\ toClient' = toClient \/ \E i \in DOMAIN toClient : toClient' = RemoveAt(toClient, i)
        /\ lost' = lost \/ \E i \in DOMAIN toClient : lost' = (lost \/ Matters(toClient[i]))
    BY <1>4 DEF Lose
  <2>2. /\ toPeer' \in Seq(SegmentType) /\ ToSet(toPeer') \subseteq ToSet(toPeer)
        /\ toClient' \in Seq(SegmentType) /\ ToSet(toClient') \subseteq ToSet(toClient)
    BY <1>1, <1>2, <2>1, Removed
  <2>3. lost' \in BOOLEAN /\ (lost => lost')
    <3>1. ASSUME NEW i, lost' = (lost \/ Matters(toClient[i])) PROVE lost' \in BOOLEAN /\ (lost => lost')
      BY <3>1
    <3> QED
      BY <1>1, <2>1, <3>1
  <2> QED
    BY <1>1, <1>4, <2>2, <2>3 DEF Lose, Fault
<1>5. CASE Repeat
  <2>1. /\ toPeer' = toPeer \/ \E i \in DOMAIN toPeer : toPeer' = Append(toPeer, toPeer[i])
        /\ toClient' = toClient \/ \E i \in DOMAIN toClient : toClient' = Append(toClient, toClient[i])
        /\ repeated' = repeated \/ \E i \in DOMAIN toClient : repeated' = (repeated \/ Matters(toClient[i]))
    BY <1>5 DEF Repeat
  <2>2. /\ toPeer' \in Seq(SegmentType) /\ ToSet(toPeer') \subseteq ToSet(toPeer)
    <3>1. ASSUME NEW i \in DOMAIN toPeer, toPeer' = Append(toPeer, toPeer[i]) PROVE <2>2
      BY <1>1, <1>3, <3>1, Appended
    <3> QED
      BY <1>1, <2>1, <3>1
  <2>3. /\ toClient' \in Seq(SegmentType) /\ ToSet(toClient') \subseteq ToSet(toClient)
    <3>1. ASSUME NEW i \in DOMAIN toClient, toClient' = Append(toClient, toClient[i]) PROVE <2>3
      BY <1>1, <1>3, <3>1, Appended
    <3> QED
      BY <1>1, <2>1, <3>1
  <2>4. repeated' \in BOOLEAN /\ (repeated => repeated')
    <3>1. ASSUME NEW i, repeated' = (repeated \/ Matters(toClient[i]))
          PROVE  repeated' \in BOOLEAN /\ (repeated => repeated')
      BY <3>1
    <3> QED
      BY <1>1, <2>1, <3>1
  <2> QED
    BY <1>1, <1>5, <2>2, <2>3, <2>4 DEF Repeat, Fault
<1>6. CASE Reorder
  <2>1. /\ toPeer' = toPeer \/ \E i \in 1 .. Len(toPeer) - 1 : toPeer' = Swapped(toPeer, i)
        /\ toClient' = toClient \/ \E i \in 1 .. Len(toClient) - 1 : toClient' = Swapped(toClient, i)
        /\ \/ reordered' = reordered
           \/ \E i \in 1 .. Len(toClient) - 1 :
                 reordered' = (reordered \/ (Matters(toClient[i]) /\ Matters(toClient[i + 1])))
    BY <1>6 DEF Reorder
  <2>2. /\ toPeer' \in Seq(SegmentType) /\ ToSet(toPeer') \subseteq ToSet(toPeer)
        /\ toClient' \in Seq(SegmentType) /\ ToSet(toClient') \subseteq ToSet(toClient)
    BY <1>1, <2>1, SwappedTwo
  <2>3. reordered' \in BOOLEAN /\ (reordered => reordered')
    <3>1. ASSUME NEW i, reordered' = (reordered \/ (Matters(toClient[i]) /\ Matters(toClient[i + 1])))
          PROVE  reordered' \in BOOLEAN /\ (reordered => reordered')
      BY <3>1
    <3> QED
      BY <1>1, <2>1, <3>1
  <2> QED
    BY <1>1, <1>6, <2>2, <2>3 DEF Reorder, Fault
<1> QED
  BY <1>4, <1>5, <1>6 DEF Network

LEMMA TypeNetwork ==
    ASSUME TcpTypeOK, Network
    PROVE  TcpTypeOK'
<1>1. UNCHANGED <<client, server>> /\ faults' \in Nat
  BY NetworkSteps DEF TcpTypeOK
<1> QED
  BY <1>1, NetworkSteps DEF TcpTypeOK, client, server, conn

LEMMA TcpTypeInit == TcpInit => TcpTypeOK
<1> SUFFICES ASSUME TcpInit PROVE TcpTypeOK
  OBVIOUS
<1>1. <<>> \in Seq(SegmentType) /\ <<>> \in Seq(Nat) /\ 0 \in 0 .. MaxTimer
  BY TcpAssumption, EmptySeq
<1> QED
  BY <1>1, Zenon DEF TcpInit, TcpTypeOK

LEMMA TcpTypeNext == TcpTypeOK /\ [TcpNext]_tcpVars => TcpTypeOK'
<1> SUFFICES ASSUME TcpTypeOK, [TcpNext]_tcpVars PROVE TcpTypeOK'
  OBVIOUS
<1>1. CASE Client
  BY <1>1, TypeCalls, TypePoll DEF Client
<1>2. CASE Peer
  BY <1>2, TypePeer
<1>3. CASE Network
  BY <1>3, TypeNetwork
<1>4. CASE Done \/ UNCHANGED tcpVars
  BY <1>4, SMTT(30) DEF Done, tcpVars, client, server, network, conn, TcpTypeOK
<1> QED
  BY <1>1, <1>2, <1>3, <1>4 DEF TcpNext

-----------------------------------------------------------------------------
(* How far the two sides are.  The peer sends no data before it has the    *)
(* request; what it has sent and the client has not taken is below nxt.    *)
Handshake ==
    /\ rcvNxt <= seq
    /\ \A s \in ToSet(toPeer) : Ends(s) <= seq
    /\ rcvNxt < 2 => nxt <= 1
    /\ step = "connect" => seq <= 1

Reading == step \in {"connect", "send", "recv"}

Phases ==
    /\ Reading => why = "none"
    /\ pendingFin => step \in {"recv", "close", "end"}

Sent ==
    /\ peer = "listen" => nxt = 0
    /\ peer = "synReceived" => nxt = 1
    /\ peer = "established" => nxt \in 1 .. Response + 1
    /\ peer \in {"fin", "finWithData"} => nxt = Response + 2
    /\ peer = "reset" => nxt >= 1
    /\ una <= nxt

(* A segment of the peer: its numbers, and where its FIN can be.           *)
Proper(s) ==
    /\ s.seq <= nxt
    /\ Matters(s) => 1 <= s.seq /\ s.seq < nxt
    /\ s.len = 1 => s.seq <= Response
    /\ "FIN" \in s.flags => s.seq = Response + 1 - s.len
    /\ "ACK" \in s.flags

FromPeer == \A s \in ToSet(toClient) : Proper(s)

Course == Handshake /\ Phases /\ Sent /\ FromPeer

LEMMA SegmentEnds ==
    ASSUME NEW s \in Nat, NEW a
    PROVE  /\ Ends(Segment({"SYN"}, s, a, 0)) = s + 1
           /\ Ends(Segment({"ACK"}, s, a, 1)) = s + 1
           /\ Ends(Segment({"ACK"}, s, a, 0)) = s
           /\ Ends(Segment({"FIN", "ACK"}, s, a, 0)) = s + 1
<1>1. {"SYN"} \cap {"SYN", "FIN"} # {} /\ {"FIN", "ACK"} \cap {"SYN", "FIN"} # {}
  OBVIOUS
<1>2. {"ACK"} \cap {"SYN", "FIN"} = {}
  OBVIOUS
<1>3. ASSUME NEW f, NEW l PROVE Ends(Segment(f, s, a, l)) = s + l + (IF f \cap {"SYN", "FIN"} # {} THEN 1 ELSE 0)
  BY DEF Ends, Segment
<1>4. Ends(Segment({"SYN"}, s, a, 0)) = s + 0 + 1 /\ Ends(Segment({"FIN", "ACK"}, s, a, 0)) = s + 0 + 1
  BY <1>1, <1>3
<1>5. Ends(Segment({"ACK"}, s, a, 1)) = s + 1 + 0 /\ Ends(Segment({"ACK"}, s, a, 0)) = s + 0 + 0
  BY <1>2, <1>3
<1> QED
  BY <1>4, <1>5

(* What the client's calls send.                                           *)
LEMMA CallsSend ==
    ASSUME TcpTypeOK, NEW f \in SUBSET Flag, NEW s \in Nat, NEW a \in Nat, NEW l \in {0, 1}, sendRaw(f, s, a, l)
    PROVE  ToSet(toPeer') = ToSet(toPeer) \cup {Segment(f, s, a, l)}
<1>1. toPeer \in Seq(SegmentType) /\ Segment(f, s, a, l) \in SegmentType
  BY SegmentFacts, Queues
<1>2. ToSet(Append(toPeer, Segment(f, s, a, l))) = ToSet(toPeer) \cup {Segment(f, s, a, l)}
  BY <1>1, Appended
<1> QED
  BY <1>2 DEF sendRaw

LEMMA AnswerSent ==
    ASSUME TcpTypeOK, NEW a \in Nat
    PROVE  /\ ToSet(Append(toPeer, Answer(a))) = ToSet(toPeer) \cup {Answer(a)}
           /\ Answer(a).ack = a /\ Ends(Answer(a)) = seq /\ "ACK" \in Answer(a).flags
<1>1. Answer(a) \in SegmentType /\ Answer(a).ack = a /\ Answer(a).flags = {"ACK"}
  BY SegmentFacts DEF Answer, TcpTypeOK, Flag
<1>2. Ends(Answer(a)) = seq
  BY SegmentEnds DEF Answer, TcpTypeOK
<1> QED
  BY <1>1, <1>2, Appended, Queues

(* The acknowledgment a call goes on with is a number, whatever poll saw.  *)
LEMMA PollToPeer ==
    ASSUME TcpTypeOK, poll
    PROVE  /\ Kept \/ \E r, a : a \in Nat /\ Resumed(r, a)
           /\ toPeer' = toPeer \/ \E a \in Nat : toPeer' = Append(toPeer, Answer(a))
<1>1. Kept \/ \E r, a : a \in Nat /\ Resumed(r, a)
  <2>1. ack \in Nat /\ (toClient # <<>> => NextAck(Head(toClient)) \in Nat)
    BY HeadOfClient DEF TcpTypeOK
  <2> QED
    BY <2>1, PollSteps
<1>2. Kept => toPeer' = toPeer
  BY DEF Kept
<1>3. ASSUME NEW r, NEW a \in Nat, Resumed(r, a)
      PROVE  toPeer' = toPeer \/ toPeer' = Append(toPeer, Answer(a))
  BY <1>3 DEF Resumed
<1> QED
  BY <1>1, <1>2, <1>3

LEMMA HandshakeCalls ==
    ASSUME TcpTypeOK, Handshake, connect \/ send \/ recv \/ close
    PROVE  Handshake'
<1> USE DEF server, conn
<1>1. /\ seq \in Nat /\ ack \in Nat /\ 0 \in Nat /\ rcvNxt \in Nat /\ 0 \in {0, 1} /\ 1 \in {0, 1}
      /\ {"SYN"} \in SUBSET Flag /\ {"ACK"} \in SUBSET Flag /\ {"FIN", "ACK"} \in SUBSET Flag
      /\ \A s \in ToSet(toPeer) : Ends(s) \in Nat
  <2>1. \A s \in ToSet(toPeer) : s \in SegmentType
    BY InSet, Queues
  <2>2. ASSUME NEW s \in SegmentType PROVE Ends(s) \in Nat
    <3>1. s.seq \in Nat /\ s.len \in {0, 1}
      BY DEF SegmentType
    <3> QED
      BY <3>1 DEF Ends
  <2> QED
    BY <2>1, <2>2 DEF TcpTypeOK, Flag
<1>2. CASE connect
  <2>1. ToSet(toPeer') = ToSet(toPeer) \cup {Segment({"SYN"}, 0, 0, 0)} /\ seq' = 1 /\ seq <= 1
    BY <1>1, <1>2, CallsSend DEF connect, Handshake
  <2> QED
    BY <1>1, <1>2, <2>1, SegmentEnds DEF connect, Handshake
<1>3. CASE send
  <2>1. ToSet(toPeer') = ToSet(toPeer) \cup {Segment({"ACK"}, seq, ack, 1)} /\ seq' = seq + 1 /\ step' = "recv"
    BY <1>1, <1>3, CallsSend DEF send
  <2> QED
    BY <1>1, <1>3, <2>1, SegmentEnds DEF send, Handshake
<1>4. CASE recv
  BY <1>4 DEF recv, Handshake
<1>5. CASE close
  <2>1. ToSet(toPeer') = ToSet(toPeer) \cup {Segment({"FIN", "ACK"}, seq, ack, 0)} /\ seq' = seq + 1 /\ step' = "close"
    BY <1>1, <1>5, CallsSend DEF close
  <2> QED
    BY <1>1, <1>5, <2>1, SegmentEnds DEF close, Handshake
<1> QED
  BY <1>2, <1>3, <1>4, <1>5

LEMMA HandshakePoll ==
    ASSUME TcpTypeOK, Handshake, poll
    PROVE  Handshake'
<1>1. UNCHANGED <<seq, nxt, rcvNxt>>
  BY PollSteps
<1>2. step' = "connect" => step = "connect"
  BY PollToPeer DEF Kept, Resumed, TcpTypeOK
<1>3. \A s \in ToSet(toPeer') : Ends(s) <= seq
  <2>1. ASSUME NEW a \in Nat, toPeer' = Append(toPeer, Answer(a)) PROVE <1>3
    BY <2>1, AnswerSent DEF Handshake, TcpTypeOK
  <2> QED
    BY <2>1, PollToPeer DEF Handshake
<1> QED
  BY <1>1, <1>2, <1>3 DEF Handshake

LEMMA HandshakePeer ==
    ASSUME TcpTypeOK, Handshake, Peer
    PROVE  Handshake'
<1> USE DEF client, conn
<1>1. CASE PeerAccepts
  <2>1. Ends(Head(toPeer)) <= seq /\ Ends(Head(toPeer)) >= 1
    BY <1>1, HeadOfPeer DEF PeerAccepts, Handshake, Ends
  <2>2. ToSet(toPeer') \subseteq ToSet(toPeer) /\ UNCHANGED <<seq, step>> /\ nxt' = 1 /\ rcvNxt' = 1
    BY <1>1, HeadOfPeer DEF PeerAccepts
  <2>3. 1 <= seq
    BY <1>1, <2>1, HeadOfPeer DEF PeerAccepts, TcpTypeOK
  <2> QED
    BY <2>2, <2>3 DEF Handshake
<1>2. CASE PeerReceives
  <2>1. Ends(Head(toPeer)) <= seq /\ Ends(Head(toPeer)) >= Head(toPeer).seq
    BY <1>2, Received, HeadOfPeer DEF Handshake, Ends
  <2>2. ToSet(toPeer') \subseteq ToSet(toPeer) /\ UNCHANGED <<seq, step, nxt>>
    BY <1>2, Received, HeadOfPeer
  <2>3. rcvNxt <= rcvNxt' /\ rcvNxt' <= seq /\ rcvNxt' \in Nat
    BY <1>2, <2>1, Received, HeadOfPeer DEF Handshake, TcpTypeOK
  <2> QED
    BY <2>2, <2>3 DEF Handshake, TcpTypeOK
<1>3. CASE PeerSends
  BY <1>3 DEF PeerSends, Handshake, TcpTypeOK
<1>4. CASE PeerResends \/ PeerResets
  BY <1>4 DEF PeerResends, PeerResets, Handshake
<1> QED
  BY <1>1, <1>2, <1>3, <1>4 DEF Peer

LEMMA HandshakeNext == TcpTypeOK /\ Handshake /\ [TcpNext]_tcpVars => Handshake'
<1> SUFFICES ASSUME TcpTypeOK, Handshake, [TcpNext]_tcpVars PROVE Handshake'
  OBVIOUS
<1>1. CASE Client
  BY <1>1, HandshakeCalls, HandshakePoll DEF Client
<1>2. CASE Network
  BY <1>2, NetworkSteps DEF Handshake, client, server, conn
<1>3. CASE Done \/ UNCHANGED tcpVars
  BY <1>3 DEF Done, tcpVars, client, server, conn, Handshake
<1> QED
  BY <1>1, <1>2, <1>3, HandshakePeer DEF TcpNext

LEMMA PhasesNext == TcpTypeOK /\ Phases /\ [TcpNext]_tcpVars => Phases'
<1> SUFFICES ASSUME TcpTypeOK, Phases, [TcpNext]_tcpVars PROVE Phases'
  OBVIOUS
<1> USE DEF client, conn, Phases, Reading
<1>1. CASE connect \/ send \/ recv \/ close
  BY <1>1 DEF connect, send, recv, close
<1>2. CASE poll
  <2>1. Reading' => why' = "none"
    BY <1>2, PollToPeer DEF Kept, Resumed, TcpTypeOK
  <2>2. CASE pendingFin' => pendingFin
    BY <1>2, <2>2, PollToPeer DEF Kept, Resumed
  <2>3. CASE step = "recv" /\ \E r, a : Resumed(r, a)
    BY <2>3 DEF Resumed
  <2>4. (pendingFin' => pendingFin) \/ (step = "recv" /\ \E r, a : Resumed(r, a))
    BY <1>2, PollSteps DEF Delivers
  <2> QED
    BY <2>1, <2>2, <2>3, <2>4
<1>3. CASE Peer
  BY <1>3 DEF Peer, PeerAccepts, PeerReceives, PeerSends, PeerResends, PeerResets
<1>4. CASE Network
  BY <1>4, NetworkSteps
<1>5. CASE Done \/ UNCHANGED tcpVars
  BY <1>5 DEF Done, tcpVars
<1> QED
  BY <1>1, <1>2, <1>3, <1>4, <1>5 DEF TcpNext, Client

(* The client and the network leave the peer's numbers alone.              *)
LEMMA PeerKept ==
    ASSUME TcpTypeOK, Client \/ Network \/ Done \/ UNCHANGED tcpVars
    PROVE  UNCHANGED <<peer, una, nxt, rcvNxt, acks>> /\ ToSet(toClient') \subseteq ToSet(toClient)
<1> USE DEF server
<1>1. CASE connect \/ send \/ recv \/ close
  BY <1>1 DEF connect, send, recv, close
<1>2. CASE poll
  BY <1>2, PollSteps, HeadOfClient
<1>3. CASE Network
  BY <1>3, NetworkSteps
<1>4. CASE Done \/ UNCHANGED tcpVars
  BY <1>4 DEF Done, tcpVars
<1> QED
  BY <1>1, <1>2, <1>3, <1>4 DEF Client

LEMMA SentNext == TcpTypeOK /\ Handshake /\ Sent /\ [TcpNext]_tcpVars => Sent'
<1> SUFFICES ASSUME TcpTypeOK, Handshake, Sent, [TcpNext]_tcpVars PROVE Sent'
  OBVIOUS
<1>1. CASE Client \/ Network \/ Done \/ UNCHANGED tcpVars
  BY <1>1, PeerKept DEF Sent
<1>2. Response \in Nat /\ Response >= 1 /\ nxt \in Nat /\ una \in Nat
  BY TcpAssumption DEF TcpTypeOK
<1>3. CASE PeerAccepts
  BY <1>2, <1>3 DEF PeerAccepts, Sent
<1>4. CASE PeerReceives
  <2>1. una' <= nxt
    BY <1>2, <1>4, Received, HeadOfPeer DEF Sent, Valid
  <2>2. nxt' = nxt /\ (peer' = peer \/ (peer = "synReceived" /\ peer' = "established"))
    BY <1>4, Received
  <2> QED
    BY <1>2, <2>1, <2>2 DEF Sent
<1>5. CASE PeerSends
  BY <1>2, <1>5 DEF PeerSends, Sent
<1>6. CASE PeerResends
  BY <1>6 DEF PeerResends, Sent
<1>7. CASE PeerResets
  BY <1>2, <1>7 DEF PeerResets, Sent, TcpTypeOK
<1> QED
  BY <1>1, <1>3, <1>4, <1>5, <1>6, <1>7 DEF TcpNext, Peer

Adds(f, n, l) ==
    \E t \in SegmentType : /\ t.flags = f /\ t.seq = n /\ t.ack = rcvNxt' /\ t.len = l
                           /\ toClient' = Append(toClient, t)

LEMMA ReplyAdds ==
    ASSUME TcpTypeOK, rcvNxt' \in Nat, NEW f \in SUBSET Flag, NEW n \in Nat, NEW l \in {0, 1}, Reply(f, n, l)
    PROVE  Adds(f, n, l)
<1>1. PICK t : t = Segment(f, n, rcvNxt', l)
  OBVIOUS
<1>2. t \in SegmentType /\ t.flags = f /\ t.seq = n /\ t.ack = rcvNxt' /\ t.len = l
  BY <1>1, SegmentFacts
<1>3. toClient' = Append(toClient, t)
  BY <1>1 DEF Reply
<1> QED
  BY <1>2, <1>3 DEF Adds

(* What the peer adds to its queue: nothing, or one segment that is        *)
(* proper.                                                                 *)
Emitted(s) ==
    /\ s \in SegmentType /\ toClient' = Append(toClient, s)
    /\ Proper(s)' /\ s.ack = rcvNxt'

LEMMA PeerEmits ==
    ASSUME TcpTypeOK, Handshake, Sent, Peer
    PROVE  /\ nxt <= nxt'
           /\ toClient' = toClient \/ \E s \in SegmentType : Emitted(s)
<1>0. /\ {"SYN", "ACK"} \in SUBSET Flag /\ {"ACK"} \in SUBSET Flag
      /\ {"ACK", "FIN"} \in SUBSET Flag /\ {"RST", "ACK"} \in SUBSET Flag
      /\ 0 \in {0, 1} /\ 1 \in {0, 1} /\ 0 \in Nat
  BY DEF Flag
<1>1. Response \in Nat /\ Response >= 1 /\ nxt \in Nat /\ una \in Nat
  BY TcpAssumption DEF TcpTypeOK
<1>2. ASSUME NEW f \in SUBSET Flag, NEW s \in Nat, NEW l \in {0, 1}, rcvNxt' \in Nat, Reply(f, s, l),
             s <= nxt', "ACK" \in f,
             l = 1 \/ "FIN" \in f => 1 <= s /\ s < nxt',
             l = 1 => s <= Response, "FIN" \in f => s = Response + 1 - l
      PROVE  \E t \in SegmentType : Emitted(t)
  <2>1. PICK t \in SegmentType : /\ t.flags = f /\ t.seq = s /\ t.ack = rcvNxt' /\ t.len = l
                                 /\ toClient' = Append(toClient, t)
    <3>1. Adds(f, s, l)
      BY <1>2, ReplyAdds
    <3> QED
      BY <3>1 DEF Adds
  <2>2. Matters(t) => l = 1 \/ "FIN" \in f
    BY <1>2, <2>1 DEF Matters
  <2>3. Proper(t)'
    BY <1>2, <2>1, <2>2 DEF Proper
  <2> QED
    BY <2>1, <2>3 DEF Emitted
<1>3. rcvNxt' \in Nat
  BY TypePeer DEF TcpTypeOK
<1>a. ASSUME NEW f \in SUBSET Flag, "ACK" \in f, "FIN" \notin f, NEW s \in Nat, s <= nxt', Reply(f, s, 0)
      PROVE  \E t \in SegmentType : Emitted(t)
  BY <1>a, <1>0, <1>2, <1>3
<1>b. ASSUME NEW s \in 1 .. Response, s < nxt', Reply({"ACK"}, s, 1)
      PROVE  \E t \in SegmentType : Emitted(t)
  <2>1. s \in Nat /\ 1 <= s /\ s <= nxt' /\ s <= Response /\ "FIN" \notin {"ACK"} /\ "ACK" \in {"ACK"}
    <3>1. nxt' \in Nat
      BY TypePeer DEF TcpTypeOK
    <3> QED
      BY <3>1, <1>b, <1>1
  <2> QED
    BY <1>b, <1>0, <1>2, <1>3, <2>1
<1>c. ASSUME NEW l \in {0, 1}, NEW s \in Nat, s = Response + 1 - l, s < nxt', Reply({"ACK", "FIN"}, s, l)
      PROVE  \E t \in SegmentType : Emitted(t)
  <2>1. 1 <= s /\ s <= nxt' /\ (l = 1 => s <= Response) /\ "ACK" \in {"ACK", "FIN"}
    <3>1. nxt' \in Nat
      BY TypePeer DEF TcpTypeOK
    <3> QED
      BY <3>1, <1>c, <1>1
  <2> QED
    BY <1>c, <1>0, <1>2, <1>3, <2>1
<1>4. CASE PeerAccepts
  <2>1. Reply({"SYN", "ACK"}, 0, 0) /\ nxt' = 1 /\ nxt = 0
    BY <1>4 DEF PeerAccepts, Sent
  <2> QED
    BY <1>0, <1>a, <2>1
<1>5. CASE PeerReceives
  <2>1. nxt' = nxt /\ (Reply({"ACK"}, nxt, 0) \/ toClient' = toClient)
    BY <1>5, Received
  <2> QED
    BY <1>0, <1>1, <1>a, <2>1
<1>6. CASE PeerSends
  <2>1. peer = "established" /\ nxt \in 1 .. Response + 1
    BY <1>6 DEF PeerSends, Sent
  <2>2. CASE nxt <= Response /\ Reply({"ACK"}, nxt, 1) /\ nxt' = nxt + 1
    BY <1>1, <1>b, <2>1, <2>2
  <2>3. CASE nxt = Response /\ Reply({"ACK", "FIN"}, nxt, 1) /\ nxt' = nxt + 2
    BY <1>0, <1>1, <1>c, <2>1, <2>3
  <2>4. CASE nxt = Response + 1 /\ Reply({"ACK", "FIN"}, nxt, 0) /\ nxt' = nxt + 1
    BY <1>0, <1>1, <1>c, <2>1, <2>4
  <2> QED
    BY <1>6, <2>2, <2>3, <2>4 DEF PeerSends
<1>7. CASE PeerResends
  <2>1. una < nxt /\ nxt' = nxt
    BY <1>7 DEF PeerResends
  <2>2. CASE una = 0 /\ Reply({"SYN", "ACK"}, 0, 0)
    BY <1>0, <1>1, <1>a, <2>1, <2>2
  <2>3. CASE una \in 1 .. Response /\ Reply({"ACK"}, una, 1)
    BY <1>1, <1>b, <2>1, <2>3
  <2>4. CASE una = Response /\ Reply({"ACK", "FIN"}, una, 1)
    BY <1>0, <1>1, <1>c, <2>1, <2>4
  <2>5. CASE una = Response + 1 /\ Reply({"ACK", "FIN"}, una, 0)
    BY <1>0, <1>1, <1>c, <2>1, <2>5
  <2> QED
    BY <1>1, <1>7, <2>1, <2>2, <2>3, <2>4, <2>5 DEF PeerResends
<1>8. CASE PeerResets
  <2>1. Reply({"RST", "ACK"}, nxt, 0) /\ nxt' = nxt
    BY <1>8 DEF PeerResets
  <2> QED
    BY <1>0, <1>1, <1>a, <2>1
<1> QED
  BY <1>4, <1>5, <1>6, <1>7, <1>8 DEF Peer

LEMMA FromPeerNext == TcpTypeOK /\ Handshake /\ Sent /\ FromPeer /\ [TcpNext]_tcpVars => FromPeer'
<1> SUFFICES ASSUME TcpTypeOK, Handshake, Sent, FromPeer, [TcpNext]_tcpVars PROVE FromPeer'
  OBVIOUS
<1>1. CASE Client \/ Network \/ Done \/ UNCHANGED tcpVars
  BY <1>1, PeerKept DEF FromPeer, Proper
<1>2. CASE Peer
  <2>1. ASSUME NEW s \in ToSet(toClient) PROVE Proper(s)'
    <3>1. s.seq \in Nat /\ nxt \in Nat /\ nxt' \in Nat /\ nxt <= nxt' /\ Proper(s)
      <4>1. s \in SegmentType
        BY InSet, Queues
      <4>2. nxt \in Nat /\ nxt' \in Nat
        BY <1>2, TypePeer DEF TcpTypeOK
      <4> QED
        BY <1>2, <4>1, <4>2, PeerEmits DEF FromPeer, SegmentType
    <3> QED
      BY <3>1 DEF Proper
  <2>2. ASSUME NEW s \in SegmentType, Emitted(s) PROVE FromPeer'
    <3>1. toClient' = Append(toClient, s) /\ Proper(s)'
      BY <2>2 DEF Emitted
    <3>2. ToSet(Append(toClient, s)) = ToSet(toClient) \cup {s}
      BY Appended, Queues
    <3>3. ToSet(toClient') = ToSet(toClient) \cup {s}
      BY <3>1, <3>2
    <3> QED
      BY <2>1, <3>1, <3>3 DEF FromPeer
  <2>3. CASE toClient' = toClient
    BY <2>1, <2>3 DEF FromPeer
  <2> QED
    BY <1>2, <2>2, <2>3, PeerEmits
<1> QED
  BY <1>1, <1>2 DEF TcpNext

LEMMA CourseInit == TcpInit => Course
<1> SUFFICES ASSUME TcpInit PROVE Course
  OBVIOUS
<1>1. ToSet(<<>>) = {}
  BY DEF ToSet
<1> QED
  BY <1>1 DEF TcpInit, Course, Handshake, Phases, Sent, FromPeer, Reading

LEMMA CourseNext == TcpTypeOK /\ Course /\ [TcpNext]_tcpVars => Course'
  BY HandshakeNext, PhasesNext, SentNext, FromPeerNext DEF Course

-----------------------------------------------------------------------------
(* Data and FINs are in the order of their numbers, the delivered ones     *)
(* before those under way before those not sent.                           *)
Sorted(q) == \A i, j \in DOMAIN q : i < j /\ Matters(q[i]) /\ Matters(q[j]) => q[i].seq < q[j].seq

Ordered ==
    /\ Sorted(toClient)
    /\ Increasing(delivered)
    /\ \A i \in DOMAIN delivered : /\ delivered[i] < nxt
                                   /\ \A s \in ToSet(toClient) : Matters(s) => delivered[i] < s.seq

(* Nothing is missing: what was sent is delivered or on its way, and the   *)
(* end is seen after everything.                                           *)
OnItsWay(k) == \E s \in ToSet(toClient) : s.len = 1 /\ s.seq = k

Unbroken ==
    /\ \A i \in DOMAIN delivered : delivered[i] = i
    /\ Reading => \A k \in 1 .. Response : k < nxt => k <= Len(delivered) \/ OnItsWay(k)
    /\ pendingFin \/ why = "fin" => Len(delivered) = Response

OrderInv == ~repeated /\ ~reordered => Ordered /\ (~lost => Unbroken)

LEMMA SortedAppend ==
    ASSUME NEW q \in Seq(SegmentType), NEW e \in SegmentType, Sorted(q),
           Matters(e) => \A s \in ToSet(q) : Matters(s) => s.seq < e.seq
    PROVE  Sorted(Append(q, e))
<1> DEFINE r == Append(q, e)
<1>1. /\ Len(q) \in Nat /\ DOMAIN q = 1 .. Len(q) /\ DOMAIN r = 1 .. Len(q) + 1
      /\ \A i \in 1 .. Len(q) : r[i] = q[i] /\ q[i] \in ToSet(q)
      /\ r[Len(q) + 1] = e
  <2>1. r \in Seq(SegmentType) /\ Len(r) = Len(q) + 1
    BY Appended
  <2> QED
    BY <2>1, Appended, InSet
<1> HIDE DEF r
<1>2. SUFFICES ASSUME NEW i \in DOMAIN r, NEW j \in DOMAIN r, i < j, Matters(r[i]), Matters(r[j])
               PROVE  r[i].seq < r[j].seq
  BY DEF Sorted, r
<1>3. i \in 1 .. Len(q)
  BY <1>1, <1>2
<1>4. CASE j \in 1 .. Len(q)
  BY <1>1, <1>2, <1>3, <1>4 DEF Sorted
<1>5. CASE j = Len(q) + 1
  BY <1>1, <1>2, <1>3, <1>5
<1> QED
  BY <1>1, <1>4, <1>5

LEMMA SortedTail ==
    ASSUME NEW q \in Seq(SegmentType), q # <<>>, Sorted(q)
    PROVE  /\ Sorted(Tail(q))
           /\ \A s \in ToSet(Tail(q)) : Matters(Head(q)) /\ Matters(s) => Head(q).seq < s.seq
<1> DEFINE r == Tail(q)
<1>1. /\ Len(q) \in Nat /\ DOMAIN q = 1 .. Len(q) /\ DOMAIN r = 1 .. Len(q) - 1 /\ 1 \in DOMAIN q
      /\ \A i \in 1 .. Len(q) - 1 : r[i] = q[i + 1]
      /\ Head(q) = q[1]
  <2>1. r \in Seq(SegmentType) /\ Len(r) = Len(q) - 1
    BY HeadTaken
  <2> QED
    BY <2>1, HeadTaken, InSet
<1> HIDE DEF r
<1>2. ASSUME NEW i \in DOMAIN r PROVE i + 1 \in DOMAIN q /\ 1 < i + 1 /\ r[i] = q[i + 1] /\ i \in Nat
  BY <1>1
<1>3. Sorted(r)
  <2>1. SUFFICES ASSUME NEW i \in DOMAIN r, NEW j \in DOMAIN r, i < j, Matters(r[i]), Matters(r[j])
                 PROVE  r[i].seq < r[j].seq
    BY DEF Sorted
  <2>2. i + 1 < j + 1
    BY <1>2, <2>1
  <2> QED
    BY <1>2, <2>1, <2>2 DEF Sorted
<1>4. ASSUME NEW s \in ToSet(r), Matters(Head(q)), Matters(s) PROVE Head(q).seq < s.seq
  <2>1. PICK i \in DOMAIN r : s = r[i]
    BY DEF ToSet
  <2> QED
    BY <1>1, <1>2, <1>4, <2>1 DEF Sorted
<1> QED
  BY <1>3, <1>4 DEF r

LEMMA SortedRemoved ==
    ASSUME NEW q \in Seq(SegmentType), NEW k \in 1 .. Len(q), Sorted(q)
    PROVE  Sorted(RemoveAt(q, k))
<1> DEFINE r == RemoveAt(q, k)
           P(i) == IF i < k THEN i ELSE i + 1
<1>1. /\ Len(q) \in Nat /\ DOMAIN q = 1 .. Len(q) /\ DOMAIN r = 1 .. Len(q) - 1
      /\ \A i \in 1 .. Len(q) - 1 : r[i] = IF i < k THEN q[i] ELSE q[i + 1]
  <2>1. r \in Seq(SegmentType) /\ Len(r) = Len(q) - 1
    BY Removed
  <2>2. DOMAIN r = 1 .. Len(q) - 1
    BY <2>1, InSet
  <2>3. Len(q) \in Nat /\ DOMAIN q = 1 .. Len(q)
    BY InSet
  <2>4. \A i \in 1 .. Len(q) - 1 : r[i] = IF i < k THEN q[i] ELSE q[i + 1]
    BY Removed
  <2> QED
    BY <2>2, <2>3, <2>4
<1> HIDE DEF r
<1>2. ASSUME NEW i \in DOMAIN r PROVE P(i) \in DOMAIN q /\ r[i] = q[P(i)]
  BY <1>1
<1>3. ASSUME NEW i \in DOMAIN r, NEW j \in DOMAIN r, i < j PROVE P(i) < P(j)
  BY <1>1, <1>3
<1> HIDE DEF P
<1>4. Sorted(r)
  BY <1>2, <1>3 DEF Sorted
<1> QED
  BY <1>4 DEF r

LEMMA SortedSwapped ==
    ASSUME NEW q \in Seq(SegmentType), NEW k \in 1 .. Len(q) - 1, Sorted(q),
           ~(Matters(q[k]) /\ Matters(q[k + 1]))
    PROVE  Sorted(Swapped(q, k))
<1> DEFINE r == Swapped(q, k)
           P(i) == IF i = k THEN k + 1 ELSE IF i = k + 1 THEN k ELSE i
<1>1. /\ Len(q) \in Nat /\ DOMAIN q = 1 .. Len(q) /\ DOMAIN r = 1 .. Len(q)
      /\ \A i \in 1 .. Len(q) : r[i] = IF i = k THEN q[k + 1] ELSE IF i = k + 1 THEN q[k] ELSE q[i]
  <2>1. r \in Seq(SegmentType) /\ Len(r) = Len(q)
    BY SwappedTwo
  <2>2. DOMAIN r = 1 .. Len(q)
    BY <2>1, InSet
  <2>3. Len(q) \in Nat /\ DOMAIN q = 1 .. Len(q)
    BY InSet
  <2>4. \A i \in 1 .. Len(q) : r[i] = IF i = k THEN q[k + 1] ELSE IF i = k + 1 THEN q[k] ELSE q[i]
    BY SwappedTwo
  <2> QED
    BY <2>2, <2>3, <2>4
<1> HIDE DEF r
<1>2. ASSUME NEW i \in DOMAIN r PROVE P(i) \in DOMAIN q /\ r[i] = q[P(i)]
  BY <1>1
<1>3. k \in Nat /\ k + 1 # k
  BY <1>1
<1>4. P(k) = k + 1 /\ P(k + 1) = k /\ \A n : n # k /\ n # k + 1 => P(n) = n
  BY <1>3
<1> HIDE DEF P
<1>5. ASSUME NEW i \in DOMAIN r, NEW j \in DOMAIN r, i < j PROVE P(i) < P(j) \/ (i = k /\ j = k + 1)
  <2>1. i \in Nat /\ j \in Nat
    BY <1>1
  <2>2. CASE i = k /\ j # k + 1
    <3>1. P(i) = k + 1 /\ P(j) = j
      BY <1>4, <1>5, <2>1, <2>2
    <3> QED
      BY <1>3, <1>5, <2>1, <2>2, <3>1
  <2>3. CASE i = k + 1
    <3>1. P(i) = k /\ P(j) = j
      BY <1>3, <1>4, <1>5, <2>1, <2>3
    <3> QED
      BY <1>3, <1>5, <2>1, <2>3, <3>1
  <2>4. CASE i # k /\ i # k + 1
    <3>1. P(i) = i /\ (P(j) = j \/ (j = k /\ P(j) = k + 1) \/ (j = k + 1 /\ P(j) = k))
      BY <1>4, <2>4
    <3> QED
      BY <1>3, <1>5, <2>1, <2>4, <3>1
  <2> QED
    BY <2>2, <2>3, <2>4
<1>6. Sorted(r)
  BY <1>2, <1>4, <1>5 DEF Sorted
<1> QED
  BY <1>6 DEF r

LEMMA IncreasingAppend ==
    ASSUME NEW q \in Seq(Nat), NEW x \in Nat, Increasing(q), \A i \in DOMAIN q : q[i] < x
    PROVE  /\ Increasing(Append(q, x))
           /\ DOMAIN q = 1 .. Len(q) /\ DOMAIN Append(q, x) = 1 .. Len(q) + 1
           /\ \A i \in 1 .. Len(q) : Append(q, x)[i] = q[i]
           /\ Append(q, x)[Len(q) + 1] = x
<1> DEFINE r == Append(q, x)
<1>1. /\ Len(q) \in Nat /\ DOMAIN q = 1 .. Len(q) /\ DOMAIN r = 1 .. Len(q) + 1
      /\ \A i \in 1 .. Len(q) : r[i] = q[i]
      /\ r[Len(q) + 1] = x
  <2>1. r \in Seq(Nat) /\ Len(r) = Len(q) + 1
    BY Appended
  <2> QED
    BY <2>1, Appended, InSet
<1> HIDE DEF r
<1>2. Increasing(r)
  <2>1. SUFFICES ASSUME NEW i \in DOMAIN r, NEW j \in DOMAIN r, i < j PROVE r[i] < r[j]
    BY DEF Increasing
  <2>2. i \in 1 .. Len(q)
    BY <1>1, <2>1
  <2>3. CASE j \in 1 .. Len(q)
    BY <1>1, <2>1, <2>2, <2>3 DEF Increasing
  <2>4. CASE j = Len(q) + 1
    BY <1>1, <2>2, <2>4
  <2> QED
    BY <1>1, <2>3, <2>4
<1> QED
  BY <1>1, <1>2 DEF r

LEMMA NothingYet ==
    ASSUME TcpTypeOK, Course, step = "connect", NEW s \in ToSet(toClient)
    PROVE  ~Matters(s)
<1>1. s.seq \in Nat /\ nxt \in Nat /\ rcvNxt \in Nat /\ seq \in Nat
  <2>1. s \in SegmentType
    BY InSet, Queues
  <2> QED
    BY <2>1 DEF TcpTypeOK, SegmentType
<1>2. nxt <= 1
  BY <1>1 DEF Course, Handshake
<1>3. Proper(s)
  BY DEF Course, FromPeer
<1> QED
  BY <1>1, <1>2, <1>3 DEF Proper

(* What is at the head of the queue is the next the client has to see.     *)
LEMMA HeadIsNext ==
    ASSUME TcpTypeOK, Course, Ordered, Unbroken, Reading, toClient # <<>>, Matters(Head(toClient))
    PROVE  Head(toClient).seq = Len(delivered) + 1
<1> DEFINE h == Head(toClient)
           n == Len(delivered)
<1>1. /\ h \in ToSet(toClient) /\ h.seq \in Nat /\ nxt \in Nat /\ Response \in Nat
      /\ 1 <= h.seq /\ h.seq < nxt /\ h.seq <= Response + 1
  <2>1. h \in ToSet(toClient) /\ h.seq \in Nat /\ h.len \in {0, 1} /\ nxt \in Nat /\ Response \in Nat
    BY HeadOfClient, TcpAssumption DEF TcpTypeOK
  <2>2. Proper(h)
    BY <2>1 DEF Course, FromPeer
  <2> QED
    BY <2>1, <2>2 DEF Proper, Matters
<1>2. n \in Nat /\ DOMAIN delivered = 1 .. n
  BY InSet, Queues
<1>3. n < h.seq
  <2>1. CASE n = 0
    BY <1>1, <2>1
  <2>2. CASE n # 0
    <3>1. n \in DOMAIN delivered
      BY <1>2, <2>2
    <3> QED
      BY <1>1, <3>1 DEF Ordered, Unbroken
  <2> QED
    BY <2>1, <2>2
<1>4. ASSUME n + 1 < h.seq PROVE FALSE
  <2>1. n + 1 \in 1 .. Response /\ n + 1 < nxt /\ ~(n + 1 <= n)
    BY <1>1, <1>2, <1>4
  <2>2. PICK t \in ToSet(toClient) : t.len = 1 /\ t.seq = n + 1
    BY <2>1 DEF Unbroken, OnItsWay
  <2>3. t \in ToSet(Tail(toClient)) /\ Matters(t)
    <3>1. t # h
      BY <1>1, <1>2, <1>4, <2>2
    <3> QED
      BY <2>2, <3>1, HeadOfClient DEF Matters
  <2>4. h.seq < t.seq
    BY <2>3, SortedTail DEF Ordered, TcpTypeOK
  <2> QED
    BY <1>1, <1>2, <1>4, <2>2, <2>4
<1> QED
  BY <1>1, <1>2, <1>3, <1>4

LEMMA OrderedDrop ==
    ASSUME TcpTypeOK, Ordered, toClient # <<>>, toClient' = Tail(toClient), UNCHANGED <<delivered, nxt>>
    PROVE  Ordered'
<1>1. Sorted(toClient')
  BY SortedTail DEF Ordered, TcpTypeOK
<1>2. ToSet(toClient') \subseteq ToSet(toClient)
  BY HeadOfClient
<1> QED
  BY <1>1, <1>2 DEF Ordered, Sorted, Increasing, Matters

LEMMA OrderedTake ==
    ASSUME TcpTypeOK, Course, Ordered, toClient # <<>>, toClient' = Tail(toClient), nxt' = nxt,
           Head(toClient).len = 1, delivered' = Append(delivered, Head(toClient).seq)
    PROVE  Ordered'
<1> DEFINE h == Head(toClient)
<1>1. /\ h \in ToSet(toClient) /\ Matters(h) /\ Proper(h) /\ h.seq \in Nat
      /\ delivered \in Seq(Nat) /\ toClient \in Seq(SegmentType)
  BY HeadOfClient DEF Course, FromPeer, Matters, TcpTypeOK
<1>2. /\ Increasing(delivered')
      /\ DOMAIN delivered = 1 .. Len(delivered) /\ DOMAIN delivered' = 1 .. Len(delivered) + 1
      /\ \A i \in 1 .. Len(delivered) : delivered'[i] = delivered[i]
      /\ delivered'[Len(delivered) + 1] = h.seq
  BY <1>1, IncreasingAppend DEF Ordered
<1>3. Sorted(toClient') /\ \A s \in ToSet(toClient') : Matters(s) => h.seq < s.seq
  BY <1>1, SortedTail DEF Ordered
<1>4. ToSet(toClient') \subseteq ToSet(toClient)
  BY HeadOfClient
<1>5. ASSUME NEW i \in DOMAIN delivered'
      PROVE  delivered'[i] < nxt /\ \A s \in ToSet(toClient') : Matters(s) => delivered'[i] < s.seq
  <2>1. Len(delivered) \in Nat
    BY <1>1, InSet
  <2>2. CASE i \in 1 .. Len(delivered)
    BY <1>2, <1>4, <2>2 DEF Ordered
  <2>3. CASE i = Len(delivered) + 1
    BY <1>1, <1>2, <1>3, <2>3 DEF Proper
  <2> QED
    BY <1>2, <1>5, <2>1, <2>2, <2>3
<1> QED
  BY <1>2, <1>3, <1>5 DEF Ordered, Sorted, Increasing, Matters

LEMMA UnbrokenTake ==
    ASSUME TcpTypeOK, Course, Ordered, Unbroken, step = "recv",
           toClient # <<>>, toClient' = Tail(toClient), nxt' = nxt,
           Head(toClient).len = 1, delivered' = Append(delivered, Head(toClient).seq),
           pendingFin' => "FIN" \in Head(toClient).flags, why' # "fin"
    PROVE  Unbroken'
<1> DEFINE h == Head(toClient)
<1>1. /\ h \in ToSet(toClient) /\ h.seq \in Nat /\ Proper(h) /\ delivered \in Seq(Nat)
      /\ ToSet(toClient) = ToSet(toClient') \cup {h}
  BY HeadOfClient DEF Course, FromPeer, TcpTypeOK
<1>2. h.seq = Len(delivered) + 1
  BY HeadIsNext DEF Reading, Matters
<1>3. /\ Len(delivered') = Len(delivered) + 1 /\ Len(delivered) \in Nat
      /\ DOMAIN delivered = 1 .. Len(delivered) /\ DOMAIN delivered' = 1 .. Len(delivered) + 1
      /\ \A i \in 1 .. Len(delivered) : delivered'[i] = delivered[i]
      /\ delivered'[Len(delivered) + 1] = h.seq
  <2>1. /\ delivered' \in Seq(Nat) /\ Len(delivered') = Len(delivered) + 1
        /\ \A i \in 1 .. Len(delivered) : delivered'[i] = delivered[i]
        /\ delivered'[Len(delivered) + 1] = h.seq
    BY <1>1, Appended
  <2> QED
    BY <1>1, <2>1, LenProperties
<1>4. ASSUME NEW i \in DOMAIN delivered' PROVE delivered'[i] = i
  <2>1. CASE i \in 1 .. Len(delivered)
    BY <1>3, <2>1 DEF Unbroken
  <2>2. CASE i = Len(delivered) + 1
    BY <1>2, <1>3, <2>2
  <2> QED
    BY <1>3, <1>4, <2>1, <2>2
<1>5. ASSUME NEW k \in 1 .. Response, k < nxt PROVE k <= Len(delivered') \/ OnItsWay(k)'
  <2>1. CASE k <= Len(delivered)
    BY <1>3, <1>5, <2>1, TcpAssumption
  <2>2. CASE OnItsWay(k) /\ k # h.seq
    BY <1>1, <2>2 DEF OnItsWay
  <2>3. CASE k = h.seq
    BY <1>2, <1>3, <2>3
  <2> QED
    BY <1>5, <2>1, <2>2, <2>3 DEF Unbroken, Reading
<1>6. pendingFin' => Len(delivered') = Response
  BY <1>1, <1>2, <1>3, TcpAssumption DEF Proper
<1> QED
  BY <1>4, <1>5, <1>6 DEF Unbroken

LEMMA OrderPoll ==
    ASSUME TcpTypeOK, Course, OrderInv, poll
    PROVE  OrderInv'
<1> DEFINE h == Head(toClient)
<1>1. UNCHANGED <<nxt, lost, repeated, reordered>>
  BY PollSteps
<1>2. SUFFICES ASSUME ~repeated, ~reordered, Ordered, ~lost => Unbroken
               PROVE  Ordered' /\ (~lost => Unbroken')
  BY <1>1 DEF OrderInv
<1>3. /\ Reading' => Reading
      /\ Reading => why = "none"
  BY PollToPeer DEF Kept, Resumed, Reading, Course, Phases
<1>4. CASE /\ UNCHANGED <<ack, delivered, toClient>>
           /\ \/ pendingFin' = pendingFin /\ (Kept \/ Resumed(-1, ack))
              \/ pendingFin /\ pendingFin' = FALSE /\ Resumed(2, ack)
  <2>1. pendingFin' \/ why' = "fin" => pendingFin \/ why = "fin"
    BY <1>4, <1>3 DEF Kept, Resumed
  <2> QED
    BY <1>1, <1>2, <1>3, <1>4, <2>1 DEF Ordered, Unbroken, OnItsWay, Sorted, Increasing, Matters
<1>5. CASE /\ toClient # <<>> /\ ~Accepts(h) /\ toClient' = Tail(toClient) /\ Kept
           /\ UNCHANGED <<ack, delivered, pendingFin>>
  <2>1. h \in ToSet(toClient) /\ ToSet(toClient) = ToSet(toClient') \cup {h} /\ h.len \in {0, 1}
    BY <1>5, HeadOfClient
  <2>2. step = "connect"
    BY <1>5, <2>1 DEF Accepts, waitFlags, Course, FromPeer, Proper
  <2>3. h.len # 1
    BY <2>1, <2>2, NothingYet DEF Matters
  <2>4. \A k : OnItsWay(k) => OnItsWay(k)'
    BY <2>1, <2>3 DEF OnItsWay
  <2>5. Ordered'
    BY <1>1, <1>2, <1>5, OrderedDrop
  <2> QED
    BY <1>1, <1>2, <1>3, <1>5, <2>4, <2>5 DEF Unbroken, Kept
<1>6. CASE /\ toClient # <<>> /\ ~pendingFin
           /\ toClient' = Tail(toClient)
           /\ ack' = NextAck(h)
           /\ delivered' = IF Delivers(h) THEN Append(delivered, h.seq) ELSE delivered
           /\ pendingFin' = (Delivers(h) /\ "FIN" \in h.flags)
           /\ Resumed(Result(h), NextAck(h))
  <2>1. /\ h \in ToSet(toClient) /\ ToSet(toClient) = ToSet(toClient') \cup {h}
        /\ h.len \in {0, 1} /\ h.seq \in Nat
    BY <1>6, HeadOfClient
  <2>2. CASE Delivers(h)
    <3>1. /\ step = "recv" /\ h.len = 1 /\ delivered' = Append(delivered, h.seq)
          /\ Result(h) = 1
      BY <1>6, <2>1, <2>2 DEF Delivers, Result
    <3>a. pendingFin' => "FIN" \in h.flags
      BY <1>6
    <3>2. why' # "fin"
      BY <1>3, <1>6, <3>1 DEF Resumed, Reading
    <3>3. Ordered'
      BY <1>1, <1>2, <1>6, <3>1, OrderedTake
    <3>4. ~lost => Unbroken'
      <4>1. toClient # <<>> /\ toClient' = Tail(toClient) /\ nxt' = nxt
        BY <1>1, <1>6
      <4> QED
        BY <1>2, <3>1, <3>a, <3>2, <4>1, UnbrokenTake
    <3> QED
      BY <1>1, <3>3, <3>4
  <2>3. CASE ~Delivers(h)
    <3>1. delivered' = delivered /\ ~pendingFin'
      BY <1>6, <2>3
    <3>2. Ordered'
      BY <1>1, <1>2, <1>6, <3>1, OrderedDrop
    <3>3. Reading => h.len # 1
      <4>1. CASE step = "connect"
        BY <2>1, <4>1, NothingYet DEF Matters
      <4>2. CASE step = "recv"
        BY <2>1, <2>3, <4>2 DEF Delivers
      <4> QED
        BY <1>6, <4>1, <4>2 DEF Reading, Resumed
    <3>4. Reading => \A k : OnItsWay(k) => OnItsWay(k)'
      BY <2>1, <3>3 DEF OnItsWay
    <3>5. ASSUME Unbroken, why' = "fin" PROVE Len(delivered) = Response
      <4>1. CASE why = "fin"
        BY <3>5, <4>1 DEF Unbroken
      <4>2. CASE why # "fin"
        <5>1. step = "recv" /\ "FIN" \in h.flags
          BY <1>6, <3>5, <4>2 DEF Resumed, Result
        <5>2. h.len = 0
          BY <2>1, <3>3, <5>1 DEF Reading
        <5>3. h.seq = Response + 1 - 0
          BY <2>1, <5>1, <5>2 DEF Course, FromPeer, Proper
        <5>4. h.seq = Len(delivered) + 1
          BY <1>2, <1>6, <3>5, <5>1, HeadIsNext DEF Reading, Matters
        <5>5. Len(delivered) \in Nat /\ Response \in Nat
          BY InSet, TcpAssumption DEF TcpTypeOK
        <5> QED
          BY <5>3, <5>4, <5>5
      <4> QED
        BY <4>1, <4>2
    <3> QED
      BY <1>1, <1>2, <1>3, <3>1, <3>2, <3>4, <3>5 DEF Unbroken
  <2> QED
    BY <2>2, <2>3
<1> QED
  BY <1>4, <1>5, <1>6, PollSteps

LEMMA OrderCalls ==
    ASSUME OrderInv, connect \/ send \/ recv \/ close \/ Done \/ UNCHANGED tcpVars
    PROVE  OrderInv'
<1>1. /\ UNCHANGED <<delivered, toClient, nxt, lost, repeated, reordered, why, pendingFin>>
      /\ Reading' => Reading
  BY DEF connect, send, recv, close, Done, tcpVars, client, server, network, conn, Reading
<1> QED
  BY <1>1 DEF OrderInv, Ordered, Unbroken, OnItsWay, Sorted, Increasing, Matters

(* A segment that is added to the queue: it carries nothing, or what was   *)
(* never sent before.                                                      *)
LEMMA OrderAdd ==
    ASSUME TcpTypeOK, TcpTypeOK', Course, Ordered, NEW e \in SegmentType, toClient' = Append(toClient, e),
           nxt <= nxt', Matters(e) => nxt <= e.seq /\ e.seq < nxt', delivered' = delivered
    PROVE  Ordered'
<1>1. /\ nxt \in Nat /\ nxt' \in Nat /\ e.seq \in Nat
      /\ \A s \in ToSet(toClient) : s.seq \in Nat /\ (Matters(s) => s.seq < nxt)
  <2>1. \A s \in ToSet(toClient) : s \in SegmentType /\ Proper(s)
    BY InSet, Queues DEF Course, FromPeer
  <2> QED
    BY <2>1 DEF SegmentType, Proper, TcpTypeOK
<1>2. Sorted(toClient')
  <2>1. Matters(e) => \A s \in ToSet(toClient) : Matters(s) => s.seq < e.seq
    BY <1>1
  <2>2. Sorted(toClient) /\ toClient \in Seq(SegmentType)
    BY DEF Ordered, TcpTypeOK
  <2> QED
    BY <2>1, <2>2, SortedAppend
<1>3. ToSet(toClient') = ToSet(toClient) \cup {e}
  <2>1. toClient \in Seq(SegmentType)
    BY DEF TcpTypeOK
  <2> QED
    BY <2>1, Appended
<1>4. ASSUME NEW i \in DOMAIN delivered
      PROVE  delivered[i] < nxt' /\ \A s \in ToSet(toClient') : Matters(s) => delivered[i] < s.seq
  <2>1. delivered[i] \in Nat /\ delivered[i] < nxt
    BY InSet, Queues DEF Ordered
  <2>2. delivered[i] < nxt' /\ (Matters(e) => delivered[i] < e.seq)
    BY <1>1, <2>1
  <2> QED
    BY <1>3, <2>2 DEF Ordered
<1>5. Increasing(delivered)'
  BY DEF Ordered, Increasing
<1>6. Sorted(toClient)'
  BY <1>2 DEF Sorted, Matters
<1>7. \A i \in DOMAIN delivered' :
         /\ delivered'[i] < nxt'
         /\ \A s \in ToSet(toClient') : Matters(s) => delivered'[i] < s.seq
  BY <1>4
<1> QED
  BY <1>5, <1>6, <1>7 DEF Ordered, Matters

LEMMA UnbrokenAdd ==
    ASSUME TcpTypeOK, TcpTypeOK', Unbroken, NEW e \in SegmentType, toClient' = Append(toClient, e),
           UNCHANGED <<delivered, step, pendingFin, why>>,
           \A k \in 1 .. Response : nxt <= k /\ k < nxt' => e.len = 1 /\ e.seq = k
    PROVE  Unbroken'
<1>1. ToSet(toClient') = ToSet(toClient) \cup {e} /\ nxt \in Nat /\ nxt' \in Nat /\ Response \in Nat
  <2>1. ToSet(Append(toClient, e)) = ToSet(toClient) \cup {e}
    BY Appended, Queues
  <2>2. nxt \in Nat /\ nxt' \in Nat /\ Response \in Nat
    BY TcpAssumption DEF TcpTypeOK
  <2> QED
    BY <2>1, <2>2
<1>2. \A k : (OnItsWay(k) => OnItsWay(k)') /\ (e.len = 1 /\ e.seq = k => OnItsWay(k)')
  BY <1>1 DEF OnItsWay
<1>3. ASSUME Reading, NEW k \in 1 .. Response, k < nxt' PROVE k <= Len(delivered) \/ OnItsWay(k)'
  <2>1. CASE k < nxt
    BY <1>2, <1>3, <2>1 DEF Unbroken
  <2>2. CASE nxt <= k
    BY <1>2, <1>3, <2>2
  <2> QED
    BY <1>1, <2>1, <2>2
<1> QED
  BY <1>3 DEF Unbroken, Reading

LEMMA OrderPeer ==
    ASSUME TcpTypeOK, Course, OrderInv, Peer
    PROVE  OrderInv'
<1>0. TcpTypeOK'
  BY TypePeer
<1>1. /\ {"SYN", "ACK"} \in SUBSET Flag /\ {"ACK"} \in SUBSET Flag
      /\ {"ACK", "FIN"} \in SUBSET Flag /\ {"RST", "ACK"} \in SUBSET Flag
      /\ 0 \in {0, 1} /\ 1 \in {0, 1} /\ 0 \in Nat /\ nxt \in Nat /\ una \in Nat /\ rcvNxt' \in Nat
      /\ Response \in Nat /\ Response >= 1
  <2>1. nxt \in Nat /\ una \in Nat /\ rcvNxt' \in Nat
    BY <1>0 DEF TcpTypeOK
  <2>2. Response \in Nat /\ Response >= 1
    BY TcpAssumption
  <2> QED
    BY <2>1, <2>2 DEF Flag
<1>2. /\ UNCHANGED <<delivered, step, pendingFin, why, lost, reordered>>
      /\ repeated' = repeated \/ (PeerResends /\ repeated' = (repeated \/ una > 0))
  BY DEF Peer, PeerAccepts, PeerReceives, PeerSends, PeerResends, PeerResets, client, network, conn
<1>3. SUFFICES ASSUME ~repeated, ~reordered, Ordered, ~lost => Unbroken, ~repeated'
               PROVE  Ordered' /\ (~lost => Unbroken')
  BY <1>2 DEF OrderInv
<1>4. ASSUME NEW e \in SegmentType, toClient' = Append(toClient, e), ~Matters(e),
             nxt' = nxt \/ (nxt = 0 /\ nxt' = 1)
      PROVE  Ordered' /\ (~lost => Unbroken')
  <2>1. nxt <= nxt' /\ \A k \in 1 .. Response : ~(nxt <= k /\ k < nxt')
    BY <1>1, <1>4
  <2> QED
    BY <1>0, <1>2, <1>3, <1>4, <2>1, OrderAdd, UnbrokenAdd
<1>5. ASSUME NEW f \in SUBSET Flag, "FIN" \notin f, NEW s \in Nat, Reply(f, s, 0),
             nxt' = nxt \/ (nxt = 0 /\ nxt' = 1)
      PROVE  Ordered' /\ (~lost => Unbroken')
  <2>1. PICK e \in SegmentType : e.flags = f /\ e.len = 0 /\ toClient' = Append(toClient, e)
    <3>1. Adds(f, s, 0)
      BY <1>1, <1>5, ReplyAdds
    <3> QED
      BY <3>1 DEF Adds
  <2>2. ~Matters(e)
    BY <1>5, <2>1 DEF Matters
  <2> QED
    BY <1>4, <1>5, <2>1, <2>2
<1>6. CASE PeerAccepts
  <2>1. Reply({"SYN", "ACK"}, 0, 0) /\ nxt' = 1 /\ nxt = 0
    BY <1>6 DEF PeerAccepts, Course, Sent
  <2> QED
    BY <1>1, <1>5, <2>1
<1>7. CASE PeerReceives
  <2>1. nxt' = nxt /\ (Reply({"ACK"}, nxt, 0) \/ toClient' = toClient)
    BY <1>7, Received
  <2>2. CASE toClient' = toClient
    BY <1>2, <1>3, <2>1, <2>2 DEF Ordered, Unbroken, OnItsWay, Reading, Sorted, Increasing, Matters
  <2> QED
    BY <1>1, <1>5, <2>1, <2>2
<1>8. CASE PeerSends
  <2>1. ASSUME NEW f \in SUBSET Flag, NEW l \in {0, 1}, Reply(f, nxt, l), nxt < nxt', nxt' \in Nat,
               \A k \in 1 .. Response : nxt <= k /\ k < nxt' => l = 1 /\ nxt = k
        PROVE  Ordered' /\ (~lost => Unbroken')
    <3>1. PICK e \in SegmentType : e.seq = nxt /\ e.len = l /\ toClient' = Append(toClient, e)
      <4>1. Adds(f, nxt, l)
        BY <1>1, <2>1, ReplyAdds
      <4> QED
        BY <4>1 DEF Adds
    <3>2. nxt <= nxt' /\ (Matters(e) => nxt <= e.seq /\ e.seq < nxt')
      BY <1>1, <2>1, <3>1
    <3>3. Ordered'
      BY <1>0, <1>2, <1>3, <3>1, <3>2, OrderAdd
    <3>4. \A k \in 1 .. Response : nxt <= k /\ k < nxt' => e.len = 1 /\ e.seq = k
      BY <2>1, <3>1
    <3> QED
      BY <1>0, <1>2, <1>3, <3>1, <3>3, <3>4, UnbrokenAdd
  <2>2. CASE nxt <= Response /\ Reply({"ACK"}, nxt, 1) /\ nxt' = nxt + 1
    <3>1. nxt < nxt' /\ nxt' \in Nat /\ \A k \in 1 .. Response : nxt <= k /\ k < nxt' => nxt = k
      BY <1>1, <2>2
    <3> QED
      BY <1>1, <2>1, <2>2, <3>1
  <2>3. CASE nxt = Response /\ Reply({"ACK", "FIN"}, nxt, 1) /\ nxt' = nxt + 2
    <3>1. nxt < nxt' /\ nxt' \in Nat /\ \A k \in 1 .. Response : nxt <= k /\ k < nxt' => nxt = k
      BY <1>1, <2>3
    <3> QED
      BY <1>1, <2>1, <2>3, <3>1
  <2>4. CASE nxt = Response + 1 /\ Reply({"ACK", "FIN"}, nxt, 0) /\ nxt' = nxt + 1
    <3>1. nxt < nxt' /\ nxt' \in Nat /\ \A k \in 1 .. Response : ~(nxt <= k)
      BY <1>1, <2>4
    <3> QED
      BY <1>1, <2>1, <2>4, <3>1
  <2> QED
    BY <1>8, <2>2, <2>3, <2>4 DEF PeerSends
<1>9. CASE PeerResends
  <2>1. una = 0
    <3>1. repeated' = (repeated \/ una > 0)
      BY <1>9 DEF PeerResends
    <3>2. ~(una > 0)
      BY <1>3, <3>1
    <3> QED
      BY <1>1, <3>2
  <2>2. Reply({"SYN", "ACK"}, 0, 0) /\ nxt' = nxt
    BY <1>1, <1>9, <2>1 DEF PeerResends
  <2> QED
    BY <1>1, <1>5, <2>2
<1>10. CASE PeerResets
  <2>1. Reply({"RST", "ACK"}, nxt, 0) /\ nxt' = nxt
    BY <1>10 DEF PeerResets
  <2> QED
    BY <1>1, <1>5, <2>1
<1> QED
  BY <1>6, <1>7, <1>8, <1>9, <1>10 DEF Peer

LEMMA OrderNetwork ==
    ASSUME TcpTypeOK, Course, OrderInv, Network
    PROVE  OrderInv'
<1>0. TcpTypeOK' /\ toClient \in Seq(SegmentType) /\ DOMAIN toClient = 1 .. Len(toClient)
  BY TypeNetwork, InSet, Queues
<1>1. /\ UNCHANGED <<delivered, step, pendingFin, why, nxt>>
      /\ (lost => lost') /\ (repeated => repeated') /\ (reordered => reordered')
  BY NetworkSteps DEF client, server, conn
<1>2. SUFFICES ASSUME ~repeated', ~reordered', Ordered, ~lost => Unbroken
               PROVE  Ordered' /\ (~lost' => Unbroken')
  BY <1>1 DEF OrderInv
<1>3. CASE toClient' = toClient
  BY <1>1, <1>2, <1>3 DEF Ordered, Unbroken, OnItsWay, Reading, Sorted, Increasing, Matters
<1>4. ASSUME Sorted(toClient'), ToSet(toClient') \subseteq ToSet(toClient),
             ~lost' => \A k : OnItsWay(k) => OnItsWay(k)'
      PROVE  Ordered' /\ (~lost' => Unbroken')
  BY <1>1, <1>2, <1>4 DEF Ordered, Unbroken, Reading, Sorted, Increasing, Matters
<1>5. CASE Lose
  <2>1. ASSUME NEW i \in DOMAIN toClient, toClient' = RemoveAt(toClient, i), lost' = (lost \/ Matters(toClient[i]))
        PROVE  Ordered' /\ (~lost' => Unbroken')
    <3>1. ToSet(toClient) = ToSet(toClient') \cup {toClient[i]}
      <4>1. i \in 1 .. Len(toClient)
        BY <1>0
      <4> QED
        BY <1>0, <2>1, <4>1, Removed
    <3>2. Sorted(toClient')
      BY <1>0, <1>2, <2>1, SortedRemoved DEF Ordered
    <3>3. ~lost' => toClient[i].len # 1
      <4>1. Matters(toClient[i]) => lost'
        BY <2>1
      <4> QED
        BY <4>1 DEF Matters
    <3>4. ~lost' => \A k : OnItsWay(k) => OnItsWay(k)'
      BY <3>1, <3>3 DEF OnItsWay
    <3> QED
      BY <1>4, <3>1, <3>2, <3>4
  <2> QED
    BY <1>3, <1>5, <2>1 DEF Lose
<1>6. CASE Repeat
  <2>1. ASSUME NEW i \in DOMAIN toClient, toClient' = Append(toClient, toClient[i]),
               repeated' = (repeated \/ Matters(toClient[i]))
        PROVE  Ordered' /\ (~lost' => Unbroken')
    <3>1. PICK e \in SegmentType : e = toClient[i]
      BY <1>0, <2>1, LenProperties
    <3>2. toClient' = Append(toClient, e) /\ ~Matters(e)
      BY <1>2, <2>1, <3>1
    <3>3. nxt <= nxt' /\ \A k \in 1 .. Response : ~(nxt <= k /\ k < nxt')
      BY <1>0, <1>1, TcpAssumption DEF TcpTypeOK
    <3>4. Ordered'
      BY <1>0, <1>1, <1>2, <3>2, <3>3, OrderAdd
    <3>5. lost' = lost
      BY <1>6 DEF Repeat
    <3> QED
      BY <1>0, <1>1, <1>2, <3>2, <3>3, <3>4, <3>5, UnbrokenAdd
  <2> QED
    BY <1>3, <1>6, <2>1 DEF Repeat
<1>7. CASE Reorder
  <2>1. ASSUME NEW i \in 1 .. Len(toClient) - 1, toClient' = Swapped(toClient, i),
               reordered' = (reordered \/ (Matters(toClient[i]) /\ Matters(toClient[i + 1])))
        PROVE  Ordered' /\ (~lost' => Unbroken')
    <3>1. ToSet(toClient') = ToSet(toClient)
      BY <1>0, <2>1, SwappedTwo
    <3>2. ~(Matters(toClient[i]) /\ Matters(toClient[i + 1]))
      BY <1>2, <2>1
    <3>3. Sorted(toClient')
      BY <1>0, <1>2, <2>1, <3>2, SortedSwapped DEF Ordered
    <3>4. \A k : OnItsWay(k) => OnItsWay(k)'
      BY <3>1 DEF OnItsWay
    <3> QED
      BY <1>4, <3>1, <3>3, <3>4
  <2> QED
    BY <1>3, <1>7, <2>1 DEF Reorder
<1> QED
  BY <1>5, <1>6, <1>7 DEF Network

LEMMA OrderInit == TcpInit => OrderInv
<1> SUFFICES ASSUME TcpInit PROVE OrderInv
  OBVIOUS
<1>1. delivered = <<>> /\ toClient = <<>> /\ nxt = 0 /\ pendingFin = FALSE /\ why = "none"
  BY DEF TcpInit
<1>2. DOMAIN delivered = {} /\ DOMAIN toClient = {}
  BY <1>1
<1>3. Ordered
  BY <1>2 DEF Ordered, Sorted, Increasing
<1>4. Unbroken
  <2>1. \A k \in 1 .. Response : ~(k < nxt)
    BY <1>1, TcpAssumption
  <2> QED
    BY <1>1, <1>2, <2>1 DEF Unbroken
<1> QED
  BY <1>3, <1>4 DEF OrderInv

LEMMA OrderNext == TcpTypeOK /\ Course /\ OrderInv /\ [TcpNext]_tcpVars => OrderInv'
<1> SUFFICES ASSUME TcpTypeOK, Course, OrderInv, [TcpNext]_tcpVars PROVE OrderInv'
  OBVIOUS
<1> QED
  BY OrderCalls, OrderPoll, OrderPeer, OrderNetwork DEF TcpNext, Client

-----------------------------------------------------------------------------
(* Acknowledgments run at most one ahead of what was sent, and never reach *)
(* the number behind a FIN that came with data.  The peer hears of the end *)
(* from a segment that is under way or has arrived.                        *)
LastAck == IF peer = "finWithData" THEN Response + 1 ELSE Response + 2
Beyond == Response + 2

AckBound == ack <= nxt + 1 /\ \A s \in ToSet(toPeer) : s.ack <= nxt + 1

NoneBeyond ==
    peer = "finWithData" =>
        /\ una # Beyond /\ ack # Beyond
        /\ \A s \in ToSet(toPeer) : s.ack # Beyond
        /\ \A s \in ToSet(toClient) : NextAck(s) # Beyond

FinPlace ==
    /\ \A s \in ToSet(toClient) : "FIN" \in s.flags => peer = IF s.len = 1 THEN "finWithData" ELSE "fin"
    /\ pendingFin => peer = "finWithData" /\ ack = Response + 1

Tells(s) == "ACK" \in s.flags /\ s.ack = LastAck

EndTold ==
    why = "fin" => /\ peer \in {"fin", "finWithData"}
                   /\ una >= LastAck \/ \E s \in ToSet(toPeer) : Tells(s)

AckInv == faults = 0 => AckBound /\ NoneBeyond /\ FinPlace /\ EndTold

(* A segment of the client with an acknowledgment a.                       *)
LEMMA AckSent ==
    ASSUME TcpTypeOK, AckBound, NoneBeyond, FinPlace, NEW a \in Nat, a <= nxt + 1,
           peer = "finWithData" => a # Beyond,
           ToSet(toPeer) \subseteq ToSet(toPeer'), \A s \in ToSet(toPeer') : s \in ToSet(toPeer) \/ s.ack = a,
           ack' \in {ack, a}, UNCHANGED <<peer, una, nxt>>, ToSet(toClient') \subseteq ToSet(toClient)
    PROVE  /\ AckBound' /\ NoneBeyond'
           /\ \A s \in ToSet(toClient') : "FIN" \in s.flags => peer' = IF s.len = 1 THEN "finWithData" ELSE "fin"
           /\ EndTold /\ why = "fin" => peer' \in {"fin", "finWithData"} /\ (una' >= LastAck' \/ \E s \in ToSet(toPeer') : Tells(s)')
<1>1. AckBound'
  BY DEF AckBound
<1>2. NoneBeyond'
  BY DEF NoneBeyond, Beyond, NextAck
<1>3. \A s \in ToSet(toClient') : "FIN" \in s.flags => peer' = IF s.len = 1 THEN "finWithData" ELSE "fin"
  BY DEF FinPlace
<1>4. EndTold /\ why = "fin" => peer' \in {"fin", "finWithData"} /\ (una' >= LastAck' \/ \E s \in ToSet(toPeer') : Tells(s)')
  <2>1. LastAck' = LastAck /\ \A s : Tells(s)' = Tells(s)
    BY DEF LastAck, Tells
  <2> QED
    BY <2>1 DEF EndTold
<1> QED
  BY <1>1, <1>2, <1>3, <1>4

LEMMA AckCalls ==
    ASSUME TcpTypeOK, Course, AckInv, connect \/ send \/ recv \/ close
    PROVE  AckInv'
<1>1. UNCHANGED <<peer, una, nxt, toClient, faults, pendingFin, why>>
  BY DEF connect, send, recv, close, server, network, conn
<1>2. SUFFICES ASSUME AckBound, NoneBeyond, FinPlace, EndTold
               PROVE  AckBound' /\ NoneBeyond' /\ FinPlace' /\ EndTold'
  BY <1>1 DEF AckInv
<1>3. /\ seq \in Nat /\ ack \in Nat /\ nxt \in Nat /\ 0 \in Nat /\ 0 \in {0, 1} /\ 1 \in {0, 1} /\ Response \in Nat
      /\ {"SYN"} \in SUBSET Flag /\ {"ACK"} \in SUBSET Flag /\ {"FIN", "ACK"} \in SUBSET Flag
  <2>1. Response \in Nat
    BY TcpAssumption
  <2> QED
    BY <2>1 DEF TcpTypeOK, Flag
<1>4. \E a \in {0, ack} : /\ ToSet(toPeer) \subseteq ToSet(toPeer')
                          /\ \A s \in ToSet(toPeer') : s \in ToSet(toPeer) \/ s.ack = a
                          /\ ack' \in {ack, a}
  <2>1. CASE connect
    <3>1. ToSet(toPeer') = ToSet(toPeer) \cup {Segment({"SYN"}, 0, 0, 0)}
      BY <1>3, <2>1, CallsSend DEF connect
    <3>2. Segment({"SYN"}, 0, 0, 0).ack = 0
      BY <1>3, SegmentFacts
    <3>3. ack' \in {ack, 0}
      BY <2>1 DEF connect
    <3> QED
      BY <3>1, <3>2, <3>3
  <2>2. CASE send
    <3>1. ToSet(toPeer') = ToSet(toPeer) \cup {Segment({"ACK"}, seq, ack, 1)}
      BY <1>3, <2>2, CallsSend DEF send
    <3>2. Segment({"ACK"}, seq, ack, 1).ack = ack
      BY <1>3, SegmentFacts
    <3>3. ack' \in {ack, ack}
      BY <2>2 DEF send
    <3> QED
      BY <3>1, <3>2, <3>3
  <2>3. CASE recv
    BY <2>3 DEF recv, conn
  <2>4. CASE close
    <3>1. ToSet(toPeer') = ToSet(toPeer) \cup {Segment({"FIN", "ACK"}, seq, ack, 0)}
      BY <1>3, <2>4, CallsSend DEF close
    <3>2. Segment({"FIN", "ACK"}, seq, ack, 0).ack = ack
      BY <1>3, SegmentFacts
    <3>3. ack' \in {ack, ack}
      BY <2>4 DEF close
    <3> QED
      BY <3>1, <3>2, <3>3
  <2> QED
    BY <2>1, <2>2, <2>3, <2>4
<1>5. PICK a \in {0, ack} : /\ ToSet(toPeer) \subseteq ToSet(toPeer')
                            /\ \A s \in ToSet(toPeer') : s \in ToSet(toPeer) \/ s.ack = a
                            /\ ack' \in {ack, a}
  BY <1>4
<1>6. a \in Nat /\ a <= nxt + 1 /\ (peer = "finWithData" => a # Beyond)
  <2>1. CASE a = 0
    BY <1>3, <2>1 DEF Beyond
  <2>2. CASE a = ack
    BY <1>2, <1>3, <2>2 DEF AckBound, NoneBeyond
  <2> QED
    BY <2>1, <2>2
<1>7. /\ AckBound' /\ NoneBeyond'
      /\ \A s \in ToSet(toClient') : "FIN" \in s.flags => peer' = IF s.len = 1 THEN "finWithData" ELSE "fin"
      /\ EndTold'
  BY <1>1, <1>2, <1>5, <1>6, AckSent DEF EndTold
<1>8. pendingFin => ack' = ack
  BY DEF connect, send, recv, close, conn, Course, Phases
<1> QED
  BY <1>1, <1>2, <1>7, <1>8 DEF FinPlace

LEMMA AckPoll ==
    ASSUME TcpTypeOK, Course, AckInv, poll
    PROVE  AckInv'
<1> DEFINE h == Head(toClient)
<1>1. UNCHANGED <<peer, una, nxt, faults>>
  BY PollSteps
<1>2. SUFFICES ASSUME AckBound, NoneBeyond, FinPlace, EndTold
               PROVE  AckBound' /\ NoneBeyond' /\ FinPlace' /\ EndTold'
  BY <1>1 DEF AckInv
<1>3. ack \in Nat /\ nxt \in Nat /\ Response \in Nat /\ toPeer \in Seq(SegmentType)
  BY TcpAssumption DEF TcpTypeOK
<1>4. ASSUME NEW r, NEW a \in Nat, Resumed(r, a) \/ Kept, a <= nxt + 1, peer = "finWithData" => a # Beyond,
             ack' \in {ack, a}, ToSet(toClient') \subseteq ToSet(toClient),
             pendingFin' => peer = "finWithData" /\ ack' = Response + 1,
             step = "recv" /\ r = 2 => peer \in {"fin", "finWithData"} /\ a = LastAck
      PROVE  AckBound' /\ NoneBeyond' /\ FinPlace' /\ EndTold'
  <2>1. /\ ToSet(Append(toPeer, Answer(a))) = ToSet(toPeer) \cup {Answer(a)}
        /\ Answer(a).ack = a /\ "ACK" \in Answer(a).flags
    BY <1>4, AnswerSent
  <2>2. toPeer' = toPeer \/ toPeer' = Append(toPeer, Answer(a))
    BY <1>4 DEF Resumed, Kept
  <2>3. /\ ToSet(toPeer) \subseteq ToSet(toPeer')
        /\ \A s \in ToSet(toPeer') : s \in ToSet(toPeer) \/ s.ack = a
    BY <2>1, <2>2
  <2>4. /\ AckBound' /\ NoneBeyond'
        /\ \A s \in ToSet(toClient') : "FIN" \in s.flags => peer' = IF s.len = 1 THEN "finWithData" ELSE "fin"
        /\ why = "fin" => peer' \in {"fin", "finWithData"} /\ (una' >= LastAck' \/ \E s \in ToSet(toPeer') : Tells(s)')
    BY <1>1, <1>2, <1>4, <2>3, AckSent
  <2>5. ASSUME why' = "fin", why # "fin"
        PROVE  peer' \in {"fin", "finWithData"} /\ (una' >= LastAck' \/ \E s \in ToSet(toPeer') : Tells(s)')
    <3>1. step = "recv" /\ r = 2 /\ toPeer' = Append(toPeer, Answer(a))
      BY <1>4, <2>5 DEF Resumed, Kept
    <3>2. PICK s \in ToSet(toPeer') : s = Answer(a)
      BY <2>1, <3>1
    <3>3. LastAck' = LastAck /\ "ACK" \in s.flags /\ s.ack = a
      BY <1>1, <2>1, <3>2 DEF LastAck
    <3> QED
      BY <1>1, <1>4, <3>1, <3>2, <3>3 DEF Tells
  <2>6. EndTold'
    BY <2>4, <2>5 DEF EndTold
  <2> QED
    BY <1>1, <1>4, <2>4, <2>6 DEF FinPlace
<1>5. ack <= nxt + 1 /\ (peer = "finWithData" => ack # Beyond)
  BY <1>2 DEF AckBound, NoneBeyond
<1>6. CASE /\ UNCHANGED <<ack, delivered, toClient>>
           /\ \/ pendingFin' = pendingFin /\ (Kept \/ Resumed(-1, ack))
              \/ pendingFin /\ pendingFin' = FALSE /\ Resumed(2, ack)
  <2>1. CASE pendingFin' = pendingFin /\ (Kept \/ Resumed(-1, ack))
    <3>1. pendingFin' => peer = "finWithData" /\ ack' = Response + 1
      BY <1>2, <1>6, <2>1 DEF FinPlace
    <3>2. Resumed(-1, ack) \/ Kept
      BY <2>1
    <3>3. /\ ack' \in {ack} /\ ToSet(toClient') \subseteq ToSet(toClient)
          /\ ~(step = "recv" /\ -1 = 2)
      BY <1>6
    <3> QED
      BY <1>3, <1>4, <1>5, <3>1, <3>2, <3>3
  <2>2. CASE pendingFin /\ pendingFin' = FALSE /\ Resumed(2, ack)
    <3>1. peer = "finWithData" /\ ack = LastAck
      BY <1>2, <2>2 DEF FinPlace, LastAck
    <3> QED
      BY <1>3, <1>4, <1>5, <1>6, <2>2, <3>1
  <2> QED
    BY <1>6, <2>1, <2>2
<1>7. CASE /\ toClient # <<>> /\ ~Accepts(h) /\ toClient' = Tail(toClient) /\ Kept
           /\ UNCHANGED <<ack, delivered, pendingFin>>
  <2>1. ToSet(toClient') \subseteq ToSet(toClient)
    BY <1>7, HeadOfClient
  <2>2. pendingFin' => peer = "finWithData" /\ ack' = Response + 1
    BY <1>2, <1>7 DEF FinPlace
  <2>3. Resumed(-1, ack) \/ Kept
    BY <1>7
  <2>4. ack' \in {ack} /\ ~(step = "recv" /\ -1 = 2)
    BY <1>7
  <2> QED
    BY <1>3, <1>4, <1>5, <2>1, <2>2, <2>3, <2>4
<1>8. CASE /\ toClient # <<>> /\ ~pendingFin
           /\ toClient' = Tail(toClient)
           /\ ack' = NextAck(h)
           /\ delivered' = IF Delivers(h) THEN Append(delivered, h.seq) ELSE delivered
           /\ pendingFin' = (Delivers(h) /\ "FIN" \in h.flags)
           /\ Resumed(Result(h), NextAck(h))
  <2>1. /\ h \in ToSet(toClient) /\ ToSet(toClient') \subseteq ToSet(toClient)
        /\ h.len \in {0, 1} /\ h.seq \in Nat /\ NextAck(h) = h.seq + 1
    BY <1>8, HeadOfClient
  <2>2. Proper(h) /\ ("FIN" \in h.flags => peer = IF h.len = 1 THEN "finWithData" ELSE "fin")
    BY <1>2, <2>1 DEF Course, FromPeer, FinPlace
  <2>3. NextAck(h) \in Nat /\ NextAck(h) <= nxt + 1 /\ (peer = "finWithData" => NextAck(h) # Beyond)
    BY <1>2, <1>3, <2>1, <2>2 DEF Proper, NoneBeyond
  <2>4. ASSUME pendingFin' PROVE peer = "finWithData" /\ ack' = Response + 1
    <3>1. "FIN" \in h.flags /\ h.len > 0
      BY <1>8, <2>4 DEF Delivers
    <3>2. h.len = 1 /\ h.seq = Response + 1 - 1 /\ peer = "finWithData"
      BY <2>1, <2>2, <3>1 DEF Proper
    <3> QED
      BY <1>3, <1>8, <2>1, <3>2
  <2>5. ASSUME step = "recv", Result(h) = 2 PROVE peer \in {"fin", "finWithData"} /\ NextAck(h) = LastAck
    <3>1. "FIN" \in h.flags /\ ~(h.len > 0)
      BY <2>5 DEF Result, Delivers
    <3>2. h.len = 0 /\ h.seq = Response + 1 - 0 /\ peer = "fin"
      BY <2>1, <2>2, <3>1 DEF Proper
    <3> QED
      BY <1>3, <2>1, <3>2 DEF LastAck
  <2>6. Resumed(Result(h), NextAck(h)) /\ ack' = NextAck(h)
    BY <1>8
  <2> HIDE DEF h
  <2> QED
    BY <1>4, <2>1, <2>3, <2>4, <2>5, <2>6
<1> QED
  BY <1>6, <1>7, <1>8, PollSteps

LEMMA AckPeer ==
    ASSUME TcpTypeOK, Course, AckInv, Peer
    PROVE  AckInv'
<1>0. TcpTypeOK'
  BY TypePeer
<1>1. UNCHANGED <<ack, why, pendingFin>>
  BY DEF Peer, PeerAccepts, PeerReceives, PeerSends, PeerResends, PeerResets, client, conn
<1>2. SUFFICES ASSUME faults' = 0, faults = 0, AckBound, NoneBeyond, FinPlace, EndTold
               PROVE  AckBound' /\ NoneBeyond' /\ FinPlace' /\ EndTold'
  <2>1. faults' = faults \/ faults' = faults + 1
    BY DEF Peer, PeerAccepts, PeerReceives, PeerSends, PeerResends, PeerResets, network, Fault
  <2>2. faults' = 0 => faults = 0
    BY <2>1 DEF TcpTypeOK
  <2> QED
    BY <2>2 DEF AckInv
<1>3. /\ ack \in Nat /\ nxt \in Nat /\ nxt' \in Nat /\ una \in Nat /\ rcvNxt' \in Nat
      /\ Response \in Nat /\ Response >= 1
      /\ 0 \in {0, 1} /\ 1 \in {0, 1} /\ 0 \in Nat /\ {"SYN", "ACK"} \in SUBSET Flag
      /\ {"ACK"} \in SUBSET Flag /\ {"ACK", "FIN"} \in SUBSET Flag
  <2>1. Response \in Nat /\ Response >= 1
    BY TcpAssumption
  <2> QED
    BY <1>0, <2>1 DEF TcpTypeOK, Flag
<1>4. /\ \A s \in ToSet(toPeer) : s.ack \in Nat /\ s.seq \in Nat
      /\ \A s \in ToSet(toClient) : s.seq \in Nat /\ s.len \in {0, 1} /\ NextAck(s) = s.seq + 1 /\ s.seq <= nxt
  <2>1. \A s \in ToSet(toPeer) : s \in SegmentType
    BY InSet, Queues
  <2>2. \A s \in ToSet(toClient) : s \in SegmentType /\ Proper(s)
    BY InSet, Queues DEF Course, FromPeer
  <2>3. \A s \in SegmentType : s.ack \in Nat /\ s.seq \in Nat /\ s.len \in {0, 1}
    BY DEF SegmentType
  <2>4. \A s \in SegmentType : NextAck(s) = s.seq + 1
    <3>1. ASSUME NEW s \in SegmentType PROVE NextAck(s) = s.seq + 1
      BY <2>3 DEF NextAck
    <3> QED
      BY <3>1
  <2>5. \A s \in ToSet(toClient) : s.seq <= nxt
    BY <2>2 DEF Proper
  <2> QED
    BY <2>1, <2>2, <2>3, <2>4, <2>5
<1>5. ASSUME nxt <= nxt', ToSet(toPeer') \subseteq ToSet(toPeer) PROVE AckBound'
  <2>1. \A s \in ToSet(toPeer') : s.ack <= nxt' + 1
    BY <1>2, <1>3, <1>4, <1>5 DEF AckBound
  <2>2. ack <= nxt' + 1
    <3>1. ack <= nxt + 1 /\ nxt <= nxt'
      BY <1>2, <1>5 DEF AckBound
    <3>2. ack \in Nat /\ nxt \in Nat /\ nxt' \in Nat
      BY <1>3
    <3>3. \A a, m, n \in Nat : a <= m + 1 /\ m <= n => a <= n + 1
      OBVIOUS
    <3> QED
      BY <3>1, <3>2, <3>3
  <2>3. ack' <= nxt' + 1
    BY <1>1, <2>2
  <2> QED
    BY <2>1, <2>3 DEF AckBound
<1>6. ASSUME NEW f, NEW n, NEW l, Adds(f, n, l), l \in {0, 1}, n \in Nat
      PROVE  \E e : /\ ToSet(toClient') = ToSet(toClient) \cup {e}
                    /\ e.flags = f /\ e.len = l /\ NextAck(e) = n + 1
  <2>1. PICK e \in SegmentType : e.flags = f /\ e.seq = n /\ e.len = l /\ toClient' = Append(toClient, e)
    BY <1>6 DEF Adds
  <2>2. ToSet(toClient') = ToSet(toClient) \cup {e}
    BY <2>1, Appended, Queues
  <2>3. NextAck(e) = n + 1
    BY <1>6, <2>1 DEF NextAck
  <2> QED
    BY <2>1, <2>2, <2>3
<1>7. CASE PeerAccepts
  <2>1. peer = "listen" /\ nxt' = 1 /\ peer' = "synReceived" /\ Reply({"SYN", "ACK"}, 0, 0)
    BY <1>7 DEF PeerAccepts
  <2>2. nxt = 0 /\ ToSet(toPeer') \subseteq ToSet(toPeer)
    BY <1>7, <2>1, HeadOfPeer DEF PeerAccepts, Course, Sent
  <2>3. Adds({"SYN", "ACK"}, 0, 0)
    BY <1>3, <2>1, ReplyAdds
  <2>4. PICK e : ToSet(toClient') = ToSet(toClient) \cup {e} /\ e.flags = {"SYN", "ACK"}
    BY <1>3, <1>6, <2>3
  <2>5. AckBound'
    BY <1>5, <2>1, <2>2
  <2> QED
    BY <1>1, <1>2, <2>1, <2>4, <2>5 DEF NoneBeyond, FinPlace, EndTold
<1>8. CASE PeerSends
  <2>1. /\ peer = "established" /\ nxt \in 1 .. Response + 1 /\ una <= nxt
        /\ UNCHANGED <<una, toPeer>>
    BY <1>8 DEF PeerSends, Course, Sent
  <2>2. ~pendingFin /\ why # "fin" /\ \A s \in ToSet(toClient) : "FIN" \notin s.flags
    <3>1. peer # "finWithData" /\ peer # "fin"
      BY <2>1
    <3> QED
      BY <1>2, <3>1 DEF FinPlace, EndTold
  <2>3. CASE nxt <= Response /\ Reply({"ACK"}, nxt, 1) /\ nxt' = nxt + 1 /\ UNCHANGED peer
    <3>1. Adds({"ACK"}, nxt, 1)
      BY <1>3, <2>3, ReplyAdds
    <3>2. PICK e : ToSet(toClient') = ToSet(toClient) \cup {e} /\ e.flags = {"ACK"}
      BY <1>3, <1>6, <3>1
    <3>3. AckBound'
      BY <1>3, <1>5, <2>1, <2>3
    <3> QED
      BY <1>1, <2>1, <2>2, <2>3, <3>2, <3>3 DEF NoneBeyond, FinPlace, EndTold
  <2>4. CASE nxt = Response /\ Reply({"ACK", "FIN"}, nxt, 1) /\ nxt' = nxt + 2 /\ peer' = "finWithData"
    <3>1. Adds({"ACK", "FIN"}, nxt, 1)
      BY <1>3, <2>4, ReplyAdds
    <3>2. PICK e : ToSet(toClient') = ToSet(toClient) \cup {e} /\ e.len = 1 /\ NextAck(e) = nxt + 1
      BY <1>3, <1>6, <3>1
    <3>3. AckBound'
      BY <1>3, <1>5, <2>1, <2>4
    <3>4. /\ una # Beyond /\ ack # Beyond /\ NextAck(e) # Beyond
          /\ \A s \in ToSet(toPeer) : s.ack # Beyond
          /\ \A s \in ToSet(toClient) : NextAck(s) # Beyond
      BY <1>2, <1>3, <1>4, <2>1, <2>4, <3>2 DEF AckBound, Beyond
    <3>5. NoneBeyond'
      BY <1>1, <2>1, <3>2, <3>4 DEF NoneBeyond, Beyond, NextAck
    <3> QED
      BY <1>1, <2>1, <2>2, <2>4, <3>2, <3>3, <3>5 DEF FinPlace, EndTold
  <2>5. CASE nxt = Response + 1 /\ Reply({"ACK", "FIN"}, nxt, 0) /\ nxt' = nxt + 1 /\ peer' = "fin"
    <3>1. Adds({"ACK", "FIN"}, nxt, 0)
      BY <1>3, <2>5, ReplyAdds
    <3>2. PICK e : ToSet(toClient') = ToSet(toClient) \cup {e} /\ e.len = 0
      BY <1>3, <1>6, <3>1
    <3>3. AckBound'
      BY <1>3, <1>5, <2>1, <2>5
    <3> QED
      BY <1>1, <2>1, <2>2, <2>5, <3>2, <3>3 DEF NoneBeyond, FinPlace, EndTold
  <2> QED
    BY <1>8, <2>3, <2>4, <2>5 DEF PeerSends
<1>9. CASE PeerReceives
  <2> DEFINE h == Head(toPeer)
  <2>1. /\ nxt' = nxt /\ toPeer # <<>>
        /\ una' = IF Valid(h) /\ h.ack > una THEN h.ack ELSE una
        /\ peer' = peer \/ (peer = "synReceived" /\ peer' = "established")
        /\ Reply({"ACK"}, nxt, 0) \/ toClient' = toClient
    BY <1>9, Received
  <2>2. h \in ToSet(toPeer) /\ ToSet(toPeer) = ToSet(toPeer') \cup {h} /\ h.ack \in Nat
    BY <1>9, Received, HeadOfPeer
  <2>3. AckBound'
    BY <1>3, <1>5, <2>1, <2>2
  <2>4. \A s \in ToSet(toClient') : s \in ToSet(toClient) \/ ("FIN" \notin s.flags /\ NextAck(s) = nxt + 1)
    <3>1. CASE Reply({"ACK"}, nxt, 0)
      <4>1. Adds({"ACK"}, nxt, 0)
        BY <1>3, <3>1, ReplyAdds
      <4>2. PICK e : ToSet(toClient') = ToSet(toClient) \cup {e} /\ e.flags = {"ACK"} /\ NextAck(e) = nxt + 1
        BY <1>3, <1>6, <4>1
      <4> QED
        BY <4>2
    <3> QED
      BY <2>1, <3>1
  <2>5. peer' \in {"fin", "finWithData"} \/ peer \in {"fin", "finWithData"} => peer' = peer
    BY <2>1
  <2>6. NoneBeyond'
    <3>1. SUFFICES ASSUME peer' = "finWithData", peer = "finWithData"
                   PROVE  /\ una' # Beyond /\ ack # Beyond
                          /\ \A s \in ToSet(toPeer') : s.ack # Beyond
                          /\ \A s \in ToSet(toClient') : NextAck(s) # Beyond
      BY <1>1, <2>5 DEF NoneBeyond, Beyond, NextAck
    <3>2. nxt = Response + 2
      BY <3>1 DEF Course, Sent
    <3>3. nxt + 1 # Beyond
      BY <1>3, <3>2 DEF Beyond
    <3> QED
      BY <1>2, <2>1, <2>2, <2>4, <3>1, <3>3 DEF NoneBeyond
  <2>7. FinPlace'
    <3>1. ASSUME NEW s \in ToSet(toClient'), "FIN" \in s.flags PROVE peer' = IF s.len = 1 THEN "finWithData" ELSE "fin"
      <4>1. peer = IF s.len = 1 THEN "finWithData" ELSE "fin"
        BY <1>2, <2>4, <3>1 DEF FinPlace
      <4> QED
        BY <2>5, <4>1
    <3> QED
      BY <1>1, <1>2, <2>5, <3>1 DEF FinPlace
  <2>8. EndTold'
    <3>1. SUFFICES ASSUME why = "fin"
                   PROVE  peer' \in {"fin", "finWithData"} /\ (una' >= LastAck' \/ \E s \in ToSet(toPeer') : Tells(s)')
      BY <1>1 DEF EndTold
    <3>2. peer' = peer /\ peer \in {"fin", "finWithData"}
      BY <1>2, <2>5, <3>1 DEF EndTold
    <3>3. LastAck' = LastAck /\ (\A s : Tells(s)' = Tells(s)) /\ LastAck \in Nat /\ nxt = Response + 2 /\ LastAck <= nxt
      BY <1>3, <3>2 DEF LastAck, Tells, Course, Sent
    <3>4. CASE una >= LastAck
      BY <1>3, <2>1, <2>2, <3>2, <3>3, <3>4
    <3>5. CASE Tells(h)
      <4>1. Valid(h) /\ h.ack = LastAck
        BY <3>3, <3>5 DEF Tells, Valid
      <4>2. una' >= LastAck
        BY <1>3, <2>1, <3>3, <4>1
      <4> QED
        BY <3>2, <3>3, <4>2
    <3>6. CASE \E s \in ToSet(toPeer') : Tells(s)
      BY <3>2, <3>3, <3>6
    <3> QED
      BY <1>2, <2>2, <3>1, <3>4, <3>5, <3>6 DEF EndTold
  <2> QED
    BY <2>3, <2>6, <2>7, <2>8
<1>10. CASE PeerResends \/ PeerResets
  BY <1>2, <1>10 DEF PeerResends, PeerResets, Fault
<1> QED
  BY <1>7, <1>8, <1>9, <1>10 DEF Peer

LEMMA AckNext == TcpTypeOK /\ Course /\ AckInv /\ [TcpNext]_tcpVars => AckInv'
<1> SUFFICES ASSUME TcpTypeOK, Course, AckInv, [TcpNext]_tcpVars PROVE AckInv'
  OBVIOUS
<1>1. CASE Network
  <2>1. faults' # 0
    BY <1>1, NetworkSteps DEF TcpTypeOK
  <2> QED
    BY <2>1 DEF AckInv
<1>2. CASE Done \/ UNCHANGED tcpVars
  BY <1>2 DEF Done, tcpVars, client, server, network, conn, AckInv, AckBound, NoneBeyond, Beyond,
              FinPlace, EndTold, LastAck, Tells, NextAck
<1> QED
  BY <1>1, <1>2, AckCalls, AckPoll, AckPeer DEF TcpNext, Client

LEMMA AckInit == TcpInit => AckInv
<1> SUFFICES ASSUME TcpInit PROVE AckInv
  OBVIOUS
<1>1. ToSet(<<>>) = {}
  BY DEF ToSet
<1> QED
  BY <1>1 DEF TcpInit, AckInv, AckBound, NoneBeyond, FinPlace, EndTold

-----------------------------------------------------------------------------
(* What holds of every connection.                                         *)
TcpInv == TcpTypeOK /\ Course /\ OrderInv /\ AckInv

(* The client and its peer keep to TcpInv, for a response of any length,   *)
(* any countdown and any number of faults.                                 *)
THEOREM TcpInvariance == TcpSpec => []TcpInv
<1>1. TcpInit => TcpInv
  BY TcpTypeInit, CourseInit, OrderInit, AckInit DEF TcpInv
<1>2. TcpInv /\ [TcpNext]_tcpVars => TcpInv'
  BY TcpTypeNext, CourseNext, OrderNext, AckNext DEF TcpInv
<1> QED
  BY <1>1, <1>2, PTL DEF TcpSpec

(* What recv hands out (TCP::recv, the buffer that poll fills) is the      *)
(* response from its beginning, in order and each unit once, whatever is   *)
(* lost, and complete when httpGet has seen its end and nothing was lost:  *)
(* as long as no data arrives twice or out of order, the client may do     *)
(* without the sequence numbers it does not look at.                       *)
THEOREM ResponseInOrder == TcpSpec => []DeliveredInOrder
<1>1. TcpInv => DeliveredInOrder
  BY DEF TcpInv, OrderInv, Ordered, Unbroken, DeliveredInOrder
<1> QED
  BY <1>1, TcpInvariance, PTL

(* When httpGet has read to the end of the response and closed, without a  *)
(* fault, the peer has an acknowledgment of all it sent, except for the    *)
(* FIN that came with data: the numbers conn.ack runs through, one too     *)
(* high after every pure ACK, end where they should.                       *)
THEOREM PeerHearsTheEnd == TcpSpec => []EverythingAcknowledged
<1>1. TcpInv => EverythingAcknowledged
  <2>1. SUFFICES ASSUME TcpInv, step = "end", why = "fin", faults = 0, toPeer = <<>>
                 PROVE  una = IF peer = "finWithData" THEN nxt - 1 ELSE nxt
    BY DEF EverythingAcknowledged
  <2>2. peer \in {"fin", "finWithData"} /\ una >= LastAck
    <3>1. ToSet(toPeer) = {}
      BY <2>1 DEF ToSet
    <3> QED
      BY <2>1, <3>1 DEF TcpInv, AckInv, EndTold
  <2>3. una <= nxt /\ nxt = Response + 2
    BY <2>1, <2>2 DEF TcpInv, Course, Sent
  <2>4. peer = "finWithData" => una # Response + 2
    BY <2>1 DEF TcpInv, AckInv, NoneBeyond, Beyond
  <2>5. una \in Nat /\ nxt \in Nat /\ Response \in Nat
    BY <2>1, TcpAssumption DEF TcpInv, TcpTypeOK
  <2> QED
    BY <2>2, <2>3, <2>4, <2>5 DEF LastAck
<1> QED
  BY <1>1, TcpInvariance, PTL
=============================================================================
