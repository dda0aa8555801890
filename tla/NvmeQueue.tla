----------------------------- MODULE NvmeQueue -----------------------------
(***************************************************************************)
(* The I/O queues of the NVMe driver (programs/include/nvme.hpp): calls    *)
(* that wait for one command, batches and asynchronous reads over one      *)
(* submission ring and one completion ring, against a device that fetches, *)
(* completes and fails commands when and in what order it likes.           *)
(*                                                                         *)
(* A command is known by a number that never repeats; the code sees its    *)
(* low sixteen bits, CidOf.  The ring of completions has no producer index *)
(* the driver could read: an entry is new if its phase bit is the driver's *)
(* ioPhase, which flips at every wrap.                                     *)
(*                                                                         *)
(* The callers are Ext4 and TemrixFs inside one task, so calls do not      *)
(* overlap.  Waiting calls move data through one DMA buffer, of which the  *)
(* commands of a batch use a part each; asynchronous reads have buffers of *)
(* their own, are only made by Ext4::readFileAsync, which has at most two  *)
(* pools of them in flight and drains all before any other call is made.   *)
(* Every caller passes a PRP list, so building a command does not fail.    *)
(***************************************************************************)
EXTENDS Integers, FiniteSets

CONSTANTS
    Depth,          \* NVME_QUEUE_DEPTH, of either ring and of pendingIos
    CidMod,         \* 2^16
    MaxCommands,    \* bound on the model: commands in one behaviour
    MaxLate         \* bound on the model: late commands when a call begins

ASSUME QueueAssumption ==
    /\ Depth \in Nat /\ Depth >= 4
    /\ CidMod \in Nat /\ CidMod >= Depth /\ CidMod % Depth = 0
    /\ {MaxCommands, MaxLate} \subseteq Nat

VARIABLES
    issued,         \* commands built so far; nextCid is CidOf(issued)
    sq,             \* iosq, the submission ring
    ioSqTail,
    cq,             \* iocq, the completion ring
    ioCqHead,
    ioPhase,
    pendingIos,     \* slots of pendingIos in use
    async,          \* asynchronous reads since nothing was in flight
    call,           \* the last call: op, its commands own, and those left over
    state,          \* "busy", "ok" or "failed"
    left,           \* commands of the call not yet answered
    got,            \* completions the call took for answers to its commands
    err,            \* errors so far
    dma,            \* whose data is in each part of the DMA buffer
    sqDoorbell,     \* what the device has been told of the tail
    sqHead,         \* commands before it have been fetched
    running,        \* commands the device is working on
    cqTail,         \* where the device puts its next completion
    devPhase,
    open,           \* commands whose completion has not been taken off the ring
    overrun         \* a command was put over one the device had not fetched

driver == <<issued, sq, ioSqTail, sqDoorbell, overrun>>
ring == <<ioCqHead, ioPhase>>
answer == <<state, left, got, err>>
device == <<cq, sqHead, running, cqTail, devPhase>>
vars == <<driver, ring, answer, device, pendingIos, async, call, dma, open>>

Slot == 0 .. Depth - 1
After(i) == IF i = Depth - 1 THEN 0 ELSE i + 1      \* (i + 1) % NVME_QUEUE_DEPTH
SlotOf(n) == n % Depth
CidOf(n) == n % CidMod
Part == 1 .. Depth - 1

Command == {c \in [id : Nat, kind : {"read", "write", "flush"}, part : 0 .. Depth - 1] :
               c.part = 0 => c.kind # "write"}
Completion == [cmd : Command, ok : BOOLEAN, phase : {0, 1}, data : Nat]

Cmd(n, kind, part) == [id |-> n, kind |-> kind, part |-> part]
Cqe(c, ok, phase, data) == [cmd |-> c, ok |-> ok, phase |-> phase, data |-> data]
NoCommand == Cmd(0, "flush", 0)                     \* a ring of zeroes

-----------------------------------------------------------------------------
(* createIoCq and createIoSq took the identifiers 0 and 1.                 *)
Init ==
    /\ issued = 2
    /\ sq = [i \in Slot |-> NoCommand]
    /\ cq = [i \in Slot |-> Cqe(NoCommand, TRUE, 0, 0)]
    /\ ioSqTail = 0 /\ sqDoorbell = 0 /\ sqHead = 0
    /\ ioCqHead = 0 /\ cqTail = 0
    /\ ioPhase = 1 /\ devPhase = 1
    /\ pendingIos = {} /\ async = {} /\ running = {} /\ open = {}
    /\ call = [op |-> "none", own |-> {}, late |-> {}]
    /\ state = "ok" /\ left = {} /\ got = {} /\ err = FALSE
    /\ dma = [p \in Part |-> 0]
    /\ overrun = FALSE

(* ioSubmitOne: nothing asks whether the ring has room.                    *)
ioSubmitOne(c) ==
    /\ issued < MaxCommands
    /\ issued' = issued + 1
    /\ sq' = [sq EXCEPT ![ioSqTail] = c]
    /\ ioSqTail' = After(ioSqTail)
    /\ open' = open \cup {c}
    /\ overrun' = (overrun \/ After(ioSqTail) = sqHead)

ioSubmit(c) == ioSubmitOne(c) /\ sqDoorbell' = After(ioSqTail)

(* A call begins; the commands still open are late ones of earlier calls,  *)
(* given up on.                                                            *)
Free == state # "busy"

Start(op, own, late) ==
    /\ Free
    /\ Cardinality(late) <= MaxLate
    /\ call' = [op |-> op, own |-> own, late |-> late]
    /\ state' = "busy"
    /\ left' = own /\ got' = {} /\ err' = FALSE

Waiting(kind) ==
    LET c == Cmd(issued, kind, 1)
    IN  /\ async = {}
        /\ Start("one", {c}, open)
        /\ ioSubmit(c)
        /\ UNCHANGED <<ring, device, pendingIos, async>>

readSectors == Waiting("read") /\ UNCHANGED dma
writeSectors == Waiting("write") /\ dma' = [dma EXCEPT ![1] = issued]
flush == Waiting("flush") /\ UNCHANGED dma

(* A batch of n reads: its commands are stored one by one, and the device  *)
(* is told when the last is.                                               *)
BatchOf(n) == {Cmd(issued + i - 1, "read", i) : i \in 1 .. n}

readSectorsBatch(n) ==
    /\ async = {}
    /\ issued + n <= MaxCommands
    /\ Start("batch", BatchOf(n), open)
    /\ UNCHANGED <<driver, ring, device, pendingIos, async, dma, open>>

Unsent == {c \in call.own : c.id >= issued}

BatchAdd ==
    /\ state = "busy" /\ call.op = "batch"
    /\ \E c \in Unsent :
          /\ c.id = issued
          /\ ioSubmitOne(c)
          /\ sqDoorbell' = IF Unsent = {c} THEN After(ioSqTail) ELSE sqDoorbell
    /\ UNCHANGED <<ring, answer, device, pendingIos, async, call, dma>>

-----------------------------------------------------------------------------
(* popIoCqe: the entry at the head, if it is new, is taken off the ring.   *)
cqe == cq[ioCqHead]
New == cqe.phase = ioPhase

(* Mutant: the phase stays the same when the ring wraps.                   *)
PopNoFlip ==
    /\ New
    /\ ioCqHead' = After(ioCqHead)
    /\ ioPhase' = ioPhase
    /\ open' = open \ {cqe.cmd}

popIoCqe ==
    /\ New
    /\ ioCqHead' = After(ioCqHead)
    /\ ioPhase' = IF After(ioCqHead) = 0 THEN 1 - ioPhase ELSE ioPhase
    /\ open' = open \ {cqe.cmd}

Return(ok) == state' = IF ok THEN "ok" ELSE "failed"
Answers(c) == CidOf(c.id) = CidOf(cqe.cmd.id)

(* ioCompleteFor: completions of other commands are dropped; 0 stands for  *)
(* any command.                                                            *)
Expected(c) == CidOf(c.id) = 0 \/ Answers(c)

(* Mutant: the first completion will do.                                   *)
FirstComeFirstServed(c) == TRUE

Accepted(c) == Expected(c)

ioCompleteFor ==
    /\ state = "busy" /\ call.op = "one"
    /\ popIoCqe
    /\ \E c \in call.own :
          IF Accepted(c)
          THEN Return(cqe.ok) /\ got' = {cqe} /\ UNCHANGED <<left, err>>
          ELSE UNCHANGED answer
    /\ UNCHANGED <<driver, device, pendingIos, async, call, dma>>

(* The batch's loop: a completion answers the command with its identifier  *)
(* if that one is not answered yet.                                        *)
BatchCollect ==
    /\ state = "busy" /\ call.op = "batch" /\ Unsent = {}
    /\ popIoCqe
    /\ \/ \E c \in left :
             /\ Answers(c)
             /\ left' = left \ {c}
             /\ got' = got \cup {cqe}
             /\ err' = (err \/ ~cqe.ok)
             /\ IF left = {c} THEN Return(~err /\ cqe.ok) ELSE UNCHANGED state
       \/ (\A c \in left : ~Answers(c)) /\ UNCHANGED answer
    /\ UNCHANGED <<driver, device, pendingIos, async, call, dma>>

(* The iterations of a waiting call run out.                               *)
TimeOut ==
    /\ state = "busy" /\ call.op \in {"one", "batch"} /\ Unsent = {}
    /\ Return(FALSE)
    /\ UNCHANGED <<driver, ring, device, pendingIos, async, call, dma, left, got, err, open>>

-----------------------------------------------------------------------------
(* readAsync, by a caller with at most two pools of EXT4_ASYNC_BATCH_SIZE  *)
(* blocks; it refuses when inflight() is NVME_QUEUE_DEPTH - 1.             *)
AsyncBatch == (Depth \div 2) - 1

(* Mutant: the slot of the next command is marked.                         *)
MarkNext(n) == pendingIos \cup {SlotOf(n + 1)}

Marked(n) == pendingIos \cup {SlotOf(n)}

readAsync ==
    LET c == Cmd(issued, "read", 0)
    IN  /\ Free
        /\ Cardinality(async) < 2 * AsyncBatch
        /\ Cardinality(pendingIos) < Depth - 1
        /\ ioSubmit(c)
        /\ pendingIos' = Marked(issued)
        /\ async' = async \cup {c}
        /\ UNCHANGED <<ring, answer, device, call, dma>>

(* drainAll polls until no slot is in use.  It has no time-out, counts a   *)
(* poll of an empty ring as an error, and a failed read that is the last   *)
(* one as none.                                                            *)
drainAll ==
    /\ async # {}
    /\ Start("drain", async, open \ async)
    /\ UNCHANGED <<driver, ring, device, pendingIos, async, dma, open>>

Drained == IF pendingIos' = {} THEN Return(~err') /\ async' = {} ELSE UNCHANGED <<state, async>>

pollAny ==
    /\ state = "busy" /\ call.op = "drain"
    /\ popIoCqe
    /\ pendingIos' = pendingIos \ {SlotOf(cqe.cmd.id)}
    /\ err' = (err \/ (~cqe.ok /\ pendingIos' # {}))
    /\ Drained
    /\ UNCHANGED <<driver, device, left, got, call, dma>>

(* Mutant: an empty ring ends the drain.                                   *)
EmptyEnds ==
    /\ state = "busy" /\ call.op = "drain" /\ ~New
    /\ Return(FALSE)
    /\ async' = {}
    /\ UNCHANGED <<driver, ring, device, pendingIos, call, left, got, err, dma, open>>

PollEmpty ==
    /\ state = "busy" /\ call.op = "drain" /\ ~New
    /\ err' = TRUE
    /\ UNCHANGED <<driver, ring, device, pendingIos, async, call, state, left, got, dma, open>>

-----------------------------------------------------------------------------
(* The device.  It moves a command's data when it completes it: a read     *)
(* changes its part of the buffer, a write takes what is there.            *)
Fetch ==
    /\ sqHead # sqDoorbell
    /\ running' = running \cup {sq[sqHead]}
    /\ sqHead' = After(sqHead)
    /\ UNCHANGED <<driver, ring, answer, cq, cqTail, devPhase, pendingIos, async, call, dma, open>>

Moved(c) == IF c.kind = "write" THEN dma[c.part] ELSE c.id

Complete(c, ok) ==
    /\ After(cqTail) # ioCqHead
    /\ cq' = [cq EXCEPT ![cqTail] = Cqe(c, ok, devPhase, Moved(c))]
    /\ cqTail' = After(cqTail)
    /\ devPhase' = IF After(cqTail) = 0 THEN 1 - devPhase ELSE devPhase
    /\ running' = running \ {c}
    /\ dma' = IF ok /\ c.kind = "read" /\ c.part # 0 THEN [dma EXCEPT ![c.part] = c.id] ELSE dma
    /\ UNCHANGED <<driver, ring, answer, sqHead, pendingIos, async, call, open>>

Calls == \/ readSectors \/ writeSectors \/ flush
         \/ \E n \in Part : readSectorsBatch(n)
         \/ readAsync \/ drainAll

Loops == BatchAdd \/ ioCompleteFor \/ BatchCollect \/ TimeOut \/ pollAny \/ PollEmpty

Device == Fetch \/ \E c \in running, ok \in BOOLEAN : Complete(c, ok)

NoCall == Free /\ UNCHANGED vars

Next == Calls \/ Loops \/ Device \/ NoCall

(* The driver goes on with its loop, and the device with what it was given. *)
Fairness == WF_vars(Loops) /\ WF_vars(Device)

Spec == Init /\ [][Next]_vars /\ Fairness

-----------------------------------------------------------------------------
(* A waiting call or a batch that succeeds took the completions of its own *)
(* commands, each once, whatever earlier calls gave up on and the device   *)
(* completes meanwhile.  Two things make an exception: a late command whose *)
(* sixteen bits are those of a new one, and a waiting call with identifier *)
(* 0, which takes what comes.                                              *)
Mistakable ==
    \E c \in call.own, d \in call.late :
        CidOf(c.id) = CidOf(d.id) \/ (call.op = "one" /\ CidOf(c.id) = 0)

Succeeded == state = "ok" /\ call.op \in {"one", "batch"} /\ ~overrun

AnswerIsOwn == Succeeded /\ ~Mistakable => {g.cmd : g \in got} = call.own

(* When a call succeeds, the data it moved is its own: a read leaves its   *)
(* data in the buffer, a write took what its caller had put there.  A read *)
(* given up on is the exception, since it may still write to the buffer.   *)
DataIsOwn ==
    Succeeded /\ ~Mistakable /\ (\A c \in call.own, d \in call.late : d.kind = "read" => d.part # c.part)
    => \A g \in got : /\ g.data = g.cmd.id
                      /\ g.cmd.kind = "read" => dma[g.cmd.part] = g.cmd.id

(* When drainAll returns, none of the reads it was called for is still at  *)
(* the device.  A late command in one of their slots makes an exception:   *)
(* its completion clears the slot, and the data is copied too early.       *)
SlotTaken == \E c \in call.own, d \in call.late : SlotOf(c.id) = SlotOf(d.id)

DrainMeansDone ==
    call.op = "drain" /\ Free /\ ~overrun /\ ~SlotTaken => call.own \cap open = {}

(* drainAll ends, though it has no time-out and the completion of a late   *)
(* command may clear a slot before its time: if the device completes what  *)
(* it was given, no slot stays in use.                                     *)
DrainEnds == [](state = "busy" /\ call.op = "drain" => <>(Free \/ overrun))
=============================================================================
