---------------------------- MODULE MCNvmeQueue ----------------------------
(* The NVMe queues with rings of four entries and identifiers of two bits. *)
EXTENDS NvmeQueue

(* What was fetched from the one ring and taken off the other is not read  *)
(* again; a submission ring that was overrun is seen as it is.             *)
Between(i, from, to) == IF from <= to THEN from <= i /\ i < to ELSE from <= i \/ i < to
Unread(r, from, to, none) == [i \in Slot |-> IF Between(i, from, to) THEN r[i] ELSE none]

QueueView ==
    <<IF overrun THEN sq ELSE Unread(sq, sqHead, ioSqTail, NoCommand),
      Unread(cq, ioCqHead, cqTail, Cqe(NoCommand, TRUE, 0, 0)),
      issued, ioSqTail, sqDoorbell, overrun, ring, answer, sqHead, running, cqTail, devPhase,
      pendingIos, async, call, dma, open>>
=============================================================================
