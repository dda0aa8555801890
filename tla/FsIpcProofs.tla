---------------------------- MODULE FsIpcProofs ----------------------------
(***************************************************************************)
(* Proofs about FsIpc for any number of clients, slots and requests: the   *)
(* registry's mutual exclusion and that neither side sleeps through the    *)
(* other's message.                                                        *)
(*                                                                         *)
(* The heart of the invariant is Reaches(i): while a published request is  *)
(* unanswered the server is awake and either has a notification pending or *)
(* has not yet passed slot i in its scan.                                  *)
(***************************************************************************)
EXTENDS FsIpc, TLAPS

(* The server's scan will still come to slot i before the server sleeps.   *)
Reaches(i) ==
    /\ Server \notin asleep
    /\ \/ Server \in pending
       \/ spc \in {"scan", "status", "execute", "respond", "answer"} /\ sslot <= i
       \/ spc = "notify" /\ sslot < i

RequestsReached ==
    \A c \in Client : cpc[c] \in {"check", "wait"} /\ status[cslot[c]] = "Pending"
                        => Reaches(cslot[c])

AboutToWait(c) == c \in alive /\ (cpc[c] = "wait" \/ c \in asleep)

AnswersDelivered ==
    \A c \in Client : AboutToWait(c) /\ status[cslot[c]] # "Pending" =>
        \/ c \in pending
        \/ spc = "notify" /\ sslot = cslot[c]

(* From FillBody on, the pid in a client's slot is the client's.           *)
OwnPid ==
    \A c \in Client : Holds(c) /\ cpc[c] \notin {"path", "body"} => body[cslot[c]][1] = c

Sleepers ==
    /\ asleep \cap pending = {}
    /\ \A c \in Client : c \in asleep => cpc[c] = "check"
    /\ Server \in asleep => spc = "scan"
    /\ spc = "wait" => sslot = 1
    /\ Server \in asleep => sslot = 1

IInv ==
    /\ TypeOK
    /\ SlotExclusive
    /\ RequestsReached
    /\ AnswersDelivered
    /\ OwnPid
    /\ Sleepers

(* The tags a client writes, and the zeroed one, are tags. *)
LEMMA TagFacts ==
    /\ None \in Tag
    /\ \A c \in Client, n \in 0 .. MaxRequests : <<c, n>> \in Tag
BY DEF Tag, Request

(* The initial state satisfies the inductive invariant. *)
LEMMA InitIInv == Init => IInv
<1> SUFFICES ASSUME Init PROVE IInv
  OBVIOUS
<1> USE FsAssumption DEF Init
<1>1. TypeOK
  BY DEF TypeOK, ClientPc, ServerPc, Tag, Request, Slot, None
<1>2. SlotExclusive /\ RequestsReached /\ AnswersDelivered /\ OwnPid /\ Sleepers
  BY DEF SlotExclusive, RequestsReached, AnswersDelivered, AboutToWait, OwnPid, Sleepers, Holds
<1> QED
  BY <1>1, <1>2 DEF IInv

LEMMA ClientStepIInv ==
    ASSUME IInv, NEW c \in Client, ClientStep(c) \/ Crash(c) PROVE IInv'
<1> USE FsAssumption
<1>0. c # Server /\ c \in Process
  OBVIOUS
<1>1. CASE Begin(c)
  <2> USE <1>0, <1>1 DEF Begin, Goto, Awake, waitVars, slotVars, clientVars, serverVars, Wait, Notify, Exit, IInv
  <2>1. TypeOK'
    BY TagFacts DEF TypeOK, ClientPc, ServerPc, Slot
  <2>2. SlotExclusive'
    BY DEF TypeOK, SlotExclusive, Holds
  <2>3. RequestsReached'
    BY DEF TypeOK, SlotExclusive, Holds, RequestsReached, Reaches, Sleepers, Slot
  <2>4. AnswersDelivered'
    BY DEF TypeOK, SlotExclusive, Holds, AnswersDelivered, AboutToWait, Sleepers, OwnPid
  <2>5. OwnPid'
    BY DEF TypeOK, SlotExclusive, Holds, OwnPid
  <2>6. Sleepers'
    BY DEF TypeOK, Sleepers
  <2> QED
    BY <2>1, <2>2, <2>3, <2>4, <2>5, <2>6
<1>2. CASE ClaimSlot(c)
  <2> USE <1>0, <1>2 DEF ClaimSlot, Goto, Awake, waitVars, slotVars, clientVars, serverVars, Wait, Notify, Exit, IInv
  <2>1. TypeOK'
    BY TagFacts DEF TypeOK, ClientPc, ServerPc, Slot
  <2>2. SlotExclusive'
    BY DEF TypeOK, SlotExclusive, Holds
  <2>3. RequestsReached'
    BY DEF TypeOK, SlotExclusive, Holds, RequestsReached, Reaches, Sleepers, Slot
  <2>4. AnswersDelivered'
    BY DEF TypeOK, SlotExclusive, Holds, AnswersDelivered, AboutToWait, Sleepers, OwnPid
  <2>5. OwnPid'
    BY DEF TypeOK, SlotExclusive, Holds, OwnPid
  <2>6. Sleepers'
    BY DEF TypeOK, Sleepers
  <2> QED
    BY <2>1, <2>2, <2>3, <2>4, <2>5, <2>6
<1>3. CASE ClaimNext(c)
  <2> USE <1>0, <1>3 DEF ClaimNext, Goto, Awake, waitVars, slotVars, clientVars, serverVars, Wait, Notify, Exit, IInv
  <2>1. TypeOK'
    BY TagFacts DEF TypeOK, ClientPc, ServerPc, Slot
  <2>2. SlotExclusive'
    BY DEF TypeOK, SlotExclusive, Holds
  <2>3. RequestsReached'
    BY DEF TypeOK, SlotExclusive, Holds, RequestsReached, Reaches, Sleepers, Slot
  <2>4. AnswersDelivered'
    BY DEF TypeOK, SlotExclusive, Holds, AnswersDelivered, AboutToWait, Sleepers, OwnPid
  <2>5. OwnPid'
    BY DEF TypeOK, SlotExclusive, Holds, OwnPid
  <2>6. Sleepers'
    BY DEF TypeOK, Sleepers
  <2> QED
    BY <2>1, <2>2, <2>3, <2>4, <2>5, <2>6
<1>4. CASE ClaimFails(c)
  <2> USE <1>0, <1>4 DEF ClaimFails, Goto, Awake, waitVars, slotVars, clientVars, serverVars, Wait, Notify, Exit, IInv
  <2>1. TypeOK'
    BY TagFacts DEF TypeOK, ClientPc, ServerPc, Slot
  <2>2. SlotExclusive'
    BY DEF TypeOK, SlotExclusive, Holds
  <2>3. RequestsReached'
    BY DEF TypeOK, SlotExclusive, Holds, RequestsReached, Reaches, Sleepers, Slot
  <2>4. AnswersDelivered'
    BY DEF TypeOK, SlotExclusive, Holds, AnswersDelivered, AboutToWait, Sleepers, OwnPid
  <2>5. OwnPid'
    BY DEF TypeOK, SlotExclusive, Holds, OwnPid
  <2>6. Sleepers'
    BY DEF TypeOK, Sleepers
  <2> QED
    BY <2>1, <2>2, <2>3, <2>4, <2>5, <2>6
<1>5. CASE FillPath(c)
  <2> USE <1>0, <1>5 DEF FillPath, Goto, Awake, waitVars, slotVars, clientVars, serverVars, Wait, Notify, Exit, IInv
  <2>1. TypeOK'
    BY TagFacts DEF TypeOK, ClientPc, ServerPc, Slot
  <2>2. SlotExclusive'
    BY DEF TypeOK, SlotExclusive, Holds
  <2>3. RequestsReached'
    BY DEF TypeOK, SlotExclusive, Holds, RequestsReached, Reaches, Sleepers, Slot
  <2>4. AnswersDelivered'
    BY DEF TypeOK, SlotExclusive, Holds, AnswersDelivered, AboutToWait, Sleepers, OwnPid
  <2>5. OwnPid'
    BY DEF TypeOK, SlotExclusive, Holds, OwnPid
  <2>6. Sleepers'
    BY DEF TypeOK, Sleepers
  <2> QED
    BY <2>1, <2>2, <2>3, <2>4, <2>5, <2>6
<1>6. CASE FillBody(c)
  <2> USE <1>0, <1>6 DEF FillBody, Goto, Awake, waitVars, slotVars, clientVars, serverVars, Wait, Notify, Exit, IInv
  <2>1. TypeOK'
    BY TagFacts DEF TypeOK, ClientPc, ServerPc, Slot
  <2>2. SlotExclusive'
    BY DEF TypeOK, SlotExclusive, Holds
  <2>3. RequestsReached'
    BY DEF TypeOK, SlotExclusive, Holds, RequestsReached, Reaches, Sleepers, Slot
  <2>4. AnswersDelivered'
    BY DEF TypeOK, SlotExclusive, Holds, AnswersDelivered, AboutToWait, Sleepers, OwnPid
  <2>5. OwnPid'
    BY DEF TypeOK, SlotExclusive, Holds, OwnPid
  <2>6. Sleepers'
    BY DEF TypeOK, Sleepers
  <2> QED
    BY <2>1, <2>2, <2>3, <2>4, <2>5, <2>6
<1>7. CASE Publish(c)
  <2> USE <1>0, <1>7 DEF Publish, Goto, Awake, waitVars, slotVars, clientVars, serverVars, Wait, Notify, Exit, IInv
  <2>1. TypeOK'
    BY TagFacts DEF TypeOK, ClientPc, ServerPc, Slot
  <2>2. SlotExclusive'
    BY DEF TypeOK, SlotExclusive, Holds
  <2>3. RequestsReached'
    <3> SUFFICES ASSUME NEW d \in Client, cpc'[d] \in {"check", "wait"},
                        status'[cslot[d]] = "Pending"
                 PROVE  Reaches(cslot[d])
      BY DEF RequestsReached, Reaches
    <3>1. d # c /\ cpc[d] \in {"check", "wait"}
      BY DEF TypeOK
    <3>2. cslot[d] # cslot[c] /\ status[cslot[d]] = "Pending"
      BY <3>1 DEF TypeOK, SlotExclusive, Holds
    <3> QED
      BY <3>1, <3>2 DEF RequestsReached
  <2>4. AnswersDelivered'
    BY DEF TypeOK, SlotExclusive, Holds, AnswersDelivered, AboutToWait, Sleepers, OwnPid
  <2>5. OwnPid'
    BY DEF TypeOK, SlotExclusive, Holds, OwnPid
  <2>6. Sleepers'
    BY DEF TypeOK, Sleepers
  <2> QED
    BY <2>1, <2>2, <2>3, <2>4, <2>5, <2>6
<1>8. CASE ClientNotify(c)
  <2> USE <1>0, <1>8 DEF ClientNotify, Goto, Awake, waitVars, slotVars, clientVars, serverVars, Wait, Notify, Exit, IInv
  <2>1. TypeOK'
    BY TagFacts DEF TypeOK, ClientPc, ServerPc, Slot
  <2>2. SlotExclusive'
    BY DEF TypeOK, SlotExclusive, Holds
  <2>3. RequestsReached'
    BY DEF TypeOK, SlotExclusive, Holds, RequestsReached, Reaches, Sleepers, Slot
  <2>4. AnswersDelivered'
    BY DEF TypeOK, SlotExclusive, Holds, AnswersDelivered, AboutToWait, Sleepers, OwnPid
  <2>5. OwnPid'
    BY DEF TypeOK, SlotExclusive, Holds, OwnPid
  <2>6. Sleepers'
    BY DEF TypeOK, Sleepers
  <2> QED
    BY <2>1, <2>2, <2>3, <2>4, <2>5, <2>6
<1>9. CASE Check(c)
  <2> USE <1>0, <1>9 DEF Check, Goto, Awake, waitVars, slotVars, clientVars, serverVars, Wait, Notify, Exit, IInv
  <2>1. TypeOK'
    BY TagFacts DEF TypeOK, ClientPc, ServerPc, Slot
  <2>2. SlotExclusive'
    BY DEF TypeOK, SlotExclusive, Holds
  <2>3. RequestsReached'
    BY DEF TypeOK, SlotExclusive, Holds, RequestsReached, Reaches, Sleepers, Slot
  <2>4. AnswersDelivered'
    BY DEF TypeOK, SlotExclusive, Holds, AnswersDelivered, AboutToWait, Sleepers, OwnPid
  <2>5. OwnPid'
    BY DEF TypeOK, SlotExclusive, Holds, OwnPid
  <2>6. Sleepers'
    BY DEF TypeOK, Sleepers
  <2> QED
    BY <2>1, <2>2, <2>3, <2>4, <2>5, <2>6
<1>10. CASE ClientWait(c)
  <2> USE <1>0, <1>10 DEF ClientWait, Goto, Awake, waitVars, slotVars, clientVars, serverVars, Wait, Notify, Exit, IInv
  <2>1. TypeOK'
    BY TagFacts DEF TypeOK, ClientPc, ServerPc, Slot
  <2>2. SlotExclusive'
    BY DEF TypeOK, SlotExclusive, Holds
  <2>3. RequestsReached'
    BY DEF TypeOK, SlotExclusive, Holds, RequestsReached, Reaches, Sleepers, Slot
  <2>4. AnswersDelivered'
    BY DEF TypeOK, SlotExclusive, Holds, AnswersDelivered, AboutToWait, Sleepers, OwnPid
  <2>5. OwnPid'
    BY DEF TypeOK, SlotExclusive, Holds, OwnPid
  <2>6. Sleepers'
    BY DEF TypeOK, Sleepers
  <2> QED
    BY <2>1, <2>2, <2>3, <2>4, <2>5, <2>6
<1>11. CASE Read(c)
  <2> USE <1>0, <1>11 DEF Read, Goto, Awake, waitVars, slotVars, clientVars, serverVars, Wait, Notify, Exit, IInv
  <2>1. TypeOK'
    BY TagFacts DEF TypeOK, ClientPc, ServerPc, Slot
  <2>2. SlotExclusive'
    BY DEF TypeOK, SlotExclusive, Holds
  <2>3. RequestsReached'
    BY DEF TypeOK, SlotExclusive, Holds, RequestsReached, Reaches, Sleepers, Slot
  <2>4. AnswersDelivered'
    BY DEF TypeOK, SlotExclusive, Holds, AnswersDelivered, AboutToWait, Sleepers, OwnPid
  <2>5. OwnPid'
    BY DEF TypeOK, SlotExclusive, Holds, OwnPid
  <2>6. Sleepers'
    BY DEF TypeOK, Sleepers
  <2> QED
    BY <2>1, <2>2, <2>3, <2>4, <2>5, <2>6
<1>12. CASE Release(c)
  <2> USE <1>0, <1>12 DEF Release, Goto, Awake, waitVars, slotVars, clientVars, serverVars, Wait, Notify, Exit, IInv
  <2>1. TypeOK'
    BY TagFacts DEF TypeOK, ClientPc, ServerPc, Slot
  <2>2. SlotExclusive'
    BY DEF TypeOK, SlotExclusive, Holds
  <2>3. RequestsReached'
    BY DEF TypeOK, SlotExclusive, Holds, RequestsReached, Reaches, Sleepers, Slot
  <2>4. AnswersDelivered'
    BY DEF TypeOK, SlotExclusive, Holds, AnswersDelivered, AboutToWait, Sleepers, OwnPid
  <2>5. OwnPid'
    BY DEF TypeOK, SlotExclusive, Holds, OwnPid
  <2>6. Sleepers'
    BY DEF TypeOK, Sleepers
  <2> QED
    BY <2>1, <2>2, <2>3, <2>4, <2>5, <2>6
<1>13. CASE Crash(c)
  <2> USE <1>0, <1>13 DEF Crash, Goto, Awake, waitVars, slotVars, clientVars, serverVars, Wait, Notify, Exit, IInv
  <2>1. TypeOK'
    BY TagFacts DEF TypeOK, ClientPc, ServerPc, Slot
  <2>2. SlotExclusive'
    BY DEF TypeOK, SlotExclusive, Holds
  <2>3. RequestsReached'
    BY DEF TypeOK, SlotExclusive, Holds, RequestsReached, Reaches, Sleepers, Slot
  <2>4. AnswersDelivered'
    BY DEF TypeOK, SlotExclusive, Holds, AnswersDelivered, AboutToWait, Sleepers, OwnPid
  <2>5. OwnPid'
    BY DEF TypeOK, SlotExclusive, Holds, OwnPid
  <2>6. Sleepers'
    BY DEF TypeOK, Sleepers
  <2> QED
    BY <2>1, <2>2, <2>3, <2>4, <2>5, <2>6
<1> QED
  BY <1>1, <1>2, <1>3, <1>4, <1>5, <1>6, <1>7, <1>8, <1>9, <1>10, <1>11, <1>12, <1>13 DEF ClientStep

LEMMA ServerStepIInv == IInv /\ ServerStep => IInv'
<1> SUFFICES ASSUME IInv, ServerStep PROVE IInv'
  OBVIOUS
<1> USE FsAssumption
<1>1. CASE ScanClaimed
  <2> USE <1>1 DEF ScanClaimed, ServerGoto, NextSlot, Advance, Awake, waitVars, slotVars, clientVars, serverVars, Wait, Notify, IInv
  <2>1. TypeOK'
    BY TagFacts DEF TypeOK, ClientPc, ServerPc, Slot
  <2>2. SlotExclusive'
    BY DEF TypeOK, SlotExclusive, Holds
  <2>3. RequestsReached'
    BY DEF TypeOK, SlotExclusive, Holds, RequestsReached, Reaches, Sleepers, Slot
  <2>4. AnswersDelivered'
    BY DEF TypeOK, SlotExclusive, Holds, AnswersDelivered, AboutToWait, Sleepers, OwnPid
  <2>5. OwnPid'
    BY DEF TypeOK, SlotExclusive, Holds, OwnPid
  <2>6. Sleepers'
    BY DEF TypeOK, Sleepers
  <2> QED
    BY <2>1, <2>2, <2>3, <2>4, <2>5, <2>6
<1>2. CASE ScanFree
  <2> USE <1>2 DEF ScanFree, ServerGoto, NextSlot, Advance, Awake, waitVars, slotVars, clientVars, serverVars, Wait, Notify, IInv
  <2>1. TypeOK'
    BY TagFacts DEF TypeOK, ClientPc, ServerPc, Slot
  <2>2. SlotExclusive'
    BY DEF TypeOK, SlotExclusive, Holds
  <2>3. RequestsReached'
    <3> SUFFICES ASSUME NEW d \in Client, cpc[d] \in {"check", "wait"},
                        status[cslot[d]] = "Pending"
                 PROVE  Reaches(cslot[d])'
      BY DEF RequestsReached
    <3>1. Reaches(cslot[d]) /\ claimed[cslot[d]]
      BY DEF RequestsReached, SlotExclusive, Holds
    <3>2. cslot[d] # sslot /\ cslot[d] \in Nat /\ sslot \in Nat /\ cslot[d] <= NumSlots
      BY <3>1 DEF TypeOK, Slot
    <3>3. CASE Server \in pending
      BY <3>1, <3>3 DEF Reaches
    <3>4. CASE sslot < cslot[d]
      BY <3>1, <3>2, <3>4 DEF Reaches
    <3> QED
      BY <3>1, <3>2, <3>3, <3>4 DEF Reaches
  <2>4. AnswersDelivered'
    BY DEF TypeOK, SlotExclusive, Holds, AnswersDelivered, AboutToWait, Sleepers, OwnPid
  <2>5. OwnPid'
    BY DEF TypeOK, SlotExclusive, Holds, OwnPid
  <2>6. Sleepers'
    BY DEF TypeOK, Sleepers
  <2> QED
    BY <2>1, <2>2, <2>3, <2>4, <2>5, <2>6
<1>3. CASE StatusPending
  <2> USE <1>3 DEF StatusPending, ServerGoto, NextSlot, Advance, Awake, waitVars, slotVars, clientVars, serverVars, Wait, Notify, IInv
  <2>1. TypeOK'
    BY TagFacts DEF TypeOK, ClientPc, ServerPc, Slot
  <2>2. SlotExclusive'
    BY DEF TypeOK, SlotExclusive, Holds
  <2>3. RequestsReached'
    BY DEF TypeOK, SlotExclusive, Holds, RequestsReached, Reaches, Sleepers, Slot
  <2>4. AnswersDelivered'
    BY DEF TypeOK, SlotExclusive, Holds, AnswersDelivered, AboutToWait, Sleepers, OwnPid
  <2>5. OwnPid'
    BY DEF TypeOK, SlotExclusive, Holds, OwnPid
  <2>6. Sleepers'
    BY DEF TypeOK, Sleepers
  <2> QED
    BY <2>1, <2>2, <2>3, <2>4, <2>5, <2>6
<1>4. CASE StatusOther
  <2> USE <1>4 DEF StatusOther, ServerGoto, NextSlot, Advance, Awake, waitVars, slotVars, clientVars, serverVars, Wait, Notify, IInv
  <2>1. TypeOK'
    BY TagFacts DEF TypeOK, ClientPc, ServerPc, Slot
  <2>2. SlotExclusive'
    BY DEF TypeOK, SlotExclusive, Holds
  <2>3. RequestsReached'
    BY DEF TypeOK, SlotExclusive, Holds, RequestsReached, Reaches, Sleepers, Slot
  <2>4. AnswersDelivered'
    BY DEF TypeOK, SlotExclusive, Holds, AnswersDelivered, AboutToWait, Sleepers, OwnPid
  <2>5. OwnPid'
    BY DEF TypeOK, SlotExclusive, Holds, OwnPid
  <2>6. Sleepers'
    BY DEF TypeOK, Sleepers
  <2> QED
    BY <2>1, <2>2, <2>3, <2>4, <2>5, <2>6
<1>5. CASE Execute
  <2> USE <1>5 DEF Execute, ServerGoto, NextSlot, Advance, Awake, waitVars, slotVars, clientVars, serverVars, Wait, Notify, IInv
  <2>1. TypeOK'
    BY TagFacts DEF TypeOK, ClientPc, ServerPc, Slot
  <2>2. SlotExclusive'
    BY DEF TypeOK, SlotExclusive, Holds
  <2>3. RequestsReached'
    BY DEF TypeOK, SlotExclusive, Holds, RequestsReached, Reaches, Sleepers, Slot
  <2>4. AnswersDelivered'
    BY DEF TypeOK, SlotExclusive, Holds, AnswersDelivered, AboutToWait, Sleepers, OwnPid
  <2>5. OwnPid'
    BY DEF TypeOK, SlotExclusive, Holds, OwnPid
  <2>6. Sleepers'
    BY DEF TypeOK, Sleepers
  <2> QED
    BY <2>1, <2>2, <2>3, <2>4, <2>5, <2>6
<1>6. CASE Respond
  <2> USE <1>6 DEF Respond, ServerGoto, NextSlot, Advance, Awake, waitVars, slotVars, clientVars, serverVars, Wait, Notify, IInv
  <2>1. TypeOK'
    BY TagFacts DEF TypeOK, ClientPc, ServerPc, Slot
  <2>2. SlotExclusive'
    BY DEF TypeOK, SlotExclusive, Holds
  <2>3. RequestsReached'
    BY DEF TypeOK, SlotExclusive, Holds, RequestsReached, Reaches, Sleepers, Slot
  <2>4. AnswersDelivered'
    BY DEF TypeOK, SlotExclusive, Holds, AnswersDelivered, AboutToWait, Sleepers, OwnPid
  <2>5. OwnPid'
    BY DEF TypeOK, SlotExclusive, Holds, OwnPid
  <2>6. Sleepers'
    BY DEF TypeOK, Sleepers
  <2> QED
    BY <2>1, <2>2, <2>3, <2>4, <2>5, <2>6
<1>7. CASE Answer
  <2> USE <1>7 DEF Answer, ServerGoto, NextSlot, Advance, Awake, waitVars, slotVars, clientVars, serverVars, Wait, Notify, IInv
  <2>1. TypeOK'
    BY TagFacts DEF TypeOK, ClientPc, ServerPc, Slot
  <2>2. SlotExclusive'
    BY DEF TypeOK, SlotExclusive, Holds
  <2>3. RequestsReached'
    BY DEF TypeOK, SlotExclusive, Holds, RequestsReached, Reaches, Sleepers, Slot
  <2>4. AnswersDelivered'
    BY DEF TypeOK, SlotExclusive, Holds, AnswersDelivered, AboutToWait, Sleepers, OwnPid
  <2>5. OwnPid'
    BY DEF TypeOK, SlotExclusive, Holds, OwnPid
  <2>6. Sleepers'
    BY DEF TypeOK, Sleepers
  <2> QED
    BY <2>1, <2>2, <2>3, <2>4, <2>5, <2>6
<1>8. CASE ServerNotify
  <2> USE <1>8 DEF ServerNotify, ServerGoto, NextSlot, Advance, Awake, waitVars, slotVars, clientVars, serverVars, Wait, Notify, IInv
  <2>1. TypeOK'
    BY TagFacts DEF TypeOK, ClientPc, ServerPc, Slot
  <2>2. SlotExclusive'
    BY DEF TypeOK, SlotExclusive, Holds
  <2>3. RequestsReached'
    BY DEF TypeOK, SlotExclusive, Holds, RequestsReached, Reaches, Sleepers, Slot
  <2>4. AnswersDelivered'
    BY DEF TypeOK, SlotExclusive, Holds, AnswersDelivered, AboutToWait, Sleepers, OwnPid
  <2>5. OwnPid'
    BY DEF TypeOK, SlotExclusive, Holds, OwnPid
  <2>6. Sleepers'
    BY DEF TypeOK, Sleepers
  <2> QED
    BY <2>1, <2>2, <2>3, <2>4, <2>5, <2>6
<1>9. CASE ServerWait
  <2> USE <1>9 DEF ServerWait, ServerGoto, NextSlot, Advance, Awake, waitVars, slotVars, clientVars, serverVars, Wait, Notify, IInv
  <2>1. TypeOK'
    BY TagFacts DEF TypeOK, ClientPc, ServerPc, Slot
  <2>2. SlotExclusive'
    BY DEF TypeOK, SlotExclusive, Holds
  <2>3. RequestsReached'
    BY DEF TypeOK, SlotExclusive, Holds, RequestsReached, Reaches, Sleepers, Slot
  <2>4. AnswersDelivered'
    BY DEF TypeOK, SlotExclusive, Holds, AnswersDelivered, AboutToWait, Sleepers, OwnPid
  <2>5. OwnPid'
    BY DEF TypeOK, SlotExclusive, Holds, OwnPid
  <2>6. Sleepers'
    BY DEF TypeOK, Sleepers
  <2> QED
    BY <2>1, <2>2, <2>3, <2>4, <2>5, <2>6
<1> QED
  BY <1>1, <1>2, <1>3, <1>4, <1>5, <1>6, <1>7, <1>8, <1>9 DEF ServerStep

(* Every step preserves the inductive invariant. *)
LEMMA NextIInv == IInv /\ [Next]_vars => IInv'
<1> SUFFICES ASSUME IInv, [Next]_vars PROVE IInv'
  OBVIOUS
<1>1. CASE ServerStep
  BY <1>1, ServerStepIInv
<1>2. ASSUME NEW c \in Client, ClientStep(c) \/ Crash(c) PROVE IInv'
  BY <1>2, ClientStepIInv
<1>3. CASE UNCHANGED vars
  BY <1>3 DEF vars, waitVars, slotVars, clientVars, serverVars, IInv, TypeOK,
     SlotExclusive, Holds, RequestsReached, Reaches, AnswersDelivered, AboutToWait,
     OwnPid, Sleepers
<1> QED
  BY <1>1, <1>2, <1>3 DEF Next

(* The specification keeps the inductive invariant; fairness is not used.  *)
LEMMA Invariance == Spec => []IInv
BY InitIInv, NextIInv, PTL DEF Spec

(* Two clients never work in the same slot of the registry. *)
THEOREM RegistryExclusion == Spec => []SlotExclusive
<1>1. IInv => SlotExclusive
  BY DEF IInv
<1> QED
  BY <1>1, Invariance, PTL

(* The server never sleeps while a request it was notified of is pending.  *)
THEOREM ServerHearsRequests == Spec => []NoForgottenRequest
<1>1. IInv => NoForgottenRequest
  BY DEF IInv, RequestsReached, Reaches, NoForgottenRequest
<1> QED
  BY <1>1, Invariance, PTL

(* A client never sleeps on an answer unless the server is about to wake it. *)
THEOREM ClientHearsAnswer == Spec => []NoForgottenAnswer
<1>1. IInv => NoForgottenAnswer
  BY FsAssumption DEF IInv, TypeOK, AnswersDelivered, AboutToWait, OwnPid, Sleepers, Holds,
     NoForgottenAnswer
<1> QED
  BY <1>1, Invariance, PTL

-----------------------------------------------------------------------------
(* The right answer.  The server works only in a slot whose status is      *)
(* Pending, and a slot given back is left Answered: so a slot used before  *)
(* is not looked at again until its request has been published whole.      *)

Busy(i) == spc \in {"execute", "respond", "answer"} /\ sslot = i
Own(c) == <<c, cseq[c]>>
Filling(c) == cpc[c] \in {"path", "body", "publish"}

BusyIsPending == \A i \in Slot : Busy(i) => status[i] = "Pending"

UsedIsAnswered ==
    /\ \A i \in released : ~claimed[i] => status[i] = "Answered"
    /\ \A c \in Client : Filling(c) /\ cslot[c] \in released => status[cslot[c]] = "Answered"
    /\ \A c \in Client : cpc[c] \in {"read", "release"} => status[cslot[c]] = "Answered"

FilledByHolder ==
    \A c \in Client :
        /\ Holds(c) /\ cpc[c] # "path" => path[cslot[c]] = Own(c)
        /\ Holds(c) /\ cpc[c] \notin {"path", "body"} => body[cslot[c]] = Own(c)

WorkedForHolder ==
    \A c \in Client : Holds(c) /\ ~Filling(c) /\ cslot[c] \in released =>
        /\ Busy(cslot[c]) /\ spc # "execute" => work = <<Own(c), Own(c)>>
        /\ Busy(cslot[c]) /\ spc = "answer" => response[cslot[c]] = <<Own(c), Own(c)>>
        /\ status[cslot[c]] = "Answered" => response[cslot[c]] = <<Own(c), Own(c)>>
        /\ cpc[c] = "release" => answer[c] = <<Own(c), Own(c)>>

AnswerInv == BusyIsPending /\ UsedIsAnswered /\ FilledByHolder /\ WorkedForHolder

(* At boot nothing is claimed and nothing has been used.                   *)
LEMMA InitAnswerInv == Init => AnswerInv
BY DEF Init, AnswerInv, BusyIsPending, UsedIsAnswered, FilledByHolder, WorkedForHolder, Busy, Filling, Holds

(* A step of a client keeps it: two clients never hold one slot.           *)
LEMMA ClientAnswerInv ==
    ASSUME IInv, AnswerInv, NEW c \in Client, ClientStep(c) \/ Crash(c) PROVE AnswerInv'
<1> USE FsAssumption DEF IInv, TypeOK, SlotExclusive, AnswerInv
<1>1. CASE Begin(c)
  <2> USE <1>1 DEF Begin, Goto, Exit, waitVars, slotVars, clientVars, serverVars
  <2>1. BusyIsPending'
    BY DEF BusyIsPending, Busy
  <2>2. UsedIsAnswered'
    BY DEF UsedIsAnswered, Filling, Holds
  <2>3. FilledByHolder'
    BY DEF FilledByHolder, Own, Holds
  <2>4. WorkedForHolder'
    BY DEF BusyIsPending, UsedIsAnswered, FilledByHolder, WorkedForHolder, Busy, Own, Filling, Holds
  <2> QED
    BY <2>1, <2>2, <2>3, <2>4
<1>2. CASE ClaimSlot(c)
  <2> USE <1>2 DEF ClaimSlot, Goto, Exit, waitVars, slotVars, clientVars, serverVars
  <2>1. BusyIsPending'
    BY DEF BusyIsPending, Busy
  <2>2. UsedIsAnswered'
    BY DEF UsedIsAnswered, Filling, Holds
  <2>3. FilledByHolder'
    BY DEF FilledByHolder, Own, Holds
  <2>4. WorkedForHolder'
    BY DEF BusyIsPending, UsedIsAnswered, FilledByHolder, WorkedForHolder, Busy, Own, Filling, Holds
  <2> QED
    BY <2>1, <2>2, <2>3, <2>4
<1>3. CASE ClaimNext(c)
  <2> USE <1>3 DEF ClaimNext, Goto, Exit, waitVars, slotVars, clientVars, serverVars
  <2>1. BusyIsPending'
    BY DEF BusyIsPending, Busy
  <2>2. UsedIsAnswered'
    BY DEF UsedIsAnswered, Filling, Holds
  <2>3. FilledByHolder'
    BY DEF FilledByHolder, Own, Holds
  <2>4. WorkedForHolder'
    BY DEF BusyIsPending, UsedIsAnswered, FilledByHolder, WorkedForHolder, Busy, Own, Filling, Holds
  <2> QED
    BY <2>1, <2>2, <2>3, <2>4
<1>4. CASE ClaimFails(c)
  <2> USE <1>4 DEF ClaimFails, Goto, Exit, waitVars, slotVars, clientVars, serverVars
  <2>1. BusyIsPending'
    BY DEF BusyIsPending, Busy
  <2>2. UsedIsAnswered'
    BY DEF UsedIsAnswered, Filling, Holds
  <2>3. FilledByHolder'
    BY DEF FilledByHolder, Own, Holds
  <2>4. WorkedForHolder'
    BY DEF BusyIsPending, UsedIsAnswered, FilledByHolder, WorkedForHolder, Busy, Own, Filling, Holds
  <2> QED
    BY <2>1, <2>2, <2>3, <2>4
<1>5. CASE FillPath(c)
  <2> USE <1>5 DEF FillPath, Goto, Exit, waitVars, slotVars, clientVars, serverVars
  <2>1. BusyIsPending'
    BY DEF BusyIsPending, Busy
  <2>2. UsedIsAnswered'
    BY DEF UsedIsAnswered, Filling, Holds
  <2>3. FilledByHolder'
    BY DEF FilledByHolder, Own, Holds
  <2>4. WorkedForHolder'
    BY DEF BusyIsPending, UsedIsAnswered, FilledByHolder, WorkedForHolder, Busy, Own, Filling, Holds
  <2> QED
    BY <2>1, <2>2, <2>3, <2>4
<1>6. CASE FillBody(c)
  <2> USE <1>6 DEF FillBody, Goto, Exit, waitVars, slotVars, clientVars, serverVars
  <2>1. BusyIsPending'
    BY DEF BusyIsPending, Busy
  <2>2. UsedIsAnswered'
    BY DEF UsedIsAnswered, Filling, Holds
  <2>3. FilledByHolder'
    BY DEF FilledByHolder, Own, Holds
  <2>4. WorkedForHolder'
    BY DEF BusyIsPending, UsedIsAnswered, FilledByHolder, WorkedForHolder, Busy, Own, Filling, Holds
  <2> QED
    BY <2>1, <2>2, <2>3, <2>4
<1>7. CASE Publish(c)
  <2> USE <1>7 DEF Publish, Goto, Exit, waitVars, slotVars, clientVars, serverVars
  <2>1. BusyIsPending'
    BY DEF BusyIsPending, Busy
  <2>2. UsedIsAnswered'
    BY DEF UsedIsAnswered, Filling, Holds
  <2>3. FilledByHolder'
    BY DEF FilledByHolder, Own, Holds
  <2>4. WorkedForHolder'
    BY DEF BusyIsPending, UsedIsAnswered, FilledByHolder, WorkedForHolder, Busy, Own, Filling, Holds
  <2> QED
    BY <2>1, <2>2, <2>3, <2>4
<1>8. CASE ClientNotify(c)
  <2> USE <1>8 DEF ClientNotify, Goto, Exit, waitVars, slotVars, clientVars, serverVars
  <2>1. BusyIsPending'
    BY DEF BusyIsPending, Busy
  <2>2. UsedIsAnswered'
    BY DEF UsedIsAnswered, Filling, Holds
  <2>3. FilledByHolder'
    BY DEF FilledByHolder, Own, Holds
  <2>4. WorkedForHolder'
    BY DEF BusyIsPending, UsedIsAnswered, FilledByHolder, WorkedForHolder, Busy, Own, Filling, Holds
  <2> QED
    BY <2>1, <2>2, <2>3, <2>4
<1>9. CASE Check(c)
  <2> USE <1>9 DEF Check, Goto, Exit, waitVars, slotVars, clientVars, serverVars
  <2>1. BusyIsPending'
    BY DEF BusyIsPending, Busy
  <2>2. UsedIsAnswered'
    BY DEF UsedIsAnswered, Filling, Holds
  <2>3. FilledByHolder'
    BY DEF FilledByHolder, Own, Holds
  <2>4. WorkedForHolder'
    BY DEF BusyIsPending, UsedIsAnswered, FilledByHolder, WorkedForHolder, Busy, Own, Filling, Holds
  <2> QED
    BY <2>1, <2>2, <2>3, <2>4
<1>10. CASE ClientWait(c)
  <2> USE <1>10 DEF ClientWait, Goto, Exit, waitVars, slotVars, clientVars, serverVars
  <2>1. BusyIsPending'
    BY DEF BusyIsPending, Busy
  <2>2. UsedIsAnswered'
    BY DEF UsedIsAnswered, Filling, Holds
  <2>3. FilledByHolder'
    BY DEF FilledByHolder, Own, Holds
  <2>4. WorkedForHolder'
    BY DEF BusyIsPending, UsedIsAnswered, FilledByHolder, WorkedForHolder, Busy, Own, Filling, Holds
  <2> QED
    BY <2>1, <2>2, <2>3, <2>4
<1>11. CASE Read(c)
  <2> USE <1>11 DEF Read, Goto, Exit, waitVars, slotVars, clientVars, serverVars
  <2>1. BusyIsPending'
    BY DEF BusyIsPending, Busy
  <2>2. UsedIsAnswered'
    BY DEF UsedIsAnswered, Filling, Holds
  <2>3. FilledByHolder'
    BY DEF FilledByHolder, Own, Holds
  <2>4. WorkedForHolder'
    BY DEF BusyIsPending, UsedIsAnswered, FilledByHolder, WorkedForHolder, Busy, Own, Filling, Holds
  <2> QED
    BY <2>1, <2>2, <2>3, <2>4
<1>12. CASE Release(c)
  <2> USE <1>12 DEF Release, Goto, Exit, waitVars, slotVars, clientVars, serverVars
  <2>1. BusyIsPending'
    BY DEF BusyIsPending, Busy
  <2>2. UsedIsAnswered'
    BY DEF UsedIsAnswered, Filling, Holds
  <2>3. FilledByHolder'
    BY DEF FilledByHolder, Own, Holds
  <2>4. WorkedForHolder'
    BY DEF BusyIsPending, UsedIsAnswered, FilledByHolder, WorkedForHolder, Busy, Own, Filling, Holds
  <2> QED
    BY <2>1, <2>2, <2>3, <2>4
<1>13. CASE Crash(c)
  <2> USE <1>13 DEF Crash, Goto, Exit, waitVars, slotVars, clientVars, serverVars
  <2>1. BusyIsPending'
    BY DEF BusyIsPending, Busy
  <2>2. UsedIsAnswered'
    BY DEF UsedIsAnswered, Filling, Holds
  <2>3. FilledByHolder'
    BY DEF FilledByHolder, Own, Holds
  <2>4. WorkedForHolder'
    BY DEF BusyIsPending, UsedIsAnswered, FilledByHolder, WorkedForHolder, Busy, Own, Filling, Holds
  <2> QED
    BY <2>1, <2>2, <2>3, <2>4
<1> QED
  BY <1>1, <1>2, <1>3, <1>4, <1>5, <1>6, <1>7, <1>8, <1>9, <1>10, <1>11, <1>12, <1>13 DEF ClientStep

(* A step of the server keeps it.                                          *)
LEMMA ServerAnswerInv ==
    ASSUME IInv, AnswerInv, ServerStep PROVE AnswerInv'
<1> USE FsAssumption DEF IInv, TypeOK, SlotExclusive, AnswerInv
<1>1. CASE ScanClaimed
  <2> USE <1>1 DEF ScanClaimed, ServerGoto, NextSlot, Advance, waitVars, slotVars, clientVars, serverVars
  <2>1. BusyIsPending'
    BY DEF BusyIsPending, Busy
  <2>2. UsedIsAnswered'
    BY DEF UsedIsAnswered, Filling, Holds
  <2>3. FilledByHolder'
    BY DEF FilledByHolder, Own, Holds
  <2>4. WorkedForHolder'
    BY DEF BusyIsPending, UsedIsAnswered, FilledByHolder, WorkedForHolder, Busy, Own, Filling, Holds
  <2> QED
    BY <2>1, <2>2, <2>3, <2>4
<1>2. CASE ScanFree
  <2> USE <1>2 DEF ScanFree, ServerGoto, NextSlot, Advance, waitVars, slotVars, clientVars, serverVars
  <2>1. BusyIsPending'
    BY DEF BusyIsPending, Busy
  <2>2. UsedIsAnswered'
    BY DEF UsedIsAnswered, Filling, Holds
  <2>3. FilledByHolder'
    BY DEF FilledByHolder, Own, Holds
  <2>4. WorkedForHolder'
    BY DEF BusyIsPending, UsedIsAnswered, FilledByHolder, WorkedForHolder, Busy, Own, Filling, Holds
  <2> QED
    BY <2>1, <2>2, <2>3, <2>4
<1>3. CASE StatusPending
  <2> USE <1>3 DEF StatusPending, ServerGoto, NextSlot, Advance, waitVars, slotVars, clientVars, serverVars
  <2>1. BusyIsPending'
    BY DEF BusyIsPending, Busy
  <2>2. UsedIsAnswered'
    BY DEF UsedIsAnswered, Filling, Holds
  <2>3. FilledByHolder'
    BY DEF FilledByHolder, Own, Holds
  <2>4. WorkedForHolder'
    BY DEF BusyIsPending, UsedIsAnswered, FilledByHolder, WorkedForHolder, Busy, Own, Filling, Holds
  <2> QED
    BY <2>1, <2>2, <2>3, <2>4
<1>4. CASE StatusOther
  <2> USE <1>4 DEF StatusOther, ServerGoto, NextSlot, Advance, waitVars, slotVars, clientVars, serverVars
  <2>1. BusyIsPending'
    BY DEF BusyIsPending, Busy
  <2>2. UsedIsAnswered'
    BY DEF UsedIsAnswered, Filling, Holds
  <2>3. FilledByHolder'
    BY DEF FilledByHolder, Own, Holds
  <2>4. WorkedForHolder'
    BY DEF BusyIsPending, UsedIsAnswered, FilledByHolder, WorkedForHolder, Busy, Own, Filling, Holds
  <2> QED
    BY <2>1, <2>2, <2>3, <2>4
<1>5. CASE Execute
  <2> USE <1>5 DEF Execute, ServerGoto, NextSlot, Advance, waitVars, slotVars, clientVars, serverVars
  <2>1. BusyIsPending'
    BY DEF BusyIsPending, Busy
  <2>2. UsedIsAnswered'
    BY DEF UsedIsAnswered, Filling, Holds
  <2>3. FilledByHolder'
    BY DEF FilledByHolder, Own, Holds
  <2>4. WorkedForHolder'
    BY DEF BusyIsPending, UsedIsAnswered, FilledByHolder, WorkedForHolder, Busy, Own, Filling, Holds
  <2> QED
    BY <2>1, <2>2, <2>3, <2>4
<1>6. CASE Respond
  <2> USE <1>6 DEF Respond, ServerGoto, NextSlot, Advance, waitVars, slotVars, clientVars, serverVars
  <2>1. BusyIsPending'
    BY DEF BusyIsPending, Busy
  <2>2. UsedIsAnswered'
    BY DEF UsedIsAnswered, Filling, Holds
  <2>3. FilledByHolder'
    BY DEF FilledByHolder, Own, Holds
  <2>4. WorkedForHolder'
    BY DEF BusyIsPending, UsedIsAnswered, FilledByHolder, WorkedForHolder, Busy, Own, Filling, Holds
  <2> QED
    BY <2>1, <2>2, <2>3, <2>4
<1>7. CASE Answer
  <2> USE <1>7 DEF Answer, ServerGoto, NextSlot, Advance, waitVars, slotVars, clientVars, serverVars
  <2>1. BusyIsPending'
    BY DEF BusyIsPending, Busy
  <2>2. UsedIsAnswered'
    BY DEF UsedIsAnswered, Filling, Holds
  <2>3. FilledByHolder'
    BY DEF FilledByHolder, Own, Holds
  <2>4. WorkedForHolder'
    BY DEF BusyIsPending, UsedIsAnswered, FilledByHolder, WorkedForHolder, Busy, Own, Filling, Holds
  <2> QED
    BY <2>1, <2>2, <2>3, <2>4
<1>8. CASE ServerNotify
  <2> USE <1>8 DEF ServerNotify, ServerGoto, NextSlot, Advance, waitVars, slotVars, clientVars, serverVars
  <2>1. BusyIsPending'
    BY DEF BusyIsPending, Busy
  <2>2. UsedIsAnswered'
    BY DEF UsedIsAnswered, Filling, Holds
  <2>3. FilledByHolder'
    BY DEF FilledByHolder, Own, Holds
  <2>4. WorkedForHolder'
    BY DEF BusyIsPending, UsedIsAnswered, FilledByHolder, WorkedForHolder, Busy, Own, Filling, Holds
  <2> QED
    BY <2>1, <2>2, <2>3, <2>4
<1>9. CASE ServerWait
  <2> USE <1>9 DEF ServerWait, ServerGoto, NextSlot, Advance, waitVars, slotVars, clientVars, serverVars
  <2>1. BusyIsPending'
    BY DEF BusyIsPending, Busy
  <2>2. UsedIsAnswered'
    BY DEF UsedIsAnswered, Filling, Holds
  <2>3. FilledByHolder'
    BY DEF FilledByHolder, Own, Holds
  <2>4. WorkedForHolder'
    BY DEF BusyIsPending, UsedIsAnswered, FilledByHolder, WorkedForHolder, Busy, Own, Filling, Holds
  <2> QED
    BY <2>1, <2>2, <2>3, <2>4
<1> QED
  BY <1>1, <1>2, <1>3, <1>4, <1>5, <1>6, <1>7, <1>8, <1>9 DEF ServerStep

(* A client that was given a slot used before gets the answer to its own   *)
(* request, whatever the order of the accesses to the slot.                *)
THEOREM AnswersAreRight == Spec => []RightAnswer
<1>1. IInv /\ AnswerInv /\ [Next]_vars => AnswerInv'
  <2> SUFFICES ASSUME IInv, AnswerInv, [Next]_vars PROVE AnswerInv'
    OBVIOUS
  <2>1. CASE UNCHANGED vars
    BY <2>1 DEF vars, slotVars, clientVars, serverVars, AnswerInv, BusyIsPending, UsedIsAnswered,
       FilledByHolder, WorkedForHolder, Busy, Own, Filling, Holds
  <2> QED
    BY <2>1, ClientAnswerInv, ServerAnswerInv DEF Next
<1>2. AnswerInv => RightAnswer
  BY DEF AnswerInv, WorkedForHolder, RightAnswer, Holds, Filling, Own
<1> QED
  BY InitAnswerInv, Invariance, <1>1, <1>2, PTL DEF Spec
=============================================================================
