-------------------------- MODULE SchedulerProofs --------------------------
(***************************************************************************)
(* Proofs about Scheduler, for any number of tasks, vectors and waiters    *)
(* and without a bound on ticks and ids.                                   *)
(*                                                                         *)
(* The properties are not inductive one by one: virtual time stays a       *)
(* natural number only because no slice starts in the future, the loaded   *)
(* FPU registers are the current task's only because every other context   *)
(* is where it belongs, and so on.  IInv is their conjunction with the two *)
(* missing facts.  NoTickChargedTwice is proved on top of it, at the end.  *)
(***************************************************************************)
EXTENDS Scheduler, FiniteSetTheorems, WellFoundedInduction, TLAPS

(* The subtraction in schedule and wakeTask cannot wrap: no slice starts   *)
(* in the future.                                                          *)
SlicesInPast == \A t \in tasks \cup {Idle} : schedStart[t] <= ticks

(* Every context that is not on the CPU is in its own fpuenv, before the   *)
(* first tick too, and idle has the id no task gets.                       *)
ContextsSaved ==
    /\ id[Idle] = 0
    /\ \A t \in (tasks \cup {Idle}) \ {current} : fpuenv[t] = id[t]

IInv ==
    /\ TypeOK
    /\ CurrentAlive
    /\ OneCorpse
    /\ NoLostNotify
    /\ UniqueIds
    /\ FpuIsolated
    /\ OwnAddressSpace
    /\ SlicesInPast
    /\ ContextsSaved

(* The initial state satisfies the inductive invariant. *)
LEMMA InitIInv == Init => IInv
<1> SUFFICES ASSUME Init PROVE IInv
  OBVIOUS
<1> USE SchedulerAssumption DEF Init, Object, State, KernelSpace
<1>1. TypeOK
  BY DEF TypeOK, Waiter, EmptyWaiter
<1>2. CurrentAlive /\ NoLostNotify /\ UniqueIds
  BY DEF CurrentAlive, NoLostNotify, UniqueIds
<1>3. OneCorpse
  BY DEF OneCorpse
<1>4. FpuIsolated /\ OwnAddressSpace /\ SlicesInPast /\ ContextsSaved
  BY DEF FpuIsolated, OwnAddressSpace, SlicesInPast, ContextsSaved
<1> QED
  BY <1>1, <1>2, <1>3, <1>4 DEF IInv

(* A handler that ends in schedule preserves the invariant, when all it    *)
(* did before is to leave the current task running, waiting with nothing   *)
(* pending, or on its way out.                                             *)
LEMMA ScheduleIInv ==
    ASSUME IInv,
           NEW st \in [Object -> State], NEW now \in Nat, NEW otherwise \in Nat,
           now >= ticks,
           \A t \in Object : t # current => st[t] = state[t],
           current # NoTask =>
                /\ st[current] \in {"Running", "Notified", "PendingDelete", "Waiting"}
                /\ st[current] = "Waiting" => ~notifyPending[current],
           Schedule(st, now, otherwise),
           ticks' = now,
           UNCHANGED <<nextId, id, notifyPending, irqWaiters>>
    PROVE  IInv'
<1> DEFINE dead  == {t \in tasks : st[t] = "Dead"}
           left  == tasks \ dead
           ready == {t \in left : st[t] \in Runnable}
           vt    == Charged(st, now)
<1>1. PICK next \in left \cup {Idle} :
         /\ IsPick(next, ready, vt)
         /\ tasks' = left
         /\ virtualTime' = vt
         /\ state' = [t \in Object |->
                        IF t = next THEN "Running"
                        ELSE IF t \in dead THEN "Free"
                        ELSE IF t = current /\ st[t] = "PendingDelete" THEN "Dead"
                        ELSE st[t]]
         /\ SwitchTo(next, now)
         /\ LoadCr3(next, otherwise)
  BY Zenon DEF Schedule
<1>2. next \in Object /\ next # NoTask /\ left \subseteq tasks /\ tasks \subseteq Task
  BY SchedulerAssumption DEF IInv, TypeOK, Object
<1>3. current \notin dead /\ (current # NoTask => current \in Object)
  BY SchedulerAssumption DEF IInv, TypeOK, CurrentAlive, Object
<1>4. vt \in [Object -> Nat]
  BY <1>3 DEF IInv, TypeOK, Charged, SlicesInPast, CurrentAlive
<1>5. TypeOK'
  BY <1>1, <1>2, <1>3, <1>4 DEF IInv, TypeOK, SwitchTo, LoadCr3, State, Object
<1>6. CurrentAlive'
  BY <1>1, <1>2 DEF CurrentAlive, SwitchTo
<1>7. OneCorpse'
  <2>1. \A s, t \in tasks' : state'[s] = "Dead" /\ state'[t] = "Dead" => s = t
    BY <1>1, <1>2 DEF Object
  <2>2. \A t \in Task : state'[t] # "PendingDelete"
    BY <1>1, <1>2, SchedulerAssumption DEF Object, IInv, OneCorpse
  <2>3. \A t \in Task : state'[t] = "Free" <=> t \notin tasks'
    <3> SUFFICES ASSUME NEW t \in Task PROVE state'[t] = "Free" <=> t \notin tasks'
      OBVIOUS
    <3>1. t \in Object /\ t # Idle
      BY SchedulerAssumption DEF Object
    <3>2. CASE t = next
      BY <1>1, <3>1, <3>2
    <3>3. CASE t # next /\ t \in dead
      BY <1>1, <3>1, <3>3
    <3>4. CASE t # next /\ t \notin dead /\ t = current
      BY <1>1, <1>2, <3>1, <3>4, SchedulerAssumption DEF IInv, CurrentAlive
    <3>5. CASE t # next /\ t \notin dead /\ t # current
      BY <1>1, <3>1, <3>5 DEF IInv, OneCorpse
    <3> QED
      BY <3>2, <3>3, <3>4, <3>5
  <2> QED
    BY <2>1, <2>2, <2>3 DEF OneCorpse
<1>8. NoLostNotify'
  <2> SUFFICES ASSUME NEW t \in tasks', state'[t] = "Waiting" PROVE ~notifyPending[t]
    BY DEF NoLostNotify
  <2>1. t \in Object /\ t \in tasks /\ st[t] = "Waiting"
    BY <1>1, <1>2 DEF Object
  <2>2. t # current => state[t] = "Waiting"
    BY <2>1
  <2> QED
    BY <1>2, <2>1, <2>2, SchedulerAssumption, Zenon DEF IInv, NoLostNotify
<1>9. UniqueIds'
  BY <1>1, <1>2 DEF IInv, UniqueIds
<1>10. ContextsSaved' /\ FpuIsolated'
  <2>1. fpuenv \in [Object -> Nat \cup {Stale}] /\ \A t \in tasks' \cup {Idle} : t \in Object
    BY <1>1, <1>2 DEF IInv, TypeOK, Object
  <2>2. CASE current = NoTask
    BY <1>1, <1>2, <2>1, <2>2, SchedulerAssumption
    DEF IInv, ContextsSaved, FpuIsolated, SwitchTo
  <2>3. CASE current # NoTask /\ current = next
    BY <1>1, <1>2, <2>1, <2>3 DEF IInv, ContextsSaved, FpuIsolated, SwitchTo
  <2>4. CASE current # NoTask /\ current # next
    BY <1>1, <1>2, <2>1, <2>4 DEF IInv, ContextsSaved, FpuIsolated, SwitchTo
  <2> QED
    BY <2>2, <2>3, <2>4
<1>11. OwnAddressSpace'
  BY <1>1, <1>2, SchedulerAssumption DEF OwnAddressSpace, SwitchTo, LoadCr3
<1>12. SlicesInPast'
  <2>1. schedStart \in [Object -> Nat] /\ \A t \in tasks' \cup {Idle} : t \in Object
    BY <1>1, <1>2 DEF IInv, TypeOK, Object
  <2>2. schedStart' = [schedStart EXCEPT ![next] = now]
    BY <1>1 DEF SwitchTo
  <2> QED
    BY <1>1, <2>1, <2>2 DEF IInv, SlicesInPast, TypeOK
<1> QED
  BY <1>5, <1>6, <1>7, <1>8, <1>9, <1>10, <1>11, <1>12 DEF IInv

(* wakeTask, the direct switch that Notify makes. *)
LEMMA WakeIInv ==
    ASSUME IInv, NEW t \in tasks, current \in tasks, t # current,
           state[t] = "Waiting", wakeTask(t),
           UNCHANGED <<tasks, ticks, nextId, id, notifyPending, irqWaiters>>
    PROVE  IInv'
<1>1. /\ t \in Object /\ current \in Object /\ t # NoTask /\ t # Idle
      /\ current # NoTask /\ current # Idle /\ tasks \subseteq Task
  BY SchedulerAssumption DEF IInv, TypeOK, Object
<1>2. /\ state' = [state EXCEPT ![t] = "Running"]
      /\ current' = t
      /\ schedStart' = [schedStart EXCEPT ![t] = ticks]
      /\ fpuenv' = [s \in Object |-> IF s = current THEN fpuRegs
                                    ELSE IF s = t THEN Stale ELSE fpuenv[s]]
      /\ fpuRegs' = fpuenv[t]
      /\ cr3' = id[t]
      /\ virtualTime' = Charged(state, ticks)
  BY <1>1 DEF wakeTask, SwitchTo, LoadCr3
<1>3. TypeOK'
  <2>1. Charged(state, ticks) \in [Object -> Nat]
    BY <1>1 DEF IInv, TypeOK, Charged, SlicesInPast
  <2> QED
    BY <1>1, <1>2, <2>1 DEF IInv, TypeOK, State
<1>4. CurrentAlive' /\ UniqueIds'
  BY <1>1, <1>2 DEF IInv, TypeOK, CurrentAlive, UniqueIds
<1>5. OneCorpse'
  BY <1>1, <1>2 DEF IInv, TypeOK, OneCorpse, Object
<1>6. NoLostNotify'
  <2> SUFFICES ASSUME NEW s \in tasks, state'[s] = "Waiting" PROVE ~notifyPending[s]
    BY DEF NoLostNotify
  <2>1. state[s] = "Waiting"
    BY <1>1, <1>2 DEF IInv, TypeOK, Object
  <2> QED
    BY <2>1, Zenon DEF IInv, NoLostNotify
<1>7. ContextsSaved' /\ FpuIsolated'
  BY <1>1, <1>2 DEF IInv, TypeOK, ContextsSaved, FpuIsolated, Object
<1>8. OwnAddressSpace'
  BY <1>1, <1>2 DEF OwnAddressSpace
<1>9. SlicesInPast'
  BY <1>1, <1>2 DEF IInv, TypeOK, SlicesInPast, Object
<1> QED
  BY <1>3, <1>4, <1>5, <1>6, <1>7, <1>8, <1>9 DEF IInv

(* Every step preserves the inductive invariant. *)
LEMMA NextIInv == IInv /\ [Next]_vars => IInv'
<1> SUFFICES ASSUME IInv, [Next]_vars PROVE IInv'
  OBVIOUS
<1> USE DEF InSyscall
<1>0. /\ state \in [Object -> State] /\ ticks \in Nat /\ cr3 \in Nat
      /\ KernelSpace \in Nat /\ tasks \subseteq Task
      /\ NoTask \notin tasks /\ Idle \notin tasks
  BY SchedulerAssumption DEF IInv, TypeOK, KernelSpace
<1>1. CASE Timer
  <2> DEFINE st == state
  <2>1. st \in [Object -> State] /\ \A t \in Object : t # current => st[t] = state[t]
    BY <1>0 DEF State
  <2>2. current # NoTask =>
          /\ st[current] \in {"Running", "Notified", "PendingDelete", "Waiting"}
          /\ st[current] = "Waiting" => ~notifyPending[current]
    BY <1>0, <1>1 DEF Timer, IInv, CurrentAlive, Object
  <2>3. Schedule(st, (ticks + 1), cr3) /\ ticks' = (ticks + 1)
    BY <1>1 DEF Timer
  <2>4. UNCHANGED <<nextId, id, notifyPending, irqWaiters>>
    BY <1>1 DEF Timer
  <2>5. (ticks + 1) \in Nat /\ (ticks + 1) >= ticks
    BY <1>0
  <2> HIDE DEF st
  <2> QED
    BY <1>0, <2>1, <2>2, <2>3, <2>4, <2>5, ScheduleIInv
<1>2. CASE syscallYield
  <2> DEFINE st == state
  <2>1. st \in [Object -> State] /\ \A t \in Object : t # current => st[t] = state[t]
    BY <1>0 DEF State
  <2>2. current # NoTask =>
          /\ st[current] \in {"Running", "Notified", "PendingDelete", "Waiting"}
          /\ st[current] = "Waiting" => ~notifyPending[current]
    BY <1>0, <1>2 DEF syscallYield, IInv, CurrentAlive, Object
  <2>3. Schedule(st, ticks, KernelSpace) /\ ticks' = ticks
    BY <1>2 DEF syscallYield
  <2>4. UNCHANGED <<nextId, id, notifyPending, irqWaiters>>
    BY <1>2 DEF syscallYield
  <2>5. ticks \in Nat /\ ticks >= ticks
    BY <1>0
  <2> HIDE DEF st
  <2> QED
    BY <1>0, <2>1, <2>2, <2>3, <2>4, <2>5, ScheduleIInv
<1>3. CASE syscallExit
  <2> DEFINE st == [state EXCEPT ![current] = "PendingDelete"]
  <2>1. st \in [Object -> State] /\ \A t \in Object : t # current => st[t] = state[t]
    BY <1>0 DEF State
  <2>2. current # NoTask =>
          /\ st[current] \in {"Running", "Notified", "PendingDelete", "Waiting"}
          /\ st[current] = "Waiting" => ~notifyPending[current]
    BY <1>0, <1>3 DEF syscallExit, IInv, CurrentAlive, Object
  <2>3. Schedule(st, ticks, KernelSpace) /\ ticks' = ticks
    BY <1>3 DEF syscallExit
  <2>4. UNCHANGED <<nextId, id, notifyPending, irqWaiters>>
    BY <1>3 DEF syscallExit
  <2>5. ticks \in Nat /\ ticks >= ticks
    BY <1>0
  <2> HIDE DEF st
  <2> QED
    BY <1>0, <2>1, <2>2, <2>3, <2>4, <2>5, ScheduleIInv
<1>4. CASE Fault
  <2> DEFINE st == [state EXCEPT ![current] = "PendingDelete"]
  <2>1. st \in [Object -> State] /\ \A t \in Object : t # current => st[t] = state[t]
    BY <1>0 DEF State
  <2>2. current # NoTask =>
          /\ st[current] \in {"Running", "Notified", "PendingDelete", "Waiting"}
          /\ st[current] = "Waiting" => ~notifyPending[current]
    BY <1>0, <1>4 DEF Fault, IInv, CurrentAlive, Object
  <2>3. Schedule(st, ticks, cr3) /\ ticks' = ticks
    BY <1>4 DEF Fault
  <2>4. UNCHANGED <<nextId, id, notifyPending, irqWaiters>>
    BY <1>4 DEF Fault
  <2>5. ticks \in Nat /\ ticks >= ticks
    BY <1>0
  <2> HIDE DEF st
  <2> QED
    BY <1>0, <2>1, <2>2, <2>3, <2>4, <2>5, ScheduleIInv
<1>5. CASE syscallWaitBlock
  <2> DEFINE st == [state EXCEPT ![current] = "Waiting"]
  <2>1. st \in [Object -> State] /\ \A t \in Object : t # current => st[t] = state[t]
    BY <1>0 DEF State
  <2>2. current # NoTask =>
          /\ st[current] \in {"Running", "Notified", "PendingDelete", "Waiting"}
          /\ st[current] = "Waiting" => ~notifyPending[current]
    BY <1>0, <1>5 DEF syscallWaitBlock, IInv, CurrentAlive, Object
  <2>3. Schedule(st, ticks, KernelSpace) /\ ticks' = ticks
    BY <1>5 DEF syscallWaitBlock
  <2>4. UNCHANGED <<nextId, id, notifyPending, irqWaiters>>
    BY <1>5 DEF syscallWaitBlock
  <2>5. ticks \in Nat /\ ticks >= ticks
    BY <1>0
  <2> HIDE DEF st
  <2> QED
    BY <1>0, <2>1, <2>2, <2>3, <2>4, <2>5, ScheduleIInv
<1>6. CASE syscallWaitPending
  <2>1. /\ notifyPending' = [notifyPending EXCEPT ![current] = FALSE]
        /\ UNCHANGED <<tasks, current, nextId, ticks, state, id, virtualTime,
                       schedStart, fpuenv, fpuRegs, cr3, irqWaiters>>
    BY <1>6 DEF syscallWaitPending
  <2>2. TypeOK' /\ NoLostNotify'
    BY <1>0, <2>1 DEF IInv, TypeOK, NoLostNotify, Object
  <2> QED
    BY <2>1, <2>2 DEF IInv, CurrentAlive, OneCorpse, UniqueIds, FpuIsolated,
       OwnAddressSpace, SlicesInPast, ContextsSaved
<1>7. ASSUME NEW t \in Task, syscallNotify(t) PROVE IInv'
  <2>1. CASE state[t] = "Waiting"
    BY <1>7, <2>1, WakeIInv DEF syscallNotify
  <2>2. CASE state[t] # "Waiting"
    <3>1. /\ notifyPending' = [notifyPending EXCEPT ![t] = TRUE]
          /\ cr3' = id[current]
          /\ UNCHANGED <<tasks, current, nextId, ticks, state, id, virtualTime,
                         schedStart, fpuenv, fpuRegs, irqWaiters>>
      BY <1>0, <1>7, <2>2 DEF syscallNotify, LoadCr3
    <3>2. cr3' = cr3
      BY <1>7, <3>1 DEF syscallNotify, IInv, OwnAddressSpace
    <3>3. TypeOK' /\ NoLostNotify'
      BY <1>0, <2>2, <3>1, <3>2 DEF IInv, TypeOK, NoLostNotify, Object
    <3> QED
      BY <3>1, <3>2, <3>3 DEF IInv, CurrentAlive, OneCorpse, UniqueIds, FpuIsolated,
         OwnAddressSpace, SlicesInPast, ContextsSaved
  <2> QED
    BY <2>1, <2>2
<1>8. ASSUME NEW t \in Task, syscallSpawn(t) PROVE IInv'
  <2>1. /\ t \in Object /\ t \notin tasks /\ t # current /\ t # Idle
        /\ state[t] = "Free" /\ current \in tasks
    BY <1>8, SchedulerAssumption DEF syscallSpawn, Object, IInv, OneCorpse
  <2> USE <1>0, <1>8, <2>1
  <2>2. TypeOK'
    BY DEF syscallSpawn, IInv, TypeOK, State
  <2>3. CurrentAlive'
    BY DEF syscallSpawn, IInv, TypeOK, CurrentAlive, Object
  <2>4. OneCorpse'
    BY DEF syscallSpawn, IInv, TypeOK, OneCorpse, Object
  <2>5. NoLostNotify'
    BY DEF syscallSpawn, IInv, TypeOK, NoLostNotify, Object
  <2>6. UniqueIds'
    BY DEF syscallSpawn, IInv, TypeOK, UniqueIds, Object
  <2>7. FpuIsolated' /\ ContextsSaved'
    BY DEF syscallSpawn, IInv, TypeOK, FpuIsolated, ContextsSaved, Object
  <2>8. OwnAddressSpace'
    BY DEF syscallSpawn, IInv, TypeOK, OwnAddressSpace, Object
  <2>9. SlicesInPast'
    BY DEF syscallSpawn, IInv, TypeOK, SlicesInPast, Object
  <2> QED
    BY <2>2, <2>3, <2>4, <2>5, <2>6, <2>7, <2>8, <2>9 DEF IInv
<1>9. ASSUME NEW v \in Vector, syscallSubscribeIrq(v) PROVE IInv'
  <2>1. /\ current \in tasks
        /\ UNCHANGED <<tasks, current, nextId, ticks, state, id, notifyPending,
                       virtualTime, schedStart, fpuenv, fpuRegs, cr3>>
    BY <1>9 DEF syscallSubscribeIrq
  <2>2. irqWaiters' \in [1 .. MaxIrqWaiters -> Waiter]
    <3>1. PICK i \in 1 .. MaxIrqWaiters :
            irqWaiters' = [irqWaiters EXCEPT ![i] =
              [used |-> TRUE, vector |-> v, task |-> current, enabled |-> TRUE]]
      BY <1>9 DEF syscallSubscribeIrq
    <3> QED
      BY <1>0, <2>1, <3>1 DEF IInv, TypeOK, Waiter
  <2>3. TypeOK'
    BY <2>1, <2>2 DEF IInv, TypeOK
  <2> QED
    BY <2>1, <2>3 DEF IInv, CurrentAlive, OneCorpse, NoLostNotify, UniqueIds, FpuIsolated,
       OwnAddressSpace, SlicesInPast, ContextsSaved
<1>10. ASSUME NEW v \in Vector, irqDispatch(v) PROVE IInv'
  <2>1. PICK i \in 1 .. MaxIrqWaiters :
          /\ Armed(i, v)
          /\ irqWaiters' = [irqWaiters EXCEPT ![i].enabled = FALSE]
          /\ state' = [state EXCEPT ![irqWaiters[i].task] = IrqState(@)]
    BY <1>10 DEF irqDispatch
  <2>2. UNCHANGED <<tasks, current, nextId, ticks, id, notifyPending,
                    virtualTime, schedStart, fpuenv, fpuRegs, cr3>>
    BY <1>10 DEF irqDispatch
  <2>3. irqWaiters[i] \in [used : {TRUE}, vector : Vector, task : Task, enabled : BOOLEAN]
    <3>1. irqWaiters[i] \in Waiter
      BY DEF IInv, TypeOK
    <3>2. irqWaiters[i] # EmptyWaiter
      BY <2>1 DEF Armed, EmptyWaiter
    <3> QED
      BY <3>1, <3>2 DEF Waiter
  <2>4. PICK w \in Task : w = irqWaiters[i].task
    BY <2>3
  <2>5. w \in Object /\ w # Idle /\ state' = [state EXCEPT ![w] = IrqState(@)]
    BY <2>1, <2>4, SchedulerAssumption DEF Object
  <2>6. TypeOK'
    <3>1. irqWaiters' \in [1 .. MaxIrqWaiters -> Waiter]
      BY <2>1, <2>3 DEF IInv, TypeOK, Waiter
    <3>2. state' \in [Object -> State]
      BY <1>0, <2>5 DEF IrqState, State
    <3> QED
      BY <2>2, <3>1, <3>2 DEF IInv, TypeOK
  <2>7. CurrentAlive'
    BY <1>0, <2>2, <2>5 DEF IInv, TypeOK, CurrentAlive, IrqState, Object
  <2>8. OneCorpse'
    BY <1>0, <2>2, <2>5 DEF IInv, TypeOK, OneCorpse, IrqState, Object
  <2>9. NoLostNotify'
    <3> SUFFICES ASSUME NEW s \in tasks, state'[s] = "Waiting" PROVE ~notifyPending[s]
      BY <2>2 DEF NoLostNotify
    <3>1. state[s] = "Waiting"
      BY <1>0, <2>5 DEF IrqState, Object
    <3> QED
      BY <3>1, Zenon DEF IInv, NoLostNotify
  <2> QED
    BY <2>2, <2>6, <2>7, <2>8, <2>9 DEF IInv, UniqueIds, FpuIsolated,
       OwnAddressSpace, SlicesInPast, ContextsSaved
<1>11. CASE UNCHANGED vars
  BY <1>11 DEF vars, IInv, TypeOK, CurrentAlive, OneCorpse, NoLostNotify, UniqueIds,
     FpuIsolated, OwnAddressSpace, SlicesInPast, ContextsSaved
<1> QED
  BY <1>1, <1>2, <1>3, <1>4, <1>5, <1>6, <1>7, <1>8, <1>9, <1>10, <1>11
  DEF Next, syscallWait

(* The scheduler keeps its types: in particular virtual time never goes    *)
(* below zero.                                                             *)
THEOREM TypeCorrect == Spec => []TypeOK
<1>1. IInv => TypeOK
  BY DEF IInv
<1> QED
  BY <1>1, InitIInv, NextIInv, PTL DEF Spec

(* The task on the CPU is never destroyed under its own feet, and at most  *)
(* one task waits to be destroyed.                                         *)
THEOREM NoUseAfterDestroy == Spec => [](CurrentAlive /\ OneCorpse)
<1>1. IInv => CurrentAlive /\ OneCorpse
  BY DEF IInv
<1> QED
  BY <1>1, InitIInv, NextIInv, PTL DEF Spec

(* Wait and Notify never lose a notification. *)
THEOREM NotifyIsKept == Spec => []NoLostNotify
<1>1. IInv => NoLostNotify
  BY DEF IInv
<1> QED
  BY <1>1, InitIInv, NextIInv, PTL DEF Spec

(* A pid names one task. *)
THEOREM PidsAreUnique == Spec => []UniqueIds
<1>1. IInv => UniqueIds
  BY DEF IInv
<1> QED
  BY <1>1, InitIInv, NextIInv, PTL DEF Spec

(* FPU registers are isolated across both kinds of switch. *)
THEOREM ContextIsolation == Spec => []FpuIsolated
<1>1. IInv => FpuIsolated
  BY DEF IInv
<1> QED
  BY <1>1, InitIInv, NextIInv, PTL DEF Spec

(* No user task ever runs on the page table of another, or of a task that  *)
(* has been destroyed.                                                     *)
THEOREM TablesAreOwn == Spec => []OwnAddressSpace
<1>1. IInv => OwnAddressSpace
  BY DEF IInv
<1> QED
  BY <1>1, InitIInv, NextIInv, PTL DEF Spec

-----------------------------------------------------------------------------
(* A corpse stays one, or is reaped. *)

(* Whatever a handler did to the current task before, schedule destroys    *)
(* every other task that was dead.                                         *)
LEMMA ScheduleReaps ==
    ASSUME IInv, NEW st, NEW now, NEW otherwise,
           Schedule(st, now, otherwise),
           NEW t \in tasks, st[t] = "Dead"
    PROVE  state'[t] = "Free"
<1>1. t \in Object /\ t # Idle
  BY SchedulerAssumption DEF IInv, TypeOK, Object
<1> QED
  BY <1>1 DEF Schedule

(* An exited or crashed task is not made to run again by any sequence of   *)
(* notifications, switches and spawns, except by an interrupt it armed.    *)
THEOREM DeadAreNotRevived == Spec => DeadStaysDead
<1> DEFINE Revived(t) == \E i \in 1 .. MaxIrqWaiters :
                            /\ irqWaiters[i].used /\ irqWaiters[i].enabled
                            /\ irqWaiters[i].task = t /\ ~irqWaiters'[i].enabled
           Stays == \A t \in tasks :
                      state[t] = "Dead" /\ state'[t] \notin {"Dead", "Free"} => Revived(t)
<1>1. IInv /\ [Next]_vars => [Stays]_vars
  <2> SUFFICES ASSUME IInv, Next,
                      NEW t \in tasks, state[t] = "Dead", state'[t] \notin {"Dead", "Free"}
               PROVE  Revived(t)
    OBVIOUS
  <2>0. /\ t \in Task /\ t \in Object /\ t # current
        /\ state \in [Object -> State]
    BY SchedulerAssumption DEF IInv, TypeOK, CurrentAlive, Object
  <2>1. CASE Timer
    BY <2>1, ScheduleReaps DEF Timer
  <2>2. CASE syscallYield
    BY <2>2, ScheduleReaps DEF syscallYield
  <2>3. CASE syscallExit
    <3>1. [state EXCEPT ![current] = "PendingDelete"][t] = "Dead"
      BY <2>0
    <3> QED
      BY <2>3, <3>1, ScheduleReaps DEF syscallExit
  <2>4. CASE Fault
    <3>1. [state EXCEPT ![current] = "PendingDelete"][t] = "Dead"
      BY <2>0
    <3> QED
      BY <2>4, <3>1, ScheduleReaps DEF Fault
  <2>5. CASE syscallWaitBlock
    <3>1. [state EXCEPT ![current] = "Waiting"][t] = "Dead"
      BY <2>0
    <3> QED
      BY <2>5, <3>1, ScheduleReaps DEF syscallWaitBlock
  <2>6. CASE syscallWaitPending
    BY <2>6 DEF syscallWaitPending
  <2>7. ASSUME NEW s \in Task, syscallNotify(s) PROVE Revived(t)
    BY <2>0, <2>7 DEF syscallNotify, wakeTask
  <2>8. ASSUME NEW s \in Task, syscallSpawn(s) PROVE Revived(t)
    BY <2>0, <2>8 DEF syscallSpawn
  <2>9. ASSUME NEW v \in Vector, syscallSubscribeIrq(v) PROVE Revived(t)
    BY <2>9 DEF syscallSubscribeIrq
  <2>10. ASSUME NEW v \in Vector, irqDispatch(v) PROVE Revived(t)
    <3>1. PICK i \in 1 .. MaxIrqWaiters :
            /\ Armed(i, v)
            /\ irqWaiters' = [irqWaiters EXCEPT ![i].enabled = FALSE]
            /\ state' = [state EXCEPT ![irqWaiters[i].task] = IrqState(@)]
      BY <2>10 DEF irqDispatch
    <3>2. irqWaiters[i].task = t
      BY <2>0, <3>1
    <3>3. irqWaiters[i] \in [used : {TRUE}, vector : Vector, task : Task, enabled : BOOLEAN]
      <4>1. irqWaiters[i] \in Waiter
        BY DEF IInv, TypeOK
      <4>2. irqWaiters[i] # EmptyWaiter
        BY <3>1 DEF Armed, EmptyWaiter
      <4> QED
        BY <4>1, <4>2 DEF Waiter
    <3>4. ~irqWaiters'[i].enabled
      BY <3>1, <3>3 DEF IInv, TypeOK
    <3> QED
      BY <3>1, <3>2, <3>4 DEF Armed
  <2> QED
    BY <2>1, <2>2, <2>3, <2>4, <2>5, <2>6, <2>7, <2>8, <2>9, <2>10 DEF Next, syscallWait
<1>2. Spec => []IInv
  BY InitIInv, NextIInv, PTL DEF Spec
<1> QED
  BY <1>1, <1>2, PTL DEF Spec, DeadStaysDead

-----------------------------------------------------------------------------
(* The scheduler implements WaitNotify. *)

Asleep == {t \in tasks : state[t] = "Waiting"}
Pending == {t \in Alive : notifyPending[t]}

(* What schedule does to the tasks, seen through the mapping: those on     *)
(* their way out leave, those told to wait sleep, nothing else changes.    *)
LEMMA ScheduleMapping ==
    ASSUME IInv, NEW st \in [Object -> State], NEW now, NEW otherwise,
           \A t \in Object : t # current => st[t] = state[t],
           current # NoTask => st[current] # "Dead",
           Schedule(st, now, otherwise),
           UNCHANGED notifyPending
    PROVE  /\ Alive' = {t \in tasks : st[t] \notin {"Dead", "PendingDelete"}}
           /\ Asleep' = {t \in tasks : st[t] = "Waiting"}
           /\ Pending' = {t \in Alive' : notifyPending[t]}
<1> DEFINE dead  == {t \in tasks : st[t] = "Dead"}
           left  == tasks \ dead
           ready == {t \in left : st[t] \in Runnable}
           vt    == Charged(st, now)
<1>1. PICK next \in left \cup {Idle} :
         /\ IsPick(next, ready, vt)
         /\ tasks' = left
         /\ state' = [t \in Object |->
                        IF t = next THEN "Running"
                        ELSE IF t \in dead THEN "Free"
                        ELSE IF t = current /\ st[t] = "PendingDelete" THEN "Dead"
                        ELSE st[t]]
  BY Zenon DEF Schedule
<1>2. /\ tasks \subseteq Object /\ Idle \notin tasks
      /\ \A t \in tasks : t # current => st[t] # "PendingDelete"
  BY SchedulerAssumption DEF IInv, TypeOK, OneCorpse, Object
<1>3. next = Idle \/ st[next] \in {"Ready", "Running", "Notified"}
  BY <1>1 DEF IsPick, Runnable
<1>4. Alive' = {t \in tasks : st[t] \notin {"Dead", "PendingDelete"}}
  BY <1>1, <1>2, <1>3 DEF Alive
<1>5. Asleep' = {t \in tasks : st[t] = "Waiting"}
  BY <1>1, <1>2, <1>3 DEF Asleep
<1> QED
  BY <1>4, <1>5 DEF Pending

(* Every step of the scheduler is a step of WaitNotify or a stutter.       *)
LEMMA PrimitiveSteps ==
    \A p \in Task :
        /\ Primitive!Wait(p) => Primitive!WaitNotifyNext
        /\ Primitive!Exit(p) => Primitive!WaitNotifyNext
        /\ \A q \in Task : Primitive!Notify(p, q) => Primitive!WaitNotifyNext
  BY Zenon DEF Primitive!WaitNotifyNext

LEMMA StepMapping ==
    IInv /\ [Next]_vars => Primitive!WaitNotifyNext \/ UNCHANGED <<Alive, Asleep, Pending>>
<1> SUFFICES ASSUME IInv, [Next]_vars
             PROVE  Primitive!WaitNotifyNext \/ UNCHANGED <<Alive, Asleep, Pending>>
  OBVIOUS
<1>0. /\ state \in [Object -> State] /\ tasks \subseteq Task /\ tasks \subseteq Object
      /\ NoTask \notin tasks /\ Idle \notin tasks /\ Alive \subseteq tasks
      /\ notifyPending \in [Object -> BOOLEAN]
  BY SchedulerAssumption DEF IInv, TypeOK, Object, Alive
<1>1. current \in tasks => state[current] \in {"Running", "Notified"}
  BY <1>0 DEF IInv, CurrentAlive
<1>2. CASE Timer \/ syscallYield
  <2>1. /\ \E now, otherwise : Schedule(state, now, otherwise)
        /\ UNCHANGED notifyPending
    BY <1>2 DEF Timer, syscallYield
  <2>2. current # NoTask => state[current] # "Dead"
    BY DEF IInv, CurrentAlive
  <2>3. /\ Alive' = {t \in tasks : state[t] \notin {"Dead", "PendingDelete"}}
        /\ Asleep' = {t \in tasks : state[t] = "Waiting"}
        /\ Pending' = {t \in Alive' : notifyPending[t]}
    BY <1>0, <2>1, <2>2, ScheduleMapping
  <2>4. \A t \in tasks : state[t] # "PendingDelete"
    BY <1>0 DEF IInv, OneCorpse
  <2> QED
    BY <2>3, <2>4 DEF Alive, Asleep, Pending
<1>3. CASE syscallExit \/ Fault
  <2> DEFINE st == [state EXCEPT ![current] = "PendingDelete"]
  <2>1. /\ \E now, otherwise : Schedule(st, now, otherwise)
        /\ UNCHANGED notifyPending
        /\ current \in tasks
    BY <1>3 DEF syscallExit, Fault, InSyscall
  <2>2. /\ st \in [Object -> State] /\ st[current] = "PendingDelete"
        /\ \A t \in Object : t # current => st[t] = state[t]
    BY <1>0, <2>1 DEF State
  <2> HIDE DEF st
  <2>3. /\ Alive' = {t \in tasks : st[t] \notin {"Dead", "PendingDelete"}}
        /\ Asleep' = {t \in tasks : st[t] = "Waiting"}
        /\ Pending' = {t \in Alive' : notifyPending[t]}
    BY <2>1, <2>2, ScheduleMapping
  <2>4. \A t \in tasks : state[t] # "PendingDelete"
    BY <1>0 DEF IInv, OneCorpse
  <2>5. Alive' = Alive \ {current} /\ current \in Alive
    BY <1>0, <1>1, <2>1, <2>2, <2>3, <2>4 DEF Alive
  <2>6. Asleep' = Asleep /\ current \notin Asleep
    BY <1>0, <1>1, <2>1, <2>2, <2>3 DEF Asleep
  <2>7. Pending' = Pending \ {current}
    BY <2>3, <2>5, Zenon DEF Pending
  <2>8. PICK p \in Task : p = current
    BY <1>0, <2>1
  <2>9. Primitive!Exit(p)
    BY <2>5, <2>6, <2>7, <2>8 DEF Primitive!Exit, Primitive!Awake, Asleep, Pending
  <2> QED
    BY <2>9, PrimitiveSteps, Zenon
<1>4. CASE syscallWaitPending
  <2>1. /\ current \in tasks /\ notifyPending[current]
        /\ notifyPending' = [notifyPending EXCEPT ![current] = FALSE]
        /\ UNCHANGED <<tasks, state>>
    BY <1>4 DEF syscallWaitPending, InSyscall
  <2>2. /\ Alive' = Alive /\ Asleep' = Asleep
        /\ current \in Alive \ Asleep /\ current \in Pending
    BY <1>0, <1>1, <2>1 DEF Alive, Asleep, Pending
  <2>3. Pending' = Pending \ {current}
    BY <1>0, <2>1, <2>2 DEF Pending
  <2>4. PICK p \in Task : p = current
    BY <1>0, <2>1
  <2>5. Primitive!Wait(p)
    BY <2>2, <2>3, <2>4 DEF Primitive!Wait, Primitive!Awake, Asleep, Pending
  <2> QED
    BY <2>5, PrimitiveSteps, Zenon
<1>5. CASE syscallWaitBlock
  <2> DEFINE st == [state EXCEPT ![current] = "Waiting"]
  <2>1. /\ \E now, otherwise : Schedule(st, now, otherwise)
        /\ UNCHANGED notifyPending
        /\ current \in tasks /\ ~notifyPending[current]
    BY <1>5 DEF syscallWaitBlock, InSyscall
  <2>2. /\ st \in [Object -> State] /\ st[current] = "Waiting"
        /\ \A t \in Object : t # current => st[t] = state[t]
    BY <1>0, <2>1 DEF State
  <2> HIDE DEF st
  <2>3. /\ Alive' = {t \in tasks : st[t] \notin {"Dead", "PendingDelete"}}
        /\ Asleep' = {t \in tasks : st[t] = "Waiting"}
        /\ Pending' = {t \in Alive' : notifyPending[t]}
    BY <2>1, <2>2, ScheduleMapping
  <2>4. \A t \in tasks : state[t] # "PendingDelete"
    BY <1>0 DEF IInv, OneCorpse
  <2>5. Alive' = Alive /\ current \in Alive
    BY <1>0, <1>1, <2>1, <2>2, <2>3, <2>4 DEF Alive
  <2>6. Asleep' = Asleep \cup {current} /\ current \notin Asleep
    BY <1>0, <1>1, <2>1, <2>2, <2>3 DEF Asleep
  <2>7. Pending' = Pending /\ current \notin Pending
    BY <2>1, <2>3, <2>5, Zenon DEF Pending
  <2>8. PICK p \in Task : p = current
    BY <1>0, <2>1
  <2>9. Primitive!Wait(p)
    BY <2>5, <2>6, <2>7, <2>8 DEF Primitive!Wait, Primitive!Awake, Asleep, Pending
  <2> QED
    BY <2>9, PrimitiveSteps, Zenon
<1>6. ASSUME NEW t \in Task, syscallNotify(t)
      PROVE  Primitive!WaitNotifyNext
  <2>1. /\ current \in tasks /\ t \in tasks /\ t # current /\ state[t] # "Dead"
        /\ tasks' = tasks /\ t \in Object
    BY <1>0, <1>6 DEF syscallNotify, InSyscall
  <2>2. current \in Alive \ Asleep /\ t \in Alive \ {current}
    BY <1>1, <2>1 DEF Alive, Asleep
  <2>3. CASE state[t] = "Waiting"
    <3>1. state' = [state EXCEPT ![t] = "Running"] /\ notifyPending' = notifyPending
      BY <1>6, <2>3 DEF syscallNotify, wakeTask
    <3>2. Alive' = Alive /\ Asleep' = Asleep \ {t} /\ t \in Asleep
      BY <1>0, <2>1, <2>3, <3>1 DEF Alive, Asleep
    <3>3. Pending' = Pending
      BY <3>1, <3>2, Zenon DEF Pending
    <3>4. Primitive!Notify(current, t)
      BY <2>2, <3>2, <3>3 DEF Primitive!Notify, Primitive!Awake, Asleep, Pending
    <3>5. current \in Task
      BY <1>0, <2>1
    <3> QED
      BY <3>4, <3>5, PrimitiveSteps, Zenon
  <2>4. CASE state[t] # "Waiting"
    <3>1. notifyPending' = [notifyPending EXCEPT ![t] = TRUE] /\ state' = state
      BY <1>6, <2>4 DEF syscallNotify
    <3>2. Alive' = Alive /\ Asleep' = Asleep /\ t \notin Asleep
      BY <2>1, <2>4, <3>1 DEF Alive, Asleep
    <3>3. Pending' = Pending \cup {t}
      BY <1>0, <2>1, <2>2, <3>1, <3>2 DEF Pending
    <3>4. Primitive!Notify(current, t)
      BY <2>2, <3>2, <3>3 DEF Primitive!Notify, Primitive!Awake, Asleep, Pending
    <3>5. current \in Task
      BY <1>0, <2>1
    <3> QED
      BY <3>4, <3>5, PrimitiveSteps, Zenon
  <2> QED
    BY <2>3, <2>4
<1>7. ASSUME NEW t \in Task, syscallSpawn(t)
      PROVE  Primitive!WaitNotifyNext
  <2>1. /\ t \in Object /\ t \notin tasks /\ tasks' = tasks \cup {t}
        /\ state' = [state EXCEPT ![t] = "Ready"]
        /\ notifyPending' = [notifyPending EXCEPT ![t] = FALSE]
    BY <1>7 DEF syscallSpawn, Object, IInv, OneCorpse
  <2>2. Alive' = Alive \cup {t} /\ t \notin Alive
    BY <1>0, <2>1 DEF Alive
  <2>3. Asleep' = Asleep
    BY <1>0, <2>1 DEF Asleep
  <2>4. Pending' = Pending
    BY <1>0, <2>1, <2>2 DEF Pending
  <2> QED
    BY <2>2, <2>3, <2>4 DEF Primitive!Appear, Asleep, Pending, Primitive!WaitNotifyNext
<1>8. ASSUME NEW v \in Vector, syscallSubscribeIrq(v)
      PROVE  UNCHANGED <<Alive, Asleep, Pending>>
  BY <1>8 DEF syscallSubscribeIrq, Alive, Asleep, Pending
<1>9. ASSUME NEW v \in Vector, irqDispatch(v)
      PROVE  Primitive!WaitNotifyNext \/ UNCHANGED <<Alive, Asleep, Pending>>
  <2>1. PICK i \in 1 .. MaxIrqWaiters :
          Armed(i, v) /\ state' = [state EXCEPT ![irqWaiters[i].task] = IrqState(@)]
    BY <1>9 DEF irqDispatch
  <2>2. tasks' = tasks /\ notifyPending' = notifyPending
    BY <1>9 DEF irqDispatch
  <2>3. irqWaiters[i] \in [used : {TRUE}, vector : Vector, task : Task, enabled : BOOLEAN]
    <3>1. irqWaiters[i] \in Waiter
      BY DEF IInv, TypeOK
    <3>2. irqWaiters[i] # EmptyWaiter
      BY <2>1 DEF Armed, EmptyWaiter
    <3> QED
      BY <3>1, <3>2 DEF Waiter
  <2>4. PICK w \in Task : w = irqWaiters[i].task
    BY <2>3
  <2>5. w \in Object /\ state' = [state EXCEPT ![w] = IrqState(@)]
    BY <2>1, <2>4 DEF Object
  <2>6. CASE w \notin tasks \/ state[w] \notin {"Waiting", "Dead"}
    <3>1. Alive' = Alive /\ Asleep' = Asleep
      BY <1>0, <2>2, <2>5, <2>6 DEF IInv, OneCorpse, Alive, Asleep, IrqState
    <3> QED
      BY <2>2, <3>1, Zenon DEF Pending
  <2>7. CASE w \in tasks /\ state[w] = "Waiting"
    <3>1. Alive' = Alive /\ Asleep' = Asleep \ {w} /\ w \in Asleep
      BY <1>0, <2>2, <2>5, <2>7 DEF Alive, Asleep, IrqState
    <3>2. Pending' = Pending
      BY <2>2, <3>1, Zenon DEF Pending
    <3> QED
      BY <3>1, <3>2 DEF Primitive!Interrupt, Asleep, Pending, Primitive!WaitNotifyNext
  <2>8. CASE w \in tasks /\ state[w] = "Dead"
    <3>1. Alive' = Alive \cup {w} /\ Asleep' = Asleep /\ w \notin Alive
      BY <1>0, <2>2, <2>5, <2>8 DEF Alive, Asleep, IrqState
    <3>2. Pending' \in {Pending, Pending \cup {w}}
      BY <1>0, <2>2, <3>1 DEF Pending
    <3> QED
      BY <3>1, <3>2 DEF Primitive!Appear, Asleep, Pending, Primitive!WaitNotifyNext
  <2> QED
    BY <2>6, <2>7, <2>8
<1>10. CASE UNCHANGED vars
  BY <1>10 DEF vars, Alive, Asleep, Pending
<1> QED
  BY <1>2, <1>3, <1>4, <1>5, <1>6, <1>7, <1>8, <1>9, <1>10 DEF Next, syscallWait

(* What programs rely on of Wait and Notify is what the scheduler does:    *)
(* notified tasks run, and only a Wait of the task itself puts it to sleep *)
(* or consumes its notification.                                           *)
THEOREM SchedulerImplementsWaitNotify == Spec => ImplementsWaitNotify
<1>1. Init => Primitive!WaitNotifyInit
  BY SchedulerAssumption DEF Init, Primitive!WaitNotifyInit, Alive, Object
<1>2. IInv /\ [Next]_vars => [Primitive!WaitNotifyNext]_(Primitive!waitVars)
  BY StepMapping DEF Primitive!waitVars, Asleep, Pending
<1> QED
  BY <1>1, <1>2, InitIInv, NextIInv, PTL
  DEF Spec, ImplementsWaitNotify, Primitive!WaitNotifySpec

-----------------------------------------------------------------------------
(* NoTickChargedTwice is about a sum over the tasks.  What follows is what *)
(* its proof needs of sums: which term is added first does not matter, one *)
(* term can be raised by itself, and fewer terms make no more.  The        *)
(* recursion that computes a sum is on the size of a finite set, so each   *)
(* lemma is an induction on numbers, made with the set of the numbers it   *)
(* holds for.                                                              *)
Pick(s) == CHOOSE x \in s : TRUE

Sums(f, D, g) ==
    g = [s \in D |-> IF s = {} THEN 0
                     ELSE f[Pick(s)] + g[s \ {Pick(s)}]]

(* A set of natural numbers that is not empty has a least element.         *)
LEMMA Least == \A T \in SUBSET Nat : T # {} => \E x \in T : \A y \in T : x <= y
<1> SUFFICES ASSUME NEW T \in SUBSET Nat, NEW n \in T PROVE \E x \in T : \A y \in T : x <= y
  OBVIOUS
<1> DEFINE R == StrictSubsetOrdering(0 .. n)
           C == {0 .. k : k \in {j \in T : j <= n}}
<1>1. IsFiniteSet(0 .. n)
  BY FS_Interval
<1>2. IsWellFoundedOn(R, SUBSET (0 .. n))
  BY <1>1, FS_StrictSubsetOrderingWellFounded, FS_FiniteSubsetsOfFinite
<1>3. C \subseteq SUBSET (0 .. n) /\ C # {}
   OBVIOUS
<1>4. PICK x \in C : \A y \in C : ~(<<y, x>> \in R)
  <2> HIDE DEF R, C
  <2> QED BY <1>2, <1>3, WFMin
<1>5. PICK m \in T : m <= n /\ x = 0 .. m
  BY <1>4
<1>6. ASSUME NEW y \in T, y < m PROVE FALSE
  <2>1. 0 .. y \in C
    BY <1>5, <1>6
  <2>2. 0 .. y \in SUBSET (0 .. n) /\ 0 .. m \in SUBSET (0 .. n)
    BY <1>5, <1>6
  <2>3. 0 .. y \subseteq 0 .. m /\ 0 .. y # 0 .. m
    BY <1>5, <1>6
  <2>4. <<0 .. y, 0 .. m>> \in R
    BY <2>2, <2>3 DEF StrictSubsetOrdering
  <2> QED BY <2>4, <2>1, <1>4, <1>5
<1> QED BY <1>5, <1>6

(* Induction, for a set.                                                   *)
LEMMA UpFromZero ==
    \A S \in SUBSET Nat : 0 \in S /\ (\A n \in S : n + 1 \in S) => S = Nat
<1> SUFFICES ASSUME NEW S \in SUBSET Nat, 0 \in S, \A n \in S : n + 1 \in S, NEW m \in Nat \ S
             PROVE  FALSE
  OBVIOUS
<1>1. PICK x \in Nat \ S : \A y \in Nat \ S : x <= y
  <2> DEFINE T == Nat \ S
  <2>1. T \in SUBSET Nat /\ T # {}
    OBVIOUS
  <2> HIDE DEF T
  <2>2. \E x \in T : \A y \in T : x <= y
    BY <2>1, Least
  <2> QED BY <2>2 DEF T
<1>2. x # 0 /\ x - 1 \in Nat
  BY <1>1
<1>3. x - 1 \in S
  BY <1>1, <1>2
<1> QED BY <1>1, <1>2, <1>3

(* A sum over a finite set exists: the recursion that defines it is on the *)
(* size of the set.                                                        *)
LEMMA SumsExist == ASSUME NEW f, NEW S, IsFiniteSet(S) PROVE \E g : Sums(f, SUBSET S, g)
<1> DEFINE D(n) == {s \in SUBSET S : Cardinality(s) <= n}
           P == {n \in Nat : \E g : Sums(f, D(n), g)}
<1>0. \A s \in SUBSET S : /\ IsFiniteSet(s) /\ Cardinality(s) \in Nat
                          /\ Cardinality(s) <= Cardinality(S)
                          /\ Cardinality(s) = 0 <=> s = {}
  BY FS_Subset, FS_CardinalityType, FS_EmptySet
<1>1. 0 \in P
  <2>1. D(0) = {{}}
    BY <1>0
  <2>2. Sums(f, D(0), [s \in D(0) |-> 0])
    BY <2>1 DEF Sums
  <2> QED BY <2>2
<1>2. ASSUME NEW n \in P PROVE n + 1 \in P
  <2>1. PICK g : Sums(f, D(n), g)
    BY <1>2
  <2> DEFINE h == [s \in D(n + 1) |-> IF s = {} THEN 0
                     ELSE f[Pick(s)] + g[s \ {Pick(s)}]]
  <2>2. ASSUME NEW s \in D(n) PROVE h[s] = g[s]
    <3>1. s \in D(n + 1)
      BY <1>0, <2>2
    <3> QED BY <2>1, <2>2, <3>1 DEF Sums
  <2>3. ASSUME NEW s \in D(n + 1), s # {} PROVE s \ {Pick(s)} \in D(n)
    <3>1. Pick(s) \in s
      BY <2>3 DEF Pick
    <3> QED BY <1>0, <2>3, <3>1, FS_RemoveElement
  <2>4. \A s \in D(n + 1) : s # {} => h[s \ {Pick(s)}] = g[s \ {Pick(s)}]
    <3> HIDE DEF D, h
    <3> QED BY <2>2, <2>3
  <2>5. Sums(f, D(n + 1), h)
    <3> HIDE DEF D
    <3> QED BY <2>4 DEF Sums
  <2>6. n + 1 \in Nat
    OBVIOUS
  <2> HIDE DEF h, D
  <2> QED BY <2>5, <2>6
<1>3. P = Nat
  <2> HIDE DEF P
  <2>1. P \in SUBSET Nat
    BY DEF P
  <2> QED BY <1>1, <1>2, <2>1, UpFromZero
<1>4. D(Cardinality(S)) = SUBSET S /\ Cardinality(S) \in Nat
  BY <1>0
<1>5. \E g : Sums(f, D(Cardinality(S)), g)
  BY <1>3, <1>4
<1> QED BY <1>4, <1>5

(* The sum of a set depends on nothing but the values there.               *)
LEMMA SumsAgree ==
    \A f, h, S, R, T, g, k :
        /\ Sums(f, SUBSET S, g) /\ Sums(h, SUBSET R, k)
        /\ T \subseteq S /\ T \subseteq R /\ IsFiniteSet(T)
        /\ \A x \in T : f[x] = h[x]
        => g[T] = k[T]
<1> TAKE f, h, S, R, T, g, k
<1> SUFFICES ASSUME Sums(f, SUBSET S, g), Sums(h, SUBSET R, k),
                    T \subseteq S, T \subseteq R, IsFiniteSet(T),
                    \A x \in T : f[x] = h[x]
             PROVE  g[T] = k[T]
  OBVIOUS
<1> DEFINE P == {n \in Nat : \A s \in SUBSET T : Cardinality(s) = n => g[s] = k[s]}
<1>0. \A s \in SUBSET T : /\ IsFiniteSet(s) /\ Cardinality(s) \in Nat
                          /\ Cardinality(s) = 0 <=> s = {}
  BY FS_Subset, FS_CardinalityType, FS_EmptySet
<1>1. 0 \in P
  BY <1>0 DEF Sums
<1>2. ASSUME NEW n \in P PROVE n + 1 \in P
  <2> SUFFICES ASSUME NEW s \in SUBSET T, Cardinality(s) = n + 1 PROVE g[s] = k[s]
    OBVIOUS
  <2> DEFINE x == Pick(s)
  <2>1. x \in s /\ s # {}
    BY <1>0 DEF Pick
  <2>2. s \ {x} \in SUBSET T /\ Cardinality(s \ {x}) = n
    BY <1>0, <2>1, FS_RemoveElement
  <2>3. g[s \ {x}] = k[s \ {x}]
    BY <2>2
  <2>4. g[s] = f[x] + g[s \ {x}]
    BY <2>1 DEF Sums
  <2>5. k[s] = h[x] + k[s \ {x}]
    BY <2>1 DEF Sums
  <2> QED BY <2>1, <2>3, <2>4, <2>5
<1>3. P = Nat
  <2> HIDE DEF P
  <2>1. P \in SUBSET Nat
    BY DEF P
  <2> QED BY <1>1, <1>2, <2>1, UpFromZero
<1> QED BY <1>0, <1>3

(* Total is the library's sum, read as the recursion above.                *)
LEMMA TotalIs == \A f, S : Total(f, S) = (CHOOSE g : Sums(f, SUBSET S, g))[S]
  BY DEF Total, MapThenSumSet, MapThenFoldSet, Sums, Pick

(* Functions that agree on a set have the same sum there.                  *)
LEMMA TotalAgrees ==
    ASSUME NEW f, NEW h, NEW S, IsFiniteSet(S), \A x \in S : f[x] = h[x]
    PROVE  Total(f, S) = Total(h, S)
<1> DEFINE g == CHOOSE g : Sums(f, SUBSET S, g)
           k == CHOOSE k : Sums(h, SUBSET S, k)
<1>1. Sums(f, SUBSET S, g) /\ Sums(h, SUBSET S, k)
  BY SumsExist
<1>2. Total(f, S) = g[S] /\ Total(h, S) = k[S]
  BY TotalIs
<1> HIDE DEF g, k
<1>3. S \subseteq S
  OBVIOUS
<1>4. g[S] = k[S]
  BY <1>1, <1>3, SumsAgree
<1> QED BY <1>2, <1>4

(* The empty sum.                                                          *)
LEMMA TotalEmpty == \A f : Total(f, {}) = 0
<1> SUFFICES ASSUME NEW f PROVE Total(f, {}) = 0
  OBVIOUS
<1> DEFINE g == CHOOSE g : Sums(f, SUBSET {}, g)
<1>1. Sums(f, SUBSET {}, g)
  BY SumsExist, FS_EmptySet
<1>2. Total(f, {}) = g[{}]
  BY TotalIs
<1> HIDE DEF g
<1> QED BY <1>1, <1>2 DEF Sums

(* A sum is some term and the sum of the others.                           *)
LEMMA TotalFirst ==
    ASSUME NEW f, NEW S, IsFiniteSet(S), S # {}
    PROVE  \E x \in S : Total(f, S) = f[x] + Total(f, S \ {x})
<1> DEFINE x == Pick(S)
           T == S \ {x}
           g == CHOOSE g : Sums(f, SUBSET S, g)
           k == CHOOSE k : Sums(f, SUBSET T, k)
<1>1. x \in S /\ IsFiniteSet(T)
  BY FS_Subset DEF Pick
<1>2. Sums(f, SUBSET S, g) /\ Sums(f, SUBSET T, k)
  <2> HIDE DEF T
  <2> QED BY <1>1, SumsExist
<1>3. Total(f, S) = g[S] /\ Total(f, T) = k[T]
  BY TotalIs
<1> HIDE DEF g, k
<1>4. g[T] = k[T]
  <2>1. T \subseteq S /\ T \subseteq T /\ \A y \in T : f[y] = f[y]
    OBVIOUS
  <2> HIDE DEF T, x
  <2> QED BY <1>1, <1>2, <2>1, SumsAgree, SMT
<1>5. g[S] = f[x] + g[T]
  BY <1>2 DEF Sums
<1> QED BY <1>1, <1>3, <1>4, <1>5

(* A sum of natural numbers is one, and is what any one of its terms and   *)
(* the others make.                                                        *)
LEMMA TotalAny ==
    ASSUME NEW f, NEW S, IsFiniteSet(S), \A x \in S : f[x] \in Nat
    PROVE  /\ Total(f, S) \in Nat
           /\ \A x \in S : Total(f, S) = f[x] + Total(f, S \ {x})
<1> DEFINE Q(T) == /\ Total(f, T) \in Nat
                   /\ \A x \in T : Total(f, T) = f[x] + Total(f, T \ {x})
           P == {n \in Nat : \A T \in SUBSET S : Cardinality(T) <= n => Q(T)}
<1>0. \A s \in SUBSET S : /\ IsFiniteSet(s) /\ Cardinality(s) \in Nat
                          /\ Cardinality(s) = 0 <=> s = {}
  BY FS_Subset, FS_CardinalityType, FS_EmptySet
<1>1. 0 \in P
  BY <1>0, TotalEmpty
<1>2. ASSUME NEW n \in P PROVE n + 1 \in P
  <2> SUFFICES ASSUME NEW T \in SUBSET S, Cardinality(T) <= n + 1, T # {} PROVE Q(T)
    BY <1>0, TotalEmpty
  <2>1. \A s \in SUBSET T : s # T => Cardinality(s) <= n
    BY <1>0, FS_Subset
  <2>2. \A s \in SUBSET T : s # T => Q(s)
    <3> HIDE DEF Q
    <3> QED BY <1>2, <2>1
  <2>3. \A y \in T : Q(T \ {y}) /\ \A z \in T : Q((T \ {y}) \ {z})
    <3> HIDE DEF Q
    <3> QED BY <2>2
  <2>4. PICK c \in T : Total(f, T) = f[c] + Total(f, T \ {c})
    BY <1>0, TotalFirst
  <2>5. f[c] \in Nat /\ Total(f, T) \in Nat
    BY <2>3, <2>4
  <2>6. ASSUME NEW y \in T, y # c PROVE Total(f, T) = f[y] + Total(f, T \ {y})
    <3>1. (T \ {c}) \ {y} = (T \ {y}) \ {c}
      OBVIOUS
    <3>2. Total(f, T \ {c}) = f[y] + Total(f, (T \ {c}) \ {y})
      BY <2>3, <2>6
    <3>3. Total(f, T \ {y}) = f[c] + Total(f, (T \ {c}) \ {y})
      BY <2>3, <2>6, <3>1
    <3>4. Total(f, (T \ {c}) \ {y}) \in Nat /\ f[y] \in Nat
      BY <2>3
    <3> QED BY <2>4, <2>5, <2>6, <3>2, <3>3, <3>4
  <2> QED BY <2>4, <2>5, <2>6
<1>3. P = Nat
  <2> HIDE DEF P
  <2>1. P \in SUBSET Nat
    BY DEF P
  <2> QED BY <1>1, <1>2, <2>1, UpFromZero
<1>4. S \in SUBSET S /\ Cardinality(S) \in Nat
  BY <1>0
<1>5. Q(S)
  BY <1>3, <1>4
<1> QED BY <1>5

(* Fewer terms make no more. *)
LEMMA TotalOfPart ==
    ASSUME NEW f, NEW S, IsFiniteSet(S), \A x \in S : f[x] \in Nat, NEW R \in SUBSET S
    PROVE  Total(f, R) <= Total(f, S)
<1> DEFINE P == {n \in Nat : \A T \in SUBSET S : Cardinality(T) <= n =>
                     \A U \in SUBSET T : Total(f, U) <= Total(f, T)}
<1>0. \A s \in SUBSET S : /\ IsFiniteSet(s) /\ Cardinality(s) \in Nat
                          /\ Cardinality(s) = 0 <=> s = {}
                          /\ Total(f, s) \in Nat
  BY FS_Subset, FS_CardinalityType, FS_EmptySet, TotalAny
<1>1. 0 \in P
  BY <1>0
<1>2. ASSUME NEW n \in P PROVE n + 1 \in P
  <2> SUFFICES ASSUME NEW T \in SUBSET S, Cardinality(T) <= n + 1, NEW U \in SUBSET T
               PROVE  Total(f, U) <= Total(f, T)
    OBVIOUS
  <2>1. CASE U = T
    BY <1>0, <2>1
  <2>2. CASE U # T
    <3>1. PICK x \in T : x \notin U
      BY <2>2
    <3>2. T \ {x} \in SUBSET S /\ Cardinality(T \ {x}) <= n /\ U \in SUBSET (T \ {x})
      BY <1>0, <3>1, FS_RemoveElement
    <3>3. Total(f, U) <= Total(f, T \ {x})
      BY <1>2, <3>2
    <3>4. Total(f, T) = f[x] + Total(f, T \ {x})
      BY <1>0, <3>1, TotalAny
    <3>5. Total(f, U) \in Nat /\ Total(f, T \ {x}) \in Nat /\ f[x] \in Nat
      BY <1>0, <3>1, <3>2
    <3> QED BY <3>3, <3>4, <3>5
  <2> QED BY <2>1, <2>2
<1>3. P = Nat
  <2> HIDE DEF P
  <2>1. P \in SUBSET Nat
    BY DEF P
  <2> QED BY <1>1, <1>2, <2>1, UpFromZero
<1>4. Cardinality(S) \in Nat
  BY <1>0
<1> QED BY <1>3, <1>4

(* A term that grows makes the sum grow by as much. *)
LEMMA TotalRaised ==
    ASSUME NEW f, NEW h, NEW S, IsFiniteSet(S), NEW x \in S, NEW d \in Nat,
           \A y \in S : f[y] \in Nat,
           \A y \in S : h[y] = IF y = x THEN f[y] + d ELSE f[y]
    PROVE  Total(h, S) = Total(f, S) + d
<1> DEFINE R == S \ {x}
<1>1. /\ h[x] = f[x] + d
      /\ \A y \in S : h[y] \in Nat /\ f[y] \in Nat
      /\ \A y \in R : h[y] = f[y]
      /\ IsFiniteSet(R)
  BY FS_Subset
<1> HIDE DEF R
<1>2. Total(h, R) = Total(f, R)
  BY <1>1, TotalAgrees
<1>3. Total(h, S) = h[x] + Total(h, R)
  BY <1>1, TotalAny DEF R
<1>5. Total(f, S) = f[x] + Total(f, R)
  BY <1>1, TotalAny DEF R
<1>4. Total(f, R) \in Nat /\ f[x] \in Nat
  BY <1>1, TotalAny DEF R
<1> QED BY <1>1, <1>2, <1>3, <1>4, <1>5

-----------------------------------------------------------------------------
(* The accounts, with the finiteness the sum needs.                        *)
Accounts == IsFiniteSet(tasks) /\ NoTickChargedTwice

(* Charging the current task and dropping the dead keeps the virtual times *)
(* within the ticks that passed.                                           *)
LEMMA Charging ==
    ASSUME IInv, Accounts, NEW st, NEW now \in Nat, now >= ticks,
           NEW left \in SUBSET tasks
    PROVE  Total(Charged(st, now), left \cup {Idle}) <= now
<1> DEFINE W == tasks \cup {Idle}
           vt == Charged(st, now)
           open == IF current = NoTask THEN 0 ELSE ticks - schedStart[current]
<1>1. /\ virtualTime \in [Object -> Nat] /\ ticks \in Nat
      /\ schedStart \in [Object -> Nat]
      /\ W \in SUBSET Object /\ IsFiniteSet(W)
      /\ current # NoTask => current \in W /\ schedStart[current] <= ticks
  BY FS_AddElement DEF IInv, TypeOK, Object, Accounts, CurrentAlive, SlicesInPast
<1>2. Total(virtualTime, W) + open <= ticks
  BY DEF Accounts, NoTickChargedTwice
<1>3. Total(virtualTime, W) \in Nat /\ open \in Nat
  BY <1>1, TotalAny
<1> HIDE DEF W
<1>4. Total(vt, W) <= now /\ \A t \in W : vt[t] \in Nat
  <2>1. CASE current # NoTask /\ st[current] \notin {"PendingDelete", "Dead"}
    <3>1. now - schedStart[current] \in Nat
      BY <1>1, <2>1
    <3>2. vt = [virtualTime EXCEPT ![current] = @ + (now - schedStart[current])]
      BY <2>1 DEF Charged
    <3>3. \A t \in W : vt[t] = IF t = current
                              THEN virtualTime[t] + (now - schedStart[current])
                              ELSE virtualTime[t]
      BY <1>1, <3>2
    <3>4. \A t \in W : vt[t] \in Nat
      BY <1>1, <3>1, <3>2
    <3>5. Total(vt, W) = Total(virtualTime, W) + (now - schedStart[current])
      <4> DEFINE d == now - schedStart[current]
      <4>1. d \in Nat /\ current \in W /\ \A t \in W : virtualTime[t] \in Nat
        BY <1>1, <2>1, <3>1
      <4>2. \A t \in W : vt[t] = IF t = current THEN virtualTime[t] + d ELSE virtualTime[t]
        BY <3>3
      <4> HIDE DEF d, vt
      <4>3. Total(vt, W) = Total(virtualTime, W) + d
        BY <1>1, <4>1, <4>2, TotalRaised
      <4> QED BY <4>3 DEF d
    <3> QED BY <1>1, <1>2, <1>3, <2>1, <3>4, <3>5
  <2>2. CASE ~(current # NoTask /\ st[current] \notin {"PendingDelete", "Dead"})
    <3>1. vt = virtualTime
      BY <2>2 DEF Charged
    <3> QED BY <1>1, <1>2, <1>3, <3>1
  <2> QED BY <2>1, <2>2
<1>5. left \cup {Idle} \in SUBSET W
  BY DEF W
<1>6. Total(vt, left \cup {Idle}) <= Total(vt, W)
  <2> HIDE DEF vt
  <2> QED BY <1>1, <1>4, <1>5, TotalOfPart
<1>7. Total(vt, W) \in Nat /\ Total(vt, left \cup {Idle}) \in Nat
  <2>1. IsFiniteSet(left \cup {Idle})
    BY <1>1, <1>5, FS_Subset
  <2> HIDE DEF vt
  <2> QED BY <1>1, <1>4, <1>5, <2>1, TotalAny
<1> QED BY <1>4, <1>6, <1>7

(* Whatever handler ends in schedule, the accounts balance after it.       *)
LEMMA ScheduleAccounts ==
    ASSUME IInv, Accounts, NEW st, NEW now \in Nat, NEW otherwise, now >= ticks,
           Schedule(st, now, otherwise), ticks' = now
    PROVE  Accounts'
<1> DEFINE dead  == {t \in tasks : st[t] = "Dead"}
           left  == tasks \ dead
           ready == {t \in left : st[t] \in Runnable}
           vt    == Charged(st, now)
<1>1. PICK next \in left \cup {Idle} :
         /\ IsPick(next, ready, vt)
         /\ tasks' = left
         /\ virtualTime' = vt
         /\ state' = [t \in Object |->
                        IF t = next THEN "Running"
                        ELSE IF t \in dead THEN "Free"
                        ELSE IF t = current /\ st[t] = "PendingDelete" THEN "Dead"
                        ELSE st[t]]
         /\ SwitchTo(next, now)
         /\ LoadCr3(next, otherwise)
  BY Zenon DEF Schedule
<1>2. next \in Object /\ next # NoTask /\ left \in SUBSET tasks /\ tasks \subseteq Task
  BY SchedulerAssumption DEF IInv, TypeOK, Object
<1>3. current' = next /\ schedStart'[next] = now
  BY <1>1, <1>2 DEF SwitchTo, IInv, TypeOK
<1>4. tasks' = left /\ virtualTime' = vt
  BY <1>1
<1> HIDE DEF left, vt
<1>5. Total(vt, left \cup {Idle}) <= now
  BY <1>2, Charging DEF vt
<1>6. IsFiniteSet(left)
  BY <1>2, FS_Subset DEF Accounts
<1>7. Total(vt, left \cup {Idle}) + 0 <= now
  <2>1. Total(vt, left \cup {Idle}) \in Nat
    <3>1. IsFiniteSet(left \cup {Idle})
      BY <1>6, FS_AddElement
    <3>2. \A t \in left \cup {Idle} : vt[t] \in Nat
      <4>1. current # NoTask => current \in Object /\ schedStart[current] <= ticks
        BY DEF IInv, CurrentAlive, SlicesInPast, TypeOK, Object
      <4>2. left \cup {Idle} \subseteq Object
        BY <1>2 DEF Object
      <4> QED BY <4>1, <4>2 DEF vt, Charged, IInv, TypeOK
    <3> QED BY <3>1, <3>2, TotalAny
  <2> QED BY <1>5, <2>1
<1>8. NoTickChargedTwice'
  <2>1. (IF current' = NoTask THEN 0 ELSE ticks' - schedStart'[current']) = 0
    BY <1>2, <1>3
  <2>2. Total(virtualTime', tasks' \cup {Idle}) + 0 <= ticks'
    BY <1>4, <1>7
  <2> QED BY <2>1, <2>2 DEF NoTickChargedTwice
<1> QED BY <1>4, <1>6, <1>8 DEF Accounts

(* Every step keeps the accounts. *)
LEMMA NextAccounts == IInv /\ Accounts /\ [Next]_vars => Accounts'
<1> SUFFICES ASSUME IInv, Accounts, [Next]_vars PROVE Accounts'
  OBVIOUS
<1> USE DEF InSyscall
<1>0. ticks \in Nat /\ ticks + 1 \in Nat /\ ticks + 1 >= ticks /\ ticks >= ticks
  BY DEF IInv, TypeOK
<1>1. ASSUME UNCHANGED <<tasks, current, ticks, virtualTime, schedStart>> PROVE Accounts'
  BY <1>1 DEF Accounts, NoTickChargedTwice
<1>2. CASE Timer
  BY <1>0, <1>2, ScheduleAccounts DEF Timer
<1>3. CASE syscallYield
  BY <1>0, <1>3, ScheduleAccounts DEF syscallYield
<1>4. CASE syscallExit
  BY <1>0, <1>4, ScheduleAccounts DEF syscallExit
<1>5. CASE Fault
  BY <1>0, <1>5, ScheduleAccounts DEF Fault
<1>6. CASE syscallWait
  <2>1. CASE syscallWaitPending
    BY <1>1, <2>1 DEF syscallWaitPending
  <2>2. CASE syscallWaitBlock
    BY <1>0, <2>2, ScheduleAccounts DEF syscallWaitBlock
  <2> QED BY <1>6, <2>1, <2>2 DEF syscallWait
<1>7. ASSUME NEW t \in Task, syscallNotify(t) PROVE Accounts'
  <2>1. CASE state[t] # "Waiting"
    BY <1>1, <1>7, <2>1 DEF syscallNotify
  <2>2. CASE state[t] = "Waiting"
    <3>1. /\ virtualTime' = Charged(state, ticks) /\ SwitchTo(t, ticks)
          /\ tasks' = tasks /\ ticks' = ticks
      BY <1>7, <2>2 DEF syscallNotify, wakeTask
    <3>2. t # NoTask /\ t \in Object /\ current' = t /\ schedStart'[t] = ticks
      BY <3>1, SchedulerAssumption DEF SwitchTo, IInv, TypeOK, Object
    <3>3. (IF current' = NoTask THEN 0 ELSE ticks' - schedStart'[current']) = 0
      BY <1>0, <3>1, <3>2
    <3>4. Total(Charged(state, ticks), tasks \cup {Idle}) <= ticks
      <4>1. tasks \in SUBSET tasks
        OBVIOUS
      <4> QED BY <1>0, <4>1, Charging
    <3>5. Total(Charged(state, ticks), tasks \cup {Idle}) \in Nat
      <4>1. IsFiniteSet(tasks \cup {Idle})
        BY FS_AddElement DEF Accounts
      <4>2. \A s \in tasks \cup {Idle} : Charged(state, ticks)[s] \in Nat
        <5>1. current # NoTask => current \in Object /\ schedStart[current] <= ticks
          BY DEF IInv, CurrentAlive, SlicesInPast, TypeOK, Object
        <5> QED BY <5>1 DEF Charged, IInv, TypeOK, Object
      <4> QED BY <4>1, <4>2, TotalAny
    <3>6. Total(virtualTime', tasks' \cup {Idle}) + 0 <= ticks'
      BY <3>1, <3>4, <3>5
    <3> QED BY <3>1, <3>3, <3>6 DEF Accounts, NoTickChargedTwice
  <2> QED BY <2>1, <2>2
<1>8. ASSUME NEW t \in Task, syscallSpawn(t) PROVE Accounts'
  <2> DEFINE W == tasks \cup {Idle}
             X == W \cup {t}
  <2>1. /\ t \in Object /\ t \notin W /\ t # current /\ W \subseteq Object
        /\ IsFiniteSet(W) /\ IsFiniteSet(X) /\ IsFiniteSet(tasks \cup {t})
    BY <1>8, FS_AddElement, SchedulerAssumption
    DEF syscallSpawn, Object, IInv, OneCorpse, TypeOK, Accounts
  <2>2. /\ tasks' = tasks \cup {t} /\ virtualTime' = [virtualTime EXCEPT ![t] = 0]
        /\ schedStart' = [schedStart EXCEPT ![t] = 0]
        /\ current' = current /\ ticks' = ticks /\ current \in tasks
    BY <1>8 DEF syscallSpawn
  <2>3. /\ virtualTime'[t] = 0 /\ \A s \in W : virtualTime'[s] = virtualTime[s]
        /\ \A s \in X : virtualTime'[s] \in Nat
        /\ \A s \in W : virtualTime[s] \in Nat
    BY <2>1, <2>2 DEF IInv, TypeOK
  <2>4. tasks' \cup {Idle} = X /\ X \ {t} = W /\ t \in X
    BY <2>1, <2>2
  <2> HIDE DEF W, X
  <2>5. Total(virtualTime', X) = virtualTime'[t] + Total(virtualTime', X \ {t})
    BY <2>1, <2>3, <2>4, TotalAny
  <2>6. Total(virtualTime', W) = Total(virtualTime, W)
    BY <2>1, <2>3, TotalAgrees
  <2>7. Total(virtualTime, W) \in Nat
    BY <2>1, <2>3, TotalAny
  <2>8. Total(virtualTime', tasks' \cup {Idle}) = Total(virtualTime, W)
    <3>1. Total(virtualTime', X) = 0 + Total(virtualTime, W)
      BY <2>3, <2>4, <2>5, <2>6
    <3> QED BY <2>4, <2>7, <3>1
  <2>9. schedStart'[current'] = schedStart[current]
    BY <2>1, <2>2 DEF IInv, TypeOK, W
  <2>10. Total(virtualTime, W) + (ticks - schedStart[current]) <= ticks /\ current # NoTask
    BY <2>2, SchedulerAssumption DEF Accounts, NoTickChargedTwice, W, IInv, TypeOK
  <2> QED BY <2>1, <2>2, <2>8, <2>9, <2>10 DEF Accounts, NoTickChargedTwice
<1>9. ASSUME NEW v \in Vector, syscallSubscribeIrq(v) PROVE Accounts'
  BY <1>1, <1>9 DEF syscallSubscribeIrq
<1>10. ASSUME NEW v \in Vector, irqDispatch(v) PROVE Accounts'
  BY <1>1, <1>10 DEF irqDispatch
<1>11. CASE UNCHANGED vars
  BY <1>1, <1>11 DEF vars
<1> QED
  BY <1>2, <1>3, <1>4, <1>5, <1>6, <1>7, <1>8, <1>9, <1>10, <1>11 DEF Next

(* No tick is charged twice: whatever switches, exits, wake-ups and spawns *)
(* the scheduler makes, the virtual time of the live tasks and idle and    *)
(* the open slice add up to no more than the ticks that passed.            *)
THEOREM TicksAreChargedOnce == Spec => []NoTickChargedTwice
<1>1. Init => Accounts
  <2> SUFFICES ASSUME Init PROVE Accounts
    OBVIOUS
  <2>1. tasks = {InitTask} /\ current = NoTask /\ ticks = 0
        /\ virtualTime = [t \in Object |-> 0]
    BY DEF Init
  <2>2. IsFiniteSet(tasks) /\ IsFiniteSet(tasks \cup {Idle})
    BY <2>1, FS_Singleton, FS_AddElement
  <2>3. \A x \in tasks \cup {Idle} : virtualTime[x] = 0 /\ virtualTime[x] \in Nat
    BY <2>1, SchedulerAssumption DEF Object
  <2>4. /\ (tasks \cup {Idle}) \ {Idle} = tasks /\ tasks \ {InitTask} = {}
        /\ Idle \in tasks \cup {Idle} /\ InitTask \in tasks /\ tasks \subseteq tasks \cup {Idle}
    BY <2>1, SchedulerAssumption
  <2>5. Total(virtualTime, tasks \cup {Idle}) = 0
    <3>1. Total(virtualTime, tasks \cup {Idle})
            = virtualTime[Idle] + Total(virtualTime, (tasks \cup {Idle}) \ {Idle})
      BY <2>2, <2>3, <2>4, TotalAny
    <3>2. Total(virtualTime, tasks)
            = virtualTime[InitTask] + Total(virtualTime, tasks \ {InitTask})
      <4>1. \A x \in tasks : virtualTime[x] \in Nat
        BY <2>3
      <4> QED BY <2>2, <2>4, <4>1, TotalAny
    <3>3. Total(virtualTime, (tasks \cup {Idle}) \ {Idle}) = Total(virtualTime, tasks)
      BY <2>4
    <3>4. Total(virtualTime, tasks \ {InitTask}) = 0
      BY <2>4, TotalEmpty
    <3> QED BY <2>3, <2>4, <3>1, <3>2, <3>3, <3>4
  <2> QED BY <2>1, <2>2, <2>5 DEF Accounts, NoTickChargedTwice
<1>2. Accounts => NoTickChargedTwice
  BY DEF Accounts
<1> QED
  BY <1>1, <1>2, InitIInv, NextIInv, NextAccounts, PTL DEF Spec
=============================================================================
