----------------------------- MODULE Scheduler -----------------------------
(***************************************************************************)
(* The TEMRIX kernel scheduler: the task table, the virtual-time picker,   *)
(* Wait/Notify, task exit and crash with deferred destruction, the timer   *)
(* tick and the delivery of device interrupts to subscribed tasks          *)
(* (src/src/kernel/scheduler.cpp, interrupts.cpp, Syscall/syscall.cpp).    *)
(*                                                                         *)
(* The kernel runs on one CPU and every handler sits behind an interrupt   *)
(* gate, so a system call, an exception, a tick or a device interrupt is   *)
(* one atomic step; the steps of different tasks interleave freely.        *)
(*                                                                         *)
(* A task is named by the ADDRESS of its Task object.  Destroying a task   *)
(* frees the address and a later spawn may get it back, which is what a    *)
(* pointer kept in g_irqWaiters sees.  m_tasks is kept as a set: addTask   *)
(* appends with an increasing id and reaping preserves the order, so the   *)
(* order of the array is the order of the ids.                             *)
(***************************************************************************)
EXTENDS Integers, FiniteSetsExt

CONSTANTS
    Task,           \* addresses a Task object can be allocated at
    Idle,           \* m_idle: never in m_tasks, has no page table
    NoTask,         \* nullptr: m_current before the first tick
    InitTask,       \* the address of the init process
    Vector,         \* interrupt vectors devices may raise
    MaxTasks,       \* MAX_TASKS
    MaxIrqWaiters,  \* MAX_IRQ_WAITERS
    MaxTicks,       \* bound on g_ticks
    MaxId           \* bound on the ids handed out

ASSUME SchedulerAssumption ==
    /\ Idle \notin Task
    /\ NoTask \notin Task \cup {Idle}
    /\ InitTask \in Task
    /\ MaxTasks \in Nat \ {0}
    /\ MaxIrqWaiters \in Nat
    /\ MaxTicks \in Nat
    /\ MaxId \in Nat \ {0}

VARIABLES
    tasks,          \* m_tasks[0 .. m_count - 1]
    current,        \* m_current
    nextId,         \* m_nextId
    ticks,          \* g_ticks
    state,          \* Task::state, "Free" when no Task object is there
    id,             \* Task::id
    notifyPending,  \* Task::notifyPending
    virtualTime,    \* Task::virtualTime
    schedStart,     \* Task::schedStart
    fpuenv,         \* Task::fpuenv: the id whose registers were saved there
    fpuRegs,        \* the id whose values are in the CPU's FPU registers
    cr3,            \* the id whose page table is loaded, KernelSpace for the kernel's
    irqWaiters      \* g_irqWaiters

taskVars == <<tasks, nextId, id>>
vars == <<tasks, current, nextId, ticks, state, id, notifyPending,
          virtualTime, schedStart, fpuenv, fpuRegs, cr3, irqWaiters>>

Object == Task \cup {Idle}
KernelSpace == 0                \* ids start at 1; idle's id stays 0
Stale == -1                     \* an fpuenv whose owner has since used the FPU

State == {"Free", "Ready", "Running", "Waiting", "Notified", "Dead", "PendingDelete"}
Runnable == {"Ready", "Running", "Notified"}

EmptyWaiter == [used |-> FALSE]
Waiter == {EmptyWaiter} \cup
          [used : {TRUE}, vector : Vector, task : Task, enabled : BOOLEAN]

-----------------------------------------------------------------------------
(* Boot: init is loaded and added, the scheduler is started, m_current is  *)
(* still null until the first tick.                                        *)
Init ==
    /\ tasks = {InitTask}
    /\ current = NoTask
    /\ nextId = 2
    /\ ticks = 0
    /\ state = [t \in Object |-> IF t \in {InitTask, Idle} THEN "Ready" ELSE "Free"]
    /\ id = [t \in Object |-> IF t = InitTask THEN 1 ELSE 0]
    /\ notifyPending = [t \in Object |-> FALSE]
    /\ virtualTime = [t \in Object |-> 0]
    /\ schedStart = [t \in Object |-> 0]
    /\ fpuenv = [t \in Object |-> IF t = InitTask THEN 1 ELSE 0]
    /\ fpuRegs = 0
    /\ cr3 = KernelSpace
    /\ irqWaiters = [i \in 1 .. MaxIrqWaiters |-> EmptyWaiter]

-----------------------------------------------------------------------------
(* What schedule and wakeTask share: charging the task that leaves the CPU *)
(* and switching the FPU context.                                          *)

(* A task on its way out is not charged and its rsp is not saved.          *)
Charged(st, now) ==
    IF current # NoTask /\ st[current] \notin {"PendingDelete", "Dead"}
    THEN [virtualTime EXCEPT ![current] = @ + (now - schedStart[current])]
    ELSE virtualTime

(* Mutant: the outgoing FPU context is not saved. *)
SwitchToNoSave(next, now) ==
    /\ current' = next
    /\ schedStart' = [schedStart EXCEPT ![next] = now]
    /\ fpuenv' = [t \in Object |->
                    IF current # next /\ t = next THEN Stale ELSE fpuenv[t]]
    /\ fpuRegs' = IF current # next THEN fpuenv[next] ELSE fpuRegs

(* Mutant: the slice of the incoming task is not restarted. *)
SwitchToKeepStart(next, now) ==
    /\ current' = next
    /\ schedStart' = schedStart
    /\ fpuenv' = [t \in Object |->
                    IF current # next /\ t = current THEN fpuRegs
                    ELSE IF current # next /\ t = next THEN Stale
                    ELSE fpuenv[t]]
    /\ fpuRegs' = IF current # next THEN fpuenv[next] ELSE fpuRegs

(* Simd::Save of the old context and Simd::Restore of the new one, which   *)
(* the running task then moves away from.                                  *)
SwitchTo(next, now) ==
    /\ current' = next
    /\ schedStart' = [schedStart EXCEPT ![next] = now]
    /\ fpuenv' = [t \in Object |->
                    IF current # next /\ t = current THEN fpuRegs
                    ELSE IF current # next /\ t = next THEN Stale
                    ELSE fpuenv[t]]
    /\ fpuRegs' = IF current # next THEN fpuenv[next] ELSE fpuRegs

(* The array is scanned in id order and a later task must be strictly      *)
(* behind in virtual time to displace an earlier one.                      *)
Before(vt, s, t) == \/ vt[s] < vt[t]
                    \/ vt[s] = vt[t] /\ id[s] < id[t]

IsPick(next, ready, vt) ==
    IF ready = {} THEN next = Idle
    ELSE next \in ready /\ \A s \in ready : ~Before(vt, s, next)

(* The handlers that end in schedule differ in the CR3 they leave when the *)
(* picked task has no page table: timer and fault handlers keep the old    *)
(* one, the system calls load the kernel's.                                *)
LoadCr3(next, otherwise) ==
    cr3' = IF next = Idle THEN otherwise ELSE id[next]

(* Scheduler::schedule, entered with task states st at time now: reap the  *)
(* dead, charge the current task, pick, switch, and mark the old task Dead *)
(* if it was on its way out.                                               *)
Schedule(st, now, otherwise) ==
    LET dead  == {t \in tasks : st[t] = "Dead"}
        left  == tasks \ dead
        ready == {t \in left : st[t] \in Runnable}
        vt    == Charged(st, now)
    IN \E next \in left \cup {Idle} :
         /\ IsPick(next, ready, vt)
         /\ tasks' = left
         /\ virtualTime' = vt
         /\ state' = [t \in Object |->
                        IF t = next THEN "Running"
                        ELSE IF t \in dead THEN "Free"
                        ELSE IF t = current /\ st[t] = "PendingDelete" THEN "Dead"
                        ELSE st[t]]
         /\ SwitchTo(next, now)
         /\ LoadCr3(next, otherwise)

-----------------------------------------------------------------------------
(* apTimerHandler: the only source of ticks once the PIT is masked.        *)
Timer ==
    /\ ticks < MaxTicks
    /\ ticks' = ticks + 1
    /\ Schedule(state, ticks + 1, cr3)
    /\ UNCHANGED <<nextId, id, notifyPending, irqWaiters>>

(* System calls are made by the user task that is on the CPU. *)
InSyscall == current \in tasks

syscallYield ==
    /\ InSyscall
    /\ Schedule(state, ticks, KernelSpace)
    /\ UNCHANGED <<ticks, nextId, id, notifyPending, irqWaiters>>

syscallExit ==
    /\ InSyscall
    /\ Schedule([state EXCEPT ![current] = "PendingDelete"], ticks, KernelSpace)
    /\ UNCHANGED <<ticks, nextId, id, notifyPending, irqWaiters>>

(* pagefault_handler and the named exception handlers, for a fault taken   *)
(* by a task: the same as exit but for the CR3 left when idle is next.     *)
Fault ==
    /\ InSyscall
    /\ Schedule([state EXCEPT ![current] = "PendingDelete"], ticks, cr3)
    /\ UNCHANGED <<ticks, nextId, id, notifyPending, irqWaiters>>

syscallWaitPending ==
    /\ InSyscall
    /\ notifyPending[current]
    /\ notifyPending' = [notifyPending EXCEPT ![current] = FALSE]
    /\ UNCHANGED <<tasks, current, nextId, ticks, state, id, virtualTime,
                   schedStart, fpuenv, fpuRegs, cr3, irqWaiters>>

(* Mutant: Wait sleeps without looking at notifyPending. *)
syscallWaitBlind ==
    /\ InSyscall
    /\ Schedule([state EXCEPT ![current] = "Waiting"], ticks, KernelSpace)
    /\ UNCHANGED <<ticks, nextId, id, notifyPending, irqWaiters>>

syscallWaitBlock ==
    /\ InSyscall
    /\ ~notifyPending[current]
    /\ Schedule([state EXCEPT ![current] = "Waiting"], ticks, KernelSpace)
    /\ UNCHANGED <<ticks, nextId, id, notifyPending, irqWaiters>>

syscallWait == syscallWaitPending \/ syscallWaitBlock

(* Mutants: the woken task keeps its state; the caller's page table stays. *)
wakeTaskKeepState(t) ==
    /\ virtualTime' = Charged(state, ticks)
    /\ state' = state
    /\ SwitchTo(t, ticks)
    /\ LoadCr3(t, KernelSpace)

wakeTaskKeepCr3(t) ==
    /\ virtualTime' = Charged(state, ticks)
    /\ state' = [state EXCEPT ![t] = "Running"]
    /\ SwitchTo(t, ticks)
    /\ cr3' = cr3

(* Scheduler::wakeTask: switch straight to t, the caller stays Running.    *)
wakeTask(t) ==
    /\ virtualTime' = Charged(state, ticks)
    /\ state' = [state EXCEPT ![t] = "Running"]
    /\ SwitchTo(t, ticks)
    /\ LoadCr3(t, KernelSpace)

(* Mutant: a task that is not waiting is marked Notified, dead or not. *)
syscallNotifyAny(t) ==
    /\ InSyscall
    /\ t \in tasks \ {current}
    /\ IF state[t] = "Waiting"
       THEN wakeTask(t) /\ UNCHANGED notifyPending
       ELSE /\ state' = [state EXCEPT ![t] = "Notified"]
            /\ LoadCr3(current, KernelSpace)
            /\ UNCHANGED <<current, notifyPending, virtualTime, schedStart, fpuenv, fpuRegs>>
    /\ UNCHANGED <<tasks, ticks, nextId, id, irqWaiters>>

(* Scheduler::notifyTask with an id that resolves: an unknown id, the      *)
(* caller's own and a dead task's are refused without effect.              *)
syscallNotify(t) ==
    /\ InSyscall
    /\ t \in tasks \ {current}
    /\ state[t] # "Dead"
    /\ IF state[t] = "Waiting"
       THEN wakeTask(t) /\ UNCHANGED notifyPending
       ELSE /\ notifyPending' = [notifyPending EXCEPT ![t] = TRUE]
            /\ LoadCr3(current, KernelSpace)
            /\ UNCHANGED <<current, state, virtualTime, schedStart, fpuenv, fpuRegs>>
    /\ UNCHANGED <<tasks, ticks, nextId, id, irqWaiters>>

(* The part of syscallSpawn and Task::createUserShell that the scheduler   *)
(* sees: a fresh Task object, added with the next id.                      *)
syscallSpawn(t) ==
    /\ InSyscall
    /\ t \in Task /\ state[t] = "Free"
    /\ Cardinality(tasks) < MaxTasks
    /\ nextId <= MaxId
    /\ tasks' = tasks \cup {t}
    /\ nextId' = nextId + 1
    /\ id' = [id EXCEPT ![t] = nextId]
    /\ state' = [state EXCEPT ![t] = "Ready"]
    /\ notifyPending' = [notifyPending EXCEPT ![t] = FALSE]
    /\ virtualTime' = [virtualTime EXCEPT ![t] = 0]
    /\ schedStart' = [schedStart EXCEPT ![t] = 0]
    /\ fpuenv' = [fpuenv EXCEPT ![t] = nextId]
    /\ UNCHANGED <<current, ticks, fpuRegs, cr3, irqWaiters>>

(* syscallSubscribeIrq: re-arm the caller's own entry, else take the first *)
(* unused one.  Entries are never given back.                              *)
OwnEntry(i, v) == /\ irqWaiters[i].used
                  /\ irqWaiters[i].task = current
                  /\ irqWaiters[i].vector = v

SubscribeSlot(i, v) ==
    IF \E j \in 1 .. MaxIrqWaiters : OwnEntry(j, v)
    THEN OwnEntry(i, v) /\ \A j \in 1 .. (i - 1) : ~OwnEntry(j, v)
    ELSE ~irqWaiters[i].used /\ \A j \in 1 .. (i - 1) : irqWaiters[j].used

syscallSubscribeIrq(v) ==
    /\ InSyscall
    /\ \E i \in 1 .. MaxIrqWaiters :
         /\ SubscribeSlot(i, v)
         /\ irqWaiters' = [irqWaiters EXCEPT ![i] =
              [used |-> TRUE, vector |-> v, task |-> current, enabled |-> TRUE]]
    /\ UNCHANGED <<tasks, current, nextId, ticks, state, id, notifyPending,
                   virtualTime, schedStart, fpuenv, fpuRegs, cr3>>

(* irqDispatch: the first armed entry of the vector is disarmed and its    *)
(* task made runnable.  The entry may name an address whose Task is gone:  *)
(* the write then lands in memory no task owns.                            *)
Armed(i, v) == /\ irqWaiters[i].used
               /\ irqWaiters[i].enabled
               /\ irqWaiters[i].vector = v

IrqState(s) == IF s = "Free" THEN "Free"
               ELSE IF s = "Waiting" THEN "Ready" ELSE "Notified"

irqDispatch(v) ==
    /\ \E i \in 1 .. MaxIrqWaiters :
         /\ Armed(i, v) /\ \A j \in 1 .. (i - 1) : ~Armed(j, v)
         /\ irqWaiters' = [irqWaiters EXCEPT ![i].enabled = FALSE]
         /\ state' = [state EXCEPT ![irqWaiters[i].task] = IrqState(@)]
    /\ UNCHANGED <<tasks, current, nextId, ticks, id, notifyPending,
                   virtualTime, schedStart, fpuenv, fpuRegs, cr3>>

-----------------------------------------------------------------------------
Next ==
    \/ Timer
    \/ syscallYield \/ syscallExit \/ Fault
    \/ syscallWait
    \/ \E t \in Task : syscallNotify(t) \/ syscallSpawn(t)
    \/ \E v \in Vector : syscallSubscribeIrq(v) \/ irqDispatch(v)

Spec == Init /\ [][Next]_vars

-----------------------------------------------------------------------------
(* Properties *)

(* Type correctness of the scheduler's state. *)
TypeOK ==
    /\ tasks \subseteq Task
    /\ current \in Object \cup {NoTask}
    /\ nextId \in Nat
    /\ ticks \in Nat
    /\ state \in [Object -> State]
    /\ id \in [Object -> Nat]
    /\ notifyPending \in [Object -> BOOLEAN]
    /\ virtualTime \in [Object -> Nat]
    /\ schedStart \in [Object -> Nat]
    /\ fpuenv \in [Object -> Nat \cup {Stale}]
    /\ fpuRegs \in Nat \cup {Stale}
    /\ cr3 \in Nat
    /\ irqWaiters \in [1 .. MaxIrqWaiters -> Waiter]

(* The task on the CPU is never one that schedule has destroyed or will    *)
(* destroy at its next entry, whatever exits, crashes, notifications and   *)
(* interrupts came before: m_current is idle or in m_tasks, and marked as  *)
(* running (or Notified, when an interrupt hit it while it ran).           *)
CurrentAlive ==
    current # NoTask =>
        /\ current \in tasks \cup {Idle}
        /\ state[current] \in {"Running", "Notified"}

(* Destruction is deferred to the schedule after the one that switched     *)
(* away, and never further: at most one task is a corpse, it is in the     *)
(* table, and nothing is left half-way (PendingDelete) between handlers.   *)
OneCorpse ==
    /\ \A s, t \in tasks : state[s] = "Dead" /\ state[t] = "Dead" => s = t
    /\ \A t \in Task : /\ state[t] # "PendingDelete"
                       /\ state[t] = "Free" <=> t \notin tasks

(* Notify cannot be lost between a task's check of notifyPending and its   *)
(* sleep: a task that waits has no notification outstanding.               *)
NoLostNotify ==
    \A t \in tasks : state[t] = "Waiting" => ~notifyPending[t]

(* Pids name one task each, so notifyTask and getTask, which stop at the   *)
(* first match, reach the task the caller means even after addresses have  *)
(* been reused.                                                            *)
UniqueIds ==
    /\ \A s, t \in tasks : id[s] = id[t] => s = t
    /\ \A t \in tasks : id[t] > 0 /\ id[t] < nextId

(* Over schedule and wakeTask, whose save and restore conditions differ,   *)
(* no task ever computes with another's FPU registers: the CPU holds the   *)
(* current task's, and every other task's are in its own fpuenv.           *)
FpuIsolated ==
    current # NoTask =>
        /\ fpuRegs = id[current]
        /\ \A t \in (tasks \cup {Idle}) \ {current} : fpuenv[t] = id[t]

(* A user task runs on its own page table.  Idle borrows whatever is       *)
(* loaded, and that table is either alive or was lost with the task while  *)
(* idle held the CPU: no user task ever runs on a destroyed table.         *)
OwnAddressSpace ==
    /\ current \in tasks => cr3 = id[current]
    /\ current = NoTask => cr3 = KernelSpace
    /\ cr3 # KernelSpace /\ (\A t \in tasks : id[t] # cr3) => current = Idle

(* The sum of f over the set S. *)
Total(f, S) == MapThenSumSet(LAMBDA t : f[t], S)

(* No tick is charged twice: the virtual time of the live tasks and idle,  *)
(* with the slice the current task has open, never exceeds the ticks that  *)
(* have passed.  (An exiting task's last slice is not charged at all.)     *)
NoTickChargedTwice ==
    Total(virtualTime, tasks \cup {Idle})
      + (IF current = NoTask THEN 0 ELSE ticks - schedStart[current]) <= ticks

(* The scheduler implements what programs rely on of Wait and Notify,      *)
(* whatever switches, ticks, crashes and interrupts it adds: a task that   *)
(* is notified runs again, and only Wait, by its owner, puts a task to     *)
(* sleep or consumes a notification.                                       *)
Alive == {t \in tasks : state[t] # "Dead"}
Primitive == INSTANCE WaitNotify WITH
                Process <- Task,
                alive   <- Alive,
                asleep  <- {t \in tasks : state[t] = "Waiting"},
                pending <- {t \in Alive : notifyPending[t]}
ImplementsWaitNotify == Primitive!WaitNotifySpec

(* An exited or crashed task never runs again, with one exception the code *)
(* has: a device interrupt it had armed arrives before it is reaped.       *)
DeadStaysDead ==
    [][\A t \in tasks :
         state[t] = "Dead" /\ state'[t] \notin {"Dead", "Free"} =>
            \E i \in 1 .. MaxIrqWaiters :
                /\ irqWaiters[i].used /\ irqWaiters[i].enabled
                /\ irqWaiters[i].task = t /\ ~irqWaiters'[i].enabled]_vars
=============================================================================
