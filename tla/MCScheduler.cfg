SPECIFICATION Spec
CONSTANTS
    Task = {t1, t2, t3}
    Idle = Idle
    NoTask = NoTask
    InitTask = t1
    Vector = {v1}
    MaxTasks = 2
    MaxIrqWaiters = 2
    MaxTicks = 2
    MaxId = 4
INVARIANTS CurrentAlive NoLostNotify FpuIsolated OwnAddressSpace NoTickChargedTwice
PROPERTIES DeadStaysDead ImplementsWaitNotify
CHECK_DEADLOCK FALSE
