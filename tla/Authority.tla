----------------------------- MODULE Authority -----------------------------
(***************************************************************************)
(* Who may do what: capabilities and device grants, handed down by spawn   *)
(* and handed on by the grant system calls                                 *)
(* (src/src/kernel/Syscall/syscall.cpp, src/src/kernel/capability.hpp),    *)
(* and the BAR mappings made under them.                                   *)
(***************************************************************************)
EXTENDS Naturals, Sequences

CONSTANTS
    Task,               \* tasks, each with its own pid
    InitTask,           \* the first program, started by the kernel
    Cap, CAP_GRANT,     \* capability bits, and the one that permits granting
    Device, Class,      \* PCI devices and their class codes
    ClassOf,            \* KernelDevice::classCode
    NoDevice,           \* a device index outside the table
    MAX_DEVICE_GRANTS

ASSUME AuthorityAssumption ==
    /\ InitTask \in Task /\ CAP_GRANT \in Cap
    /\ ClassOf \in [Device -> Class] /\ NoDevice \notin Device
    /\ MAX_DEVICE_GRANTS \in Nat \ {0}

VARIABLES
    tasks,          \* the scheduler's table
    capabilities,   \* Task::capabilities
    deviceGrants,   \* Task::deviceGrants, the used entries in order
    bars            \* <<t, d>>: task t has mapped a BAR of device d

vars == <<tasks, capabilities, deviceGrants, bars>>

SpecificDevice(d) == [kind |-> "SpecificDevice", param |-> d]
ClassWildcard(c)  == [kind |-> "ClassWildcard", param |-> c]
AnyDevice         == [kind |-> "AnyDevice", param |-> NoDevice]

Grant == {SpecificDevice(d) : d \in Device \cup {NoDevice}}
            \cup {ClassWildcard(c) : c \in Class} \cup {AnyDevice}

Holds(t, g) == \E i \in DOMAIN deviceGrants[t] : deviceGrants[t][i] = g

taskCanMapDevice(t, d) ==
    Holds(t, AnyDevice) \/ Holds(t, ClassWildcard(ClassOf[d])) \/ Holds(t, SpecificDevice(d))

granterCoversGrant(t, g) ==
    \/ Holds(t, AnyDevice)
    \/ Holds(t, g)
    \/ /\ g.kind = "SpecificDevice" /\ g.param \in Device
       /\ Holds(t, ClassWildcard(ClassOf[g.param]))

-----------------------------------------------------------------------------
Init ==
    /\ tasks = {InitTask}
    /\ capabilities = [t \in Task |-> IF t = InitTask THEN Cap ELSE {}]
    /\ deviceGrants = [t \in Task |-> IF t = InitTask THEN <<AnyDevice>> ELSE <<>>]
    /\ bars = {}

(* A child gets what was asked for and its parent holds; it starts with no *)
(* grant, or with the one asked for if the parent covers it.  A grant that *)
(* is not covered fails the spawn.                                         *)
syscallSpawn(caller, child, requested, wanted) ==
    /\ caller \in tasks /\ child \notin tasks
    /\ \A i \in DOMAIN wanted : granterCoversGrant(caller, wanted[i])
    /\ tasks' = tasks \cup {child}
    /\ capabilities' = [capabilities EXCEPT ![child] = requested \cap capabilities[caller]]
    /\ deviceGrants' = [deviceGrants EXCEPT ![child] = wanted]
    /\ UNCHANGED bars

(* Mutant: the mask is not compared with what the caller holds. *)
MayPassOnAny(caller, mask) == CAP_GRANT \in capabilities[caller]

MayPassOn(caller, mask) ==
    CAP_GRANT \in capabilities[caller] /\ mask \subseteq capabilities[caller]

syscallGrantCapability(caller, target, mask) ==
    /\ {caller, target} \subseteq tasks
    /\ MayPassOn(caller, mask)
    /\ capabilities' = [capabilities EXCEPT ![target] = @ \cup mask]
    /\ UNCHANGED <<tasks, deviceGrants, bars>>

syscallRevokeCapability(caller, target, mask) ==
    /\ {caller, target} \subseteq tasks
    /\ MayPassOn(caller, mask)
    /\ capabilities' = [capabilities EXCEPT ![target] = @ \ mask]
    /\ UNCHANGED <<tasks, deviceGrants, bars>>

(* The grant takes the first free entry; a full table refuses it.          *)
syscallGrantDeviceAccess(caller, target, g) ==
    /\ {caller, target} \subseteq tasks
    /\ CAP_GRANT \in capabilities[caller]
    /\ granterCoversGrant(caller, g)
    /\ Len(deviceGrants[target]) < MAX_DEVICE_GRANTS
    /\ deviceGrants' = [deviceGrants EXCEPT ![target] = Append(@, g)]
    /\ UNCHANGED <<tasks, capabilities, bars>>

syscallMapBar(t, d) ==
    /\ t \in tasks
    /\ taskCanMapDevice(t, d)
    /\ bars' = bars \cup {<<t, d>>}
    /\ UNCHANGED <<tasks, capabilities, deviceGrants>>

syscallUnmapBar(t, d) ==
    /\ <<t, d>> \in bars
    /\ bars' = bars \ {<<t, d>>}
    /\ UNCHANGED <<tasks, capabilities, deviceGrants>>

(* Mutant: a task object that is used again keeps its grants. *)
ForgetNothing(t) == UNCHANGED <<capabilities, deviceGrants, bars>>

Forget(t) ==
    /\ capabilities' = [capabilities EXCEPT ![t] = {}]
    /\ deviceGrants' = [deviceGrants EXCEPT ![t] = <<>>]
    /\ bars' = {b \in bars : b[1] # t}

Exit(t) ==
    /\ t \in tasks
    /\ tasks' = tasks \ {t}
    /\ Forget(t)

(* The system calls of one task.                                           *)
Step(caller) ==
    \/ \E t \in Task, mask \in SUBSET Cap :
         \/ \E wanted \in {<<>>} \cup {<<g>> : g \in Grant} : syscallSpawn(caller, t, mask, wanted)
         \/ syscallGrantCapability(caller, t, mask)
         \/ syscallRevokeCapability(caller, t, mask)
    \/ \E t \in Task, g \in Grant : syscallGrantDeviceAccess(caller, t, g)
    \/ \E d \in Device : syscallMapBar(caller, d) \/ syscallUnmapBar(caller, d)
    \/ Exit(caller)

Next == \E caller \in Task : Step(caller)

Spec == Init /\ [][Next]_vars

-----------------------------------------------------------------------------
(* Properties *)

(* Type correctness. *)
TypeOK ==
    /\ tasks \subseteq Task
    /\ capabilities \in [Task -> SUBSET Cap]
    /\ deviceGrants \in [Task -> Seq(Grant)]
    /\ \A t \in Task : Len(deviceGrants[t]) <= MAX_DEVICE_GRANTS
    /\ bars \subseteq tasks \X Device

Reach(t) == {d \in Device : taskCanMapDevice(t, d)}

Within(c) ==
    \A t \in Task :
      /\ capabilities'[t] \ capabilities[t] \subseteq capabilities[c]
      /\ Reach(t)' \ Reach(t) \subseteq Reach(c)
      /\ CAP_GRANT \notin capabilities[c] /\ t \in tasks \ {c} =>
           UNCHANGED <<capabilities[t], deviceGrants[t]>>

(* Nothing is created out of nothing: what any task gains by a call, of    *)
(* capabilities and of devices, the caller held before it; and without     *)
(* CAP_GRANT a task changes nobody but itself and the child it spawns.     *)
NoAmplification == [][\A c \in Task : Within(c) \/ ~Step(c)]_vars

(* A task maps only devices it has been granted, also when its entry in    *)
(* the table belonged to another task before.                              *)
MappedIsGranted == \A b \in bars : b[1] \in tasks /\ b[2] \in Reach(b[1])
=============================================================================
