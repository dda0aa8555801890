-------------------------- MODULE AuthorityProofs --------------------------
(***************************************************************************)
(* Proofs about Authority, for any number of tasks, devices, classes and   *)
(* grants per task.                                                        *)
(***************************************************************************)
EXTENDS Authority, TLAPS

(* What the grant g lets its holder map.                                   *)
Opens(g, d) == g \in {AnyDevice, ClassWildcard(ClassOf[d]), SpecificDevice(d)}

(* A grant that is covered opens no device its granter cannot map          *)
(* (granterCoversGrant against taskCanMapDevice).                          *)
LEMMA CoveredIsReached ==
    ASSUME NEW c \in Task, NEW g \in Grant, NEW d \in Device,
           granterCoversGrant(c, g), Opens(g, d)
    PROVE  taskCanMapDevice(c, d)
<1>1. CASE g = AnyDevice
  <2>1. ~(g.kind = "SpecificDevice")
    BY <1>1 DEF AnyDevice
  <2> QED
    BY <1>1, <2>1 DEF granterCoversGrant, taskCanMapDevice
<1>2. CASE g = ClassWildcard(ClassOf[d])
  <2>1. ~(g.kind = "SpecificDevice")
    BY <1>2 DEF ClassWildcard
  <2> QED
    BY <1>2, <2>1 DEF granterCoversGrant, taskCanMapDevice
<1>3. CASE g = SpecificDevice(d)
  <2>1. g.param = d
    BY <1>3 DEF SpecificDevice
  <2> QED
    BY <1>3, <2>1 DEF granterCoversGrant, taskCanMapDevice
<1> QED
  BY <1>1, <1>2, <1>3 DEF Opens

(* A task maps exactly the devices its grants open.                        *)
LEMMA ReachByGrant ==
    ASSUME NEW t \in Task, NEW d \in Device
    PROVE  taskCanMapDevice(t, d) <=> \E g : Holds(t, g) /\ Opens(g, d)
BY DEF taskCanMapDevice, Opens

(* The same of the next state.                                             *)
LEMMA ReachByGrantNext ==
    ASSUME NEW t \in Task, NEW d \in Device
    PROVE  taskCanMapDevice(t, d)' <=> \E g : Holds(t, g)' /\ Opens(g, d)
BY DEF taskCanMapDevice, Opens

(* syscallGrantDeviceAccess adds one grant to one task (addDeviceGrant).   *)
LEMMA GrantAdds ==
    ASSUME TypeOK, NEW c \in Task, NEW x \in Task, NEW g \in Grant,
           syscallGrantDeviceAccess(c, x, g), NEW t \in Task, NEW h
    PROVE  Holds(t, h)' <=> Holds(t, h) \/ (t = x /\ h = g)
<1>1. deviceGrants' = [deviceGrants EXCEPT ![x] = Append(deviceGrants[x], g)]
  BY DEF syscallGrantDeviceAccess
<1>2. deviceGrants[t] \in Seq(Grant) /\ deviceGrants \in [Task -> Seq(Grant)]
  BY DEF TypeOK
<1>3. CASE t # x
  BY <1>1, <1>2, <1>3 DEF Holds
<1>4. CASE t = x
  <2>1. deviceGrants'[t] = Append(deviceGrants[t], g)
    BY <1>1, <1>2, <1>4
  <2>2. DOMAIN deviceGrants'[t] = 1 .. (Len(deviceGrants[t]) + 1)
    BY <1>2, <2>1
  <2>3. DOMAIN deviceGrants[t] = 1 .. Len(deviceGrants[t]) /\ Len(deviceGrants[t]) \in Nat
    BY <1>2
  <2>4. \A i \in DOMAIN deviceGrants[t] : deviceGrants'[t][i] = deviceGrants[t][i]
    BY <1>2, <2>1, <2>3
  <2>5. deviceGrants'[t][Len(deviceGrants[t]) + 1] = g
    BY <1>2, <2>1
  <2> QED
    BY <1>4, <2>2, <2>3, <2>4, <2>5 DEF Holds
<1> QED
  BY <1>3, <1>4

(* A child holds the grant it was given and the others keep theirs.        *)
LEMMA SpawnGives ==
    ASSUME TypeOK, NEW c \in Task, NEW child \in Task, NEW mask \in SUBSET Cap,
           NEW wanted \in {<<>>} \cup {<<g>> : g \in Grant},
           syscallSpawn(c, child, mask, wanted), NEW t \in Task, NEW h
    PROVE  Holds(t, h)' <=> IF t = child THEN \E i \in DOMAIN wanted : wanted[i] = h
                                         ELSE Holds(t, h)
<1>1. deviceGrants' = [deviceGrants EXCEPT ![child] = wanted]
  BY DEF syscallSpawn
<1>2. deviceGrants \in [Task -> Seq(Grant)]
  BY DEF TypeOK
<1> QED
  BY <1>1, <1>2 DEF Holds

(***************************************************************************)
(* Type correctness                                                        *)
(***************************************************************************)

(* The tables of the tasks never overflow and a dead task has no BAR.      *)
THEOREM TypeCorrect == Spec => []TypeOK
<1>1. Init => TypeOK
  <2> SUFFICES ASSUME Init PROVE TypeOK
    OBVIOUS
  <2> USE AuthorityAssumption
  <2>1. AnyDevice \in Grant
    BY DEF Grant
  <2>2. deviceGrants \in [Task -> Seq(Grant)]
    BY <2>1 DEF Init
  <2>3. \A t \in Task : Len(deviceGrants[t]) <= MAX_DEVICE_GRANTS
    <3> SUFFICES ASSUME NEW t \in Task PROVE Len(deviceGrants[t]) <= MAX_DEVICE_GRANTS
      OBVIOUS
    <3>1. CASE t = InitTask
      <4>1. deviceGrants[t] = <<AnyDevice>>
        BY <3>1 DEF Init
      <4>2. \A g : Len(<<g>>) = 1
        OBVIOUS
      <4> QED
        BY <4>1, <4>2 DEF AuthorityAssumption
    <3>2. CASE t # InitTask
      <4>1. deviceGrants[t] = << >>
        BY <3>2 DEF Init
      <4> QED
        BY <4>1 DEF AuthorityAssumption
    <3> QED
      BY <3>1, <3>2
  <2> QED
    BY <2>2, <2>3 DEF Init, TypeOK
<1>2. TypeOK /\ [Next]_vars => TypeOK'
  <2> SUFFICES ASSUME TypeOK, [Next]_vars PROVE TypeOK'
    OBVIOUS
  <2> USE AuthorityAssumption
  <2>1. CASE UNCHANGED vars
    BY <2>1 DEF TypeOK, vars
  <2>2. ASSUME NEW c \in Task, NEW t \in Task, NEW mask \in SUBSET Cap,
               NEW wanted \in {<<>>} \cup {<<g>> : g \in Grant},
               syscallSpawn(c, t, mask, wanted)
        PROVE  TypeOK'
    <3>1. wanted \in Seq(Grant) /\ Len(wanted) <= MAX_DEVICE_GRANTS
      <4>1. CASE wanted = << >>
        BY <4>1 DEF AuthorityAssumption
      <4>2. CASE \E g \in Grant : wanted = <<g>>
        BY <4>2 DEF AuthorityAssumption
      <4> QED
        BY <4>1, <4>2
    <3>2. deviceGrants' \in [Task -> Seq(Grant)]
      BY <2>2, <3>1 DEF TypeOK, syscallSpawn
    <3>3. \A u \in Task : Len(deviceGrants'[u]) <= MAX_DEVICE_GRANTS
      BY <2>2, <3>1 DEF TypeOK, syscallSpawn
    <3> QED
      BY <2>2, <3>2, <3>3 DEF TypeOK, syscallSpawn
  <2>3. ASSUME NEW c \in Task, NEW t \in Task, NEW mask \in SUBSET Cap,
               syscallGrantCapability(c, t, mask) \/ syscallRevokeCapability(c, t, mask)
        PROVE  TypeOK'
    BY <2>3 DEF TypeOK, syscallGrantCapability, syscallRevokeCapability
  <2>4. ASSUME NEW c \in Task, NEW t \in Task, NEW g \in Grant,
               syscallGrantDeviceAccess(c, t, g)
        PROVE  TypeOK'
    <3>1. deviceGrants' \in [Task -> Seq(Grant)]
      BY <2>4 DEF TypeOK, syscallGrantDeviceAccess
    <3>2. \A u \in Task : Len(deviceGrants'[u]) <= MAX_DEVICE_GRANTS
      BY <2>4 DEF TypeOK, syscallGrantDeviceAccess
    <3> QED
      BY <2>4, <3>1, <3>2 DEF TypeOK, syscallGrantDeviceAccess
  <2>5. ASSUME NEW c \in Task, NEW d \in Device,
               syscallMapBar(c, d) \/ syscallUnmapBar(c, d)
        PROVE  TypeOK'
    BY <2>5 DEF TypeOK, syscallMapBar, syscallUnmapBar
  <2>6. ASSUME NEW c \in Task, Exit(c)
        PROVE  TypeOK'
    <3>1. deviceGrants' \in [Task -> Seq(Grant)]
      BY <2>6 DEF TypeOK, Exit, Forget
    <3>2. \A u \in Task : Len(deviceGrants'[u]) <= MAX_DEVICE_GRANTS
      BY <2>6 DEF TypeOK, Exit, Forget
    <3> QED
      BY <2>6, <3>1, <3>2 DEF TypeOK, Exit, Forget
  <2> QED
    BY <2>1, <2>2, <2>3, <2>4, <2>5, <2>6 DEF Next, Step
<1> QED
  BY <1>1, <1>2, PTL DEF Spec

(***************************************************************************)
(* BAR mappings                                                            *)
(***************************************************************************)

(* Reach by the grants of the next state, in the form the steps below use. *)
LEMMA ReachKept ==
    ASSUME NEW t \in Task, \A h : Holds(t, h) => Holds(t, h)', NEW d \in Reach(t)
    PROVE  d \in Reach(t)'
BY ReachByGrant, ReachByGrantNext DEF Reach

(* Whatever tasks do, every BAR mapping belongs to a task that has been    *)
(* granted the device in this life (syscallMapBar, Task::destroy).         *)
THEOREM MappingsAreGranted == Spec => []MappedIsGranted
<1>1. Init => MappedIsGranted
  BY DEF Init, MappedIsGranted
<1>2. TypeOK /\ MappedIsGranted /\ [Next]_vars => MappedIsGranted'
  <2> SUFFICES ASSUME TypeOK, MappedIsGranted, [Next]_vars, NEW b \in bars'
               PROVE  b[1] \in tasks' /\ b[2] \in Reach(b[1])'
    BY DEF MappedIsGranted
  <2> USE AuthorityAssumption
  <2>0. \A x \in bars : x[1] \in tasks /\ x[1] \in Task /\ x[2] \in Device /\ x[2] \in Reach(x[1])
    BY DEF MappedIsGranted, TypeOK
  <2>1. CASE UNCHANGED vars
    BY <2>0, <2>1 DEF vars, Reach, taskCanMapDevice, Holds
  <2>2. ASSUME NEW c \in Task, NEW t \in Task, NEW mask \in SUBSET Cap,
               NEW wanted \in {<<>>} \cup {<<g>> : g \in Grant},
               syscallSpawn(c, t, mask, wanted)
        PROVE  b[1] \in tasks' /\ b[2] \in Reach(b[1])'
    <3>1. b \in bars /\ b[1] # t /\ b[1] \in tasks'
      BY <2>0, <2>2 DEF syscallSpawn
    <3>2. \A h : Holds(b[1], h) => Holds(b[1], h)'
      BY <2>0, <2>2, <3>1, SpawnGives
    <3> QED
      BY <2>0, <3>1, <3>2, ReachKept
  <2>3. ASSUME NEW c \in Task, NEW t \in Task, NEW mask \in SUBSET Cap,
               syscallGrantCapability(c, t, mask) \/ syscallRevokeCapability(c, t, mask)
        PROVE  b[1] \in tasks' /\ b[2] \in Reach(b[1])'
    BY <2>0, <2>3 DEF syscallGrantCapability, syscallRevokeCapability, Reach,
                      taskCanMapDevice, Holds
  <2>4. ASSUME NEW c \in Task, NEW t \in Task, NEW g \in Grant,
               syscallGrantDeviceAccess(c, t, g)
        PROVE  b[1] \in tasks' /\ b[2] \in Reach(b[1])'
    <3>1. b \in bars /\ b[1] \in tasks'
      BY <2>0, <2>4 DEF syscallGrantDeviceAccess
    <3>2. \A h : Holds(b[1], h) => Holds(b[1], h)'
      BY <2>0, <2>4, <3>1, GrantAdds
    <3> QED
      BY <2>0, <3>1, <3>2, ReachKept
  <2>5. ASSUME NEW c \in Task, NEW d \in Device, syscallMapBar(c, d)
        PROVE  b[1] \in tasks' /\ b[2] \in Reach(b[1])'
    <3>1. b[1] \in tasks /\ b[2] \in Reach(b[1])
      BY <2>0, <2>5 DEF syscallMapBar, Reach
    <3> QED
      BY <2>5, <3>1 DEF syscallMapBar, Reach, taskCanMapDevice, Holds
  <2>6. ASSUME NEW c \in Task, NEW d \in Device, syscallUnmapBar(c, d)
        PROVE  b[1] \in tasks' /\ b[2] \in Reach(b[1])'
    BY <2>0, <2>6 DEF syscallUnmapBar, Reach, taskCanMapDevice, Holds
  <2>7. ASSUME NEW c \in Task, Exit(c)
        PROVE  b[1] \in tasks' /\ b[2] \in Reach(b[1])'
    <3>1. b \in bars /\ b[1] # c
      BY <2>7 DEF Exit, Forget
    <3>2. deviceGrants'[b[1]] = deviceGrants[b[1]] /\ b[1] \in tasks'
      BY <2>0, <2>7, <3>1 DEF Exit, Forget, TypeOK
    <3>3. \A h : Holds(b[1], h) => Holds(b[1], h)'
      BY <3>2 DEF Holds
    <3> QED
      BY <2>0, <3>1, <3>2, <3>3, ReachKept
  <2> QED
    BY <2>1, <2>2, <2>3, <2>4, <2>5, <2>6, <2>7 DEF Next, Step
<1> QED
  BY <1>1, <1>2, TypeCorrect, PTL DEF Spec

(***************************************************************************)
(* No amplification                                                        *)
(***************************************************************************)

(* A step in which nobody gains a grant.                                   *)
LEMMA NoNewReach ==
    ASSUME NEW t \in Task, \A h : Holds(t, h)' => Holds(t, h)
    PROVE  Reach(t)' \ Reach(t) = {}
BY ReachByGrant, ReachByGrantNext DEF Reach

(* Every system call of c leaves the gains of all tasks within what c had. *)
LEMMA StepStaysWithin ==
    ASSUME TypeOK, NEW c \in Task, Step(c)
    PROVE  Within(c)
<1> SUFFICES ASSUME NEW t \in Task
             PROVE  /\ capabilities'[t] \ capabilities[t] \subseteq capabilities[c]
                    /\ Reach(t)' \ Reach(t) \subseteq Reach(c)
                    /\ CAP_GRANT \notin capabilities[c] /\ t \in tasks \ {c} =>
                         capabilities'[t] = capabilities[t] /\ deviceGrants'[t] = deviceGrants[t]
  BY DEF Within
<1> USE AuthorityAssumption
<1> DEFINE Goal == /\ capabilities'[t] \ capabilities[t] \subseteq capabilities[c]
                   /\ Reach(t)' \ Reach(t) \subseteq Reach(c)
                   /\ CAP_GRANT \notin capabilities[c] /\ t \in tasks \ {c} =>
                        capabilities'[t] = capabilities[t] /\ deviceGrants'[t] = deviceGrants[t]
<1>1. ASSUME NEW x \in Task, NEW mask \in SUBSET Cap,
             NEW wanted \in {<<>>} \cup {<<g>> : g \in Grant},
             syscallSpawn(c, x, mask, wanted)
      PROVE  Goal
  <2>1. capabilities'[t] \ capabilities[t] \subseteq capabilities[c]
    BY <1>1 DEF syscallSpawn, TypeOK
  <2>2. Reach(t)' \ Reach(t) \subseteq Reach(c)
    <3>1. CASE t # x
      <4>1. \A h : Holds(t, h)' => Holds(t, h)
        BY <1>1, <3>1, SpawnGives
      <4> QED
        BY <4>1, NoNewReach
    <3>2. CASE t = x
      <4> SUFFICES ASSUME NEW d \in Reach(t)' PROVE d \in Reach(c)
        OBVIOUS
      <4>1. d \in Device /\ taskCanMapDevice(t, d)'
        BY DEF Reach
      <4>2. PICK h : Holds(t, h)' /\ Opens(h, d)
        BY <4>1, ReachByGrantNext
      <4>3. PICK i \in DOMAIN wanted : wanted[i] = h
        BY <1>1, <3>2, <4>2, SpawnGives
      <4>4. h \in Grant /\ granterCoversGrant(c, h)
        BY <1>1, <4>3 DEF syscallSpawn
      <4> QED
        BY <4>1, <4>2, <4>4, CoveredIsReached DEF Reach
    <3> QED
      BY <3>1, <3>2
  <2>3. t \in tasks => capabilities'[t] = capabilities[t] /\ deviceGrants'[t] = deviceGrants[t]
    BY <1>1 DEF syscallSpawn, TypeOK
  <2> QED
    BY <2>1, <2>2, <2>3
<1>2. ASSUME NEW x \in Task, NEW mask \in SUBSET Cap,
             syscallGrantCapability(c, x, mask) \/ syscallRevokeCapability(c, x, mask)
      PROVE  Goal
  <2>1. deviceGrants' = deviceGrants /\ mask \subseteq capabilities[c] /\ CAP_GRANT \in capabilities[c]
    BY <1>2 DEF syscallGrantCapability, syscallRevokeCapability, MayPassOn
  <2>2. capabilities'[t] \ capabilities[t] \subseteq capabilities[c]
    BY <1>2, <2>1 DEF syscallGrantCapability, syscallRevokeCapability, TypeOK
  <2>3. \A h : Holds(t, h)' => Holds(t, h)
    BY <2>1 DEF Holds
  <2> QED
    BY <2>1, <2>2, <2>3, NoNewReach
<1>3. ASSUME NEW x \in Task, NEW g \in Grant, syscallGrantDeviceAccess(c, x, g)
      PROVE  Goal
  <2>1. capabilities' = capabilities /\ CAP_GRANT \in capabilities[c] /\ granterCoversGrant(c, g)
    BY <1>3 DEF syscallGrantDeviceAccess
  <2>2. ASSUME NEW d \in Reach(t)', d \notin Reach(t) PROVE d \in Reach(c)
    <3>1. d \in Device /\ taskCanMapDevice(t, d)' /\ ~taskCanMapDevice(t, d)
      BY <2>2 DEF Reach
    <3>2. PICK h : Holds(t, h)' /\ Opens(h, d)
      BY <3>1, ReachByGrantNext
    <3>3. ~Holds(t, h)
      BY <3>1, <3>2, ReachByGrant
    <3>4. h = g
      BY <1>3, <3>2, <3>3, GrantAdds
    <3> QED
      BY <2>1, <3>1, <3>2, <3>4, CoveredIsReached DEF Reach
  <2> QED
    BY <2>1, <2>2
<1>4. ASSUME NEW d \in Device, syscallMapBar(c, d) \/ syscallUnmapBar(c, d)
      PROVE  Goal
  <2>1. capabilities' = capabilities /\ deviceGrants' = deviceGrants
    BY <1>4 DEF syscallMapBar, syscallUnmapBar
  <2>2. \A h : Holds(t, h)' => Holds(t, h)
    BY <2>1 DEF Holds
  <2> QED
    BY <2>1, <2>2, NoNewReach
<1>5. CASE Exit(c)
  <2>1. t # c => capabilities'[t] = capabilities[t] /\ deviceGrants'[t] = deviceGrants[t]
    BY <1>5 DEF Exit, Forget, TypeOK
  <2>2. t = c => capabilities'[t] = {} /\ deviceGrants'[t] = << >>
    BY <1>5 DEF Exit, Forget, TypeOK
  <2>3. \A h : Holds(t, h)' => Holds(t, h)
    BY <2>1, <2>2 DEF Holds
  <2> QED
    BY <2>1, <2>2, <2>3, NoNewReach
<1> QED
  BY <1>1, <1>2, <1>3, <1>4, <1>5 DEF Step

(* For any system: no chain of calls gives a task more than the caller of  *)
(* each call held, and only CAP_GRANT reaches other tasks.                 *)
THEOREM AuthorityIsNotAmplified == Spec => NoAmplification
<1>1. TypeOK /\ [Next]_vars => [\A c \in Task : Within(c) \/ ~Step(c)]_vars
  BY StepStaysWithin
<1> QED
  BY <1>1, TypeCorrect, PTL DEF Spec, NoAmplification
=============================================================================
