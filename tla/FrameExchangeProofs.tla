------------------------ MODULE FrameExchangeProofs ------------------------
(***************************************************************************)
(* Proofs about FrameExchange, for any number of windows and frames.       *)
(***************************************************************************)
EXTENDS FrameExchange, TLAPS

Drawing(w) == wpc[w] \in {"spin", "draw", "frame"}

(* What a window and the compositor know of each other.  Frame f is drawn  *)
(* in buffer f % 2; a window at "draw" or "frame" has waited for the frame *)
(* before last; a snapshot is of a frame that is presented and not yet     *)
(* consumed, and its buffer is the one of that frame unless the window has *)
(* already presented the next.                                             *)
Progress(w) ==
    /\ attached[w] => wpc[w] \notin {"init", "ready"}
    /\ ready[w] => wpc[w] \notin {"init", "ready"}
    /\ wpc[w] \in {"init", "ready"} => dirtyFrame[w] = 0
    /\ ~attached[w] => lastDirtyFrame[w] = 0 /\ ~snap[w].dirty
    /\ dirtyFrame[w] = m_localFrame[w]
    /\ consumedFrame[w] = lastDirtyFrame[w]
    /\ consumedFrame[w] <= dirtyFrame[w]
    /\ m_localFrame[w] <= consumedFrame[w] + 2
    /\ wpc[w] \in {"draw", "frame"} => m_localFrame[w] <= consumedFrame[w] + 1
    /\ Drawing(w) => m_localFrame[w] < MaxFrames[w]

Buffers(w) ==
    /\ m_drawIndex[w] = IF Drawing(w) THEN (m_localFrame[w] + 1) % 2 ELSE m_localFrame[w] % 2
    /\ wpc[w] = "frame" => presentIndex[w] = (m_localFrame[w] + 1) % 2
    /\ wpc[w] # "frame" /\ m_localFrame[w] > 0 => presentIndex[w] = m_localFrame[w] % 2

Snapshot(w) ==
    /\ cpc = "snapWhich" /\ cslot = w =>
         lastDirtyFrame[w] <= snap[w].frame /\ snap[w].frame <= dirtyFrame[w] /\ attached[w]
    /\ snap[w].dirty =>
         /\ consumedFrame[w] < snap[w].frame /\ snap[w].frame <= dirtyFrame[w]
         /\ \/ snap[w].which = snap[w].frame % 2
            \/ m_localFrame[w] > snap[w].frame
            \/ wpc[w] = "frame"

IInv == TypeOK /\ \A w \in Window : Progress(w) /\ Buffers(w) /\ Snapshot(w)

LEMMA SeenFields ==
    ASSUME NEW d \in BOOLEAN, NEW f \in Nat, NEW i \in {0, 1}
    PROVE  /\ Seen(d, f, i) \in Snap
           /\ Seen(d, f, i).dirty = d /\ Seen(d, f, i).frame = f /\ Seen(d, f, i).which = i
BY DEF Snap, Seen

LEMMA NoSnapIsSnap == NoSnap \in Snap /\ ~NoSnap.dirty
BY SeenFields DEF NoSnap

LEMMA InitEstablishes == Init => IInv
<1> SUFFICES ASSUME Init PROVE IInv
  OBVIOUS
<1> USE FrameAssumption DEF FrameAssumption
<1>1. TypeOK
  BY NoSnapIsSnap DEF Init, TypeOK, Window, WindowPc, CompositorPc
<1>2. ASSUME NEW w \in Window PROVE Progress(w) /\ Buffers(w) /\ Snapshot(w)
  BY DEF Init, Progress, Buffers, Snapshot, Drawing, NoSnap, Seen, Window
<1> QED
  BY <1>1, <1>2 DEF IInv

LEMMA WindowStepType ==
    ASSUME IInv, NEW v \in Window, WindowStep(v) PROVE TypeOK'
<1> USE FrameAssumption DEF FrameAssumption, TypeOK, IInv, Goto, slotVars, windowVars,
        compVars, waitVars
<1>0. Progress(v)
  OBVIOUS
<1>1. CASE FillSlot(v)
  BY <1>0, <1>1 DEF FillSlot, WindowPc
<1>2. CASE SetReady(v)
  BY <1>2 DEF SetReady, WindowPc
<1>3. CASE NotifyCompositor(v)
  BY <1>3 DEF NotifyCompositor, Notify, WindowPc
<1>4. CASE beginFrame(v)
  BY <1>4 DEF beginFrame, WindowPc
<1>5. CASE Spin(v)
  BY <1>5 DEF Spin, WindowPc
<1>6. CASE PresentIndex(v)
  BY <1>6 DEF PresentIndex, WindowPc
<1>7. CASE DirtyFrame(v)
  BY <1>0, <1>7 DEF DirtyFrame, WindowPc, Progress, Drawing
<1> QED
  BY <1>1, <1>2, <1>3, <1>4, <1>5, <1>6, <1>7 DEF WindowStep

(* One step of the compositor's walk over the slots stays among the slots. *)
LEMMA AdvanceStays ==
    ASSUME NEW next \in CompositorPc, cpc \in CompositorPc, cslot \in Window, Advance(next)
    PROVE  cpc' \in CompositorPc /\ cslot' \in Window /\ cpc' \in {cpc, next}
<1> USE FrameAssumption DEF FrameAssumption, Window
<1>1. CASE cslot < NumWindows
  BY <1>1 DEF Advance
<1>2. CASE ~ (cslot < NumWindows)
  BY <1>2 DEF Advance
<1> QED
  BY <1>1, <1>2

LEMMA SnapChanged ==
    ASSUME NEW s \in Snap, snap \in [Window -> Snap], snap' = [snap EXCEPT ![cslot] = s],
           cslot \in Window
    PROVE  /\ snap' \in [Window -> Snap] /\ snap'[cslot] = s
           /\ \A w \in Window \ {cslot} : snap'[w] = snap[w]
OBVIOUS

(* What each step of Render leaves of the snapshots. *)
LEMMA SnapOfFrame ==
    ASSUME TypeOK, SnapFrame
    PROVE  /\ snap' \in [Window -> Snap]
           /\ ~snap'[cslot].dirty /\ snap'[cslot].frame = dirtyFrame[cslot]
           /\ \A w \in Window \ {cslot} : snap'[w] = snap[w]
<1> DEFINE s == Seen(FALSE, dirtyFrame[cslot], 0)
<1>1. s \in Snap /\ ~s.dirty /\ s.frame = dirtyFrame[cslot]
  BY SeenFields DEF TypeOK
<1>2. snap' = [snap EXCEPT ![cslot] = s]
  BY DEF SnapFrame
<1> HIDE DEF s
<1> QED
  BY <1>1, <1>2, SnapChanged DEF TypeOK

LEMMA SnapOfWhich ==
    ASSUME TypeOK, SnapWhich
    PROVE  /\ snap' \in [Window -> Snap]
           /\ snap'[cslot].dirty <=> snap[cslot].frame # lastDirtyFrame[cslot]
           /\ snap'[cslot].frame = snap[cslot].frame
           /\ snap'[cslot].which = presentIndex[cslot]
           /\ \A w \in Window \ {cslot} : snap'[w] = snap[w]
<1> DEFINE f == snap[cslot].frame
           d == f # lastDirtyFrame[cslot]
           s == Seen(d, f, presentIndex[cslot])
<1>1. f \in Nat /\ presentIndex[cslot] \in {0, 1}
  BY DEF TypeOK, Snap
<1>2. d \in BOOLEAN
  OBVIOUS
<1>3. s \in Snap /\ s.dirty = d /\ s.frame = f /\ s.which = presentIndex[cslot]
  <2> HIDE DEF d, f
  <2> QED
    BY <1>1, <1>2, SeenFields
<1>4. snap' = [snap EXCEPT ![cslot] = s]
  BY DEF SnapWhich
<1>5. snap' \in [Window -> Snap] /\ snap'[cslot] = s /\ \A w \in Window \ {cslot} : snap'[w] = snap[w]
  <2> HIDE DEF s
  <2> QED
    BY <1>3, <1>4, SnapChanged DEF TypeOK
<1>6. snap'[cslot].dirty = d /\ snap'[cslot].frame = f /\ snap'[cslot].which = presentIndex[cslot]
  <2> HIDE DEF s, d, f
  <2> QED
    BY <1>3, <1>5
<1> QED
  <2>1. snap'[cslot].dirty <=> d
    <3> HIDE DEF d
    <3> QED
      BY <1>2, <1>6
  <2> QED
    BY <1>5, <1>6, <2>1

LEMMA SnapCleared ==
    ASSUME TypeOK, SnapNothing \/ Consume
    PROVE  /\ snap' \in [Window -> Snap]
           /\ ~snap'[cslot].dirty
           /\ \A w \in Window \ {cslot} : snap'[w] = snap[w]
<1>1. snap' = [snap EXCEPT ![cslot] = NoSnap]
  BY DEF SnapNothing, Consume
<1> QED
  BY <1>1, NoSnapIsSnap, SnapChanged DEF TypeOK

LEMMA CompositorStepType ==
    ASSUME IInv, CompositorStep PROVE TypeOK'
<1> USE FrameAssumption DEF IInv, At, slotVars, windowVars, compVars, waitVars
<1>0. cslot \in Window /\ cpc \in CompositorPc /\ lastDirtyFrame \in [Window -> Nat]
        /\ consumedFrame \in [Window -> Nat] /\ snap \in [Window -> Snap]
  BY DEF TypeOK
<1>1. CASE UpdateSlot
  <2>1. cpc' \in CompositorPc /\ cslot' \in Window
    BY <1>0, <1>1, AdvanceStays DEF UpdateSlot, CompositorPc
  <2>2. attached' \in [Window -> BOOLEAN] /\ lastDirtyFrame' \in [Window -> Nat]
    <3>1. CASE UNCHANGED <<attached, lastDirtyFrame>>
      BY <3>1 DEF TypeOK
    <3>2. CASE /\ attached' = [attached EXCEPT ![cslot] = TRUE]
               /\ lastDirtyFrame' = [lastDirtyFrame EXCEPT ![cslot] = 0]
      BY <1>0, <3>2 DEF TypeOK
    <3> QED
      BY <1>1, <3>1, <3>2 DEF UpdateSlot
  <2> QED
    BY <1>1, <2>1, <2>2 DEF UpdateSlot, TypeOK
<1>2. CASE SnapNothing
  <2>1. cpc' \in CompositorPc /\ cslot' \in Window
    BY <1>0, <1>2, AdvanceStays DEF SnapNothing, CompositorPc
  <2>2. snap' \in [Window -> Snap]
    BY <1>2, SnapCleared
  <2> QED
    BY <1>2, <2>1, <2>2 DEF SnapNothing, TypeOK
<1>3. CASE SnapFrame
  <2>2. snap' \in [Window -> Snap]
    BY <1>3, SnapOfFrame
  <2> QED
    BY <1>3, <2>2 DEF SnapFrame, TypeOK, CompositorPc
<1>4. CASE SnapWhich
  <2>1. cpc' \in CompositorPc /\ cslot' \in Window
    BY <1>0, <1>4 DEF SnapWhich, CompositorPc, Window, FrameAssumption
  <2>2. snap' \in [Window -> Snap]
    BY <1>4, SnapOfWhich
  <2> QED
    BY <1>4, <2>1, <2>2 DEF SnapWhich, TypeOK
<1>5. CASE Draw
  <2>2. snap' \in [Window -> Snap]
    BY <1>0, <1>5, NoSnapIsSnap DEF Draw
  <2> QED
    BY <1>5, <2>2 DEF Draw, TypeOK, CompositorPc
<1>6. CASE Consume
  <2>1. cpc' \in CompositorPc /\ cslot' \in Window
    BY <1>0, <1>6, AdvanceStays DEF Consume, CompositorPc
  <2>2. snap' \in [Window -> Snap]
    BY <1>6, SnapCleared
  <2>3. snap[cslot].frame \in Nat
    BY <1>0 DEF Snap
  <2>4. lastDirtyFrame' \in [Window -> Nat] /\ consumedFrame' \in [Window -> Nat]
    BY <1>0, <1>6, <2>3 DEF Consume
  <2> QED
    BY <1>6, <2>1, <2>2, <2>4 DEF Consume, TypeOK
<1>7. CASE Sleep
  BY <1>7, FrameAssumption DEF Sleep, CompositorPc, Wait, TypeOK, FrameAssumption
<1> QED
  BY <1>1, <1>2, <1>3, <1>4, <1>5, <1>6, <1>7 DEF CompositorStep

(* A window's step disturbs only what is known of itself. *)
LEMMA WindowStepOthers ==
    ASSUME IInv, NEW v \in Window, WindowStep(v), NEW w \in Window \ {v}
    PROVE  (Progress(w) /\ Buffers(w) /\ Snapshot(w))'
<1> USE DEF TypeOK, IInv, Goto, slotVars, windowVars, compVars, waitVars
<1>1. /\ wpc'[w] = wpc[w] /\ ready'[w] = ready[w] /\ presentIndex'[w] = presentIndex[w]
      /\ dirtyFrame'[w] = dirtyFrame[w] /\ consumedFrame'[w] = consumedFrame[w]
      /\ m_drawIndex'[w] = m_drawIndex[w] /\ m_localFrame'[w] = m_localFrame[w]
      /\ UNCHANGED compVars
  BY DEF WindowStep, FillSlot, SetReady, NotifyCompositor, beginFrame, Spin, PresentIndex,
         DirtyFrame
<1> QED
  BY <1>1 DEF Progress, Buffers, Snapshot, Drawing

LEMMA Parity ==
    ASSUME NEW n \in Nat
    PROVE  1 - (n % 2) = (n + 1) % 2 /\ n % 2 \in {0, 1}
OBVIOUS

LEMMA WindowStepSelf ==
    ASSUME IInv, NEW w \in Window, WindowStep(w)
    PROVE  (Progress(w) /\ Buffers(w) /\ Snapshot(w))'
<1> USE FrameAssumption DEF FrameAssumption, TypeOK, IInv, Goto, slotVars, windowVars, compVars,
        Drawing
<1>0. Progress(w) /\ Buffers(w) /\ Snapshot(w) /\ snap[w] \in Snap
  OBVIOUS
<1>a. /\ dirtyFrame[w] \in Nat /\ lastDirtyFrame[w] \in Nat /\ consumedFrame[w] \in Nat
      /\ m_localFrame[w] \in Nat /\ presentIndex[w] \in {0, 1} /\ snap[w].frame \in Nat
      /\ MaxFrames[w] \in Nat
  BY DEF Snap
<1>1. CASE FillSlot(w)
  BY <1>0, <1>1 DEF FillSlot, Progress, Buffers, Snapshot, Snap
<1>2. CASE SetReady(w)
  BY <1>0, <1>2 DEF SetReady, Progress, Buffers, Snapshot
<1>3. CASE NotifyCompositor(w)
  BY <1>0, <1>3 DEF NotifyCompositor, Progress, Buffers, Snapshot
<1>4. CASE beginFrame(w)
  <2>1. m_drawIndex'[w] = (m_localFrame[w] + 1) % 2 /\ Drawing(w)'
    BY <1>0, <1>a, <1>4, Parity DEF beginFrame, Buffers
  <2>2. Progress(w)'
    BY <1>0, <1>a, <1>4 DEF beginFrame, Progress
  <2>3. Buffers(w)'
    BY <1>0, <1>a, <1>4, <2>1 DEF beginFrame, Buffers
  <2> QED
    BY <1>0, <1>a, <1>4, <2>2, <2>3 DEF beginFrame, Snapshot
<1>5. CASE Spin(w)
  BY <1>0, <1>5 DEF Spin, needConsumed, Progress, Buffers, Snapshot
<1>6. CASE PresentIndex(w)
  BY <1>0, <1>6 DEF PresentIndex, Progress, Buffers, Snapshot
<1>7. CASE DirtyFrame(w)
  <2>1. Progress(w)'
    BY <1>0, <1>a, <1>7 DEF DirtyFrame, Progress
  <2>2. Buffers(w)'
    BY <1>0, <1>a, <1>7 DEF DirtyFrame, Buffers
  <2>3. Snapshot(w)'
    BY <1>0, <1>a, <1>7 DEF DirtyFrame, Snapshot, Progress
  <2> QED
    BY <2>1, <2>2, <2>3
<1> QED
  BY <1>1, <1>2, <1>3, <1>4, <1>5, <1>6, <1>7 DEF WindowStep

LEMMA CompositorStepKeeps ==
    ASSUME IInv, CompositorStep, NEW w \in Window
    PROVE  (Progress(w) /\ Buffers(w) /\ Snapshot(w))'
<1> USE DEF IInv, At, slotVars, windowVars, Drawing
<1>0. /\ Progress(w) /\ Buffers(w) /\ Snapshot(w) /\ snap[w] \in Snap /\ cslot \in Window
      /\ cpc \in CompositorPc
      /\ Snapshot(cslot) /\ Progress(cslot)
  BY DEF TypeOK
<1>a. /\ dirtyFrame[w] \in Nat /\ lastDirtyFrame[w] \in Nat /\ consumedFrame[w] \in Nat
      /\ m_localFrame[w] \in Nat /\ presentIndex[w] \in {0, 1} /\ snap[w].frame \in Nat
  BY DEF TypeOK, Snap
<1>b. Buffers(w)'
  BY <1>0 DEF Buffers, CompositorStep, UpdateSlot, SnapNothing, SnapFrame, SnapWhich, Draw,
              Consume, Sleep
<1>1. CASE UpdateSlot
  <2>1. cpc' # "snapWhich"
    BY <1>0, <1>1, AdvanceStays DEF UpdateSlot, CompositorPc
  <2>2. Progress(w)'
    BY <1>0, <1>a, <1>1 DEF UpdateSlot, Progress, TypeOK
  <2> QED
    BY <1>0, <1>b, <1>1, <2>1, <2>2 DEF UpdateSlot, Snapshot
<1>2. CASE SnapNothing
  <2>1. cpc' # "snapWhich"
    BY <1>0, <1>2, AdvanceStays DEF SnapNothing, CompositorPc
  <2>2. snap'[w].dirty => snap'[w] = snap[w]
    BY <1>2, SnapCleared
  <2> QED
    BY <1>0, <1>b, <1>2, <2>1, <2>2 DEF SnapNothing, Progress, Snapshot
<1>3. CASE SnapFrame
  <2>1. IF w = cslot THEN ~snap'[w].dirty /\ snap'[w].frame = dirtyFrame[w]
                     ELSE snap'[w] = snap[w]
    BY <1>3, SnapOfFrame
  <2>2. Progress(w)'
    BY <1>0, <1>3, <2>1 DEF SnapFrame, Progress
  <2>3. ASSUME w = cslot PROVE Snapshot(w)'
    <3>1. ~snap'[w].dirty /\ snap'[w].frame = dirtyFrame[w]
      BY <2>1, <2>3
    <3>2. lastDirtyFrame[w] <= dirtyFrame[w] /\ attached[w]
      BY <1>0, <1>3, <2>3 DEF SnapFrame, Progress
    <3>3. lastDirtyFrame' = lastDirtyFrame /\ dirtyFrame' = dirtyFrame /\ attached' = attached
      BY <1>3 DEF SnapFrame
    <3> QED
      BY <1>a, <3>1, <3>2, <3>3 DEF Snapshot
  <2>4. ASSUME w # cslot PROVE Snapshot(w)'
    BY <1>0, <1>3, <2>1, <2>4 DEF SnapFrame, Snapshot
  <2> QED
    BY <1>b, <2>2, <2>3, <2>4
<1>4. CASE SnapWhich
  <2>1. IF w = cslot THEN /\ snap'[w].dirty <=> snap[w].frame # lastDirtyFrame[w]
                          /\ snap'[w].frame = snap[w].frame
                          /\ snap'[w].which = presentIndex[w]
                     ELSE snap'[w] = snap[w]
    BY <1>4, SnapOfWhich
  <2>2. cpc' # "snapWhich"
    BY <1>4 DEF SnapWhich
  <2> QED
    BY <1>0, <1>a, <1>b, <1>4, <2>1, <2>2 DEF SnapWhich, Progress, Snapshot, Buffers
<1>5. CASE Draw
  <2>1. snap'[w].dirty => snap'[w] = snap[w]
    BY <1>5, NoSnapIsSnap DEF Draw
  <2> QED
    BY <1>0, <1>b, <1>5, <2>1 DEF Draw, Progress, Snapshot
<1>6. CASE Consume
  <2>1. cpc' # "snapWhich"
    BY <1>0, <1>6, AdvanceStays DEF Consume, CompositorPc
  <2>2. IF w = cslot THEN ~snap'[w].dirty ELSE snap'[w] = snap[w]
    BY <1>6, SnapCleared
  <2>3. IF w = cslot /\ snap[w].dirty
        THEN lastDirtyFrame'[w] = snap[w].frame /\ consumedFrame'[w] = snap[w].frame
        ELSE lastDirtyFrame'[w] = lastDirtyFrame[w] /\ consumedFrame'[w] = consumedFrame[w]
    BY <1>6 DEF Consume, TypeOK
  <2> QED
    BY <1>0, <1>a, <1>b, <1>6, <2>1, <2>2, <2>3 DEF Consume, Progress, Snapshot
<1>7. CASE Sleep
  BY <1>0, <1>b, <1>7 DEF Sleep, Progress, Snapshot
<1> QED
  BY <1>1, <1>2, <1>3, <1>4, <1>5, <1>6, <1>7 DEF CompositorStep

LEMMA OtherSteps ==
    ASSUME IInv, Input \/ (\E w \in Window : Crash(w)) \/ UNCHANGED vars
    PROVE  IInv'
<1> USE FrameAssumption DEF FrameAssumption, slotVars, windowVars, compVars, waitVars
<1>1. UNCHANGED <<slotVars, windowVars, compVars>>
  BY DEF Input, Crash, vars
<1>2. /\ alive' \subseteq Process /\ {Compositor, InputServer} \subseteq alive'
      /\ asleep' \subseteq {Compositor} /\ pending' \subseteq {Compositor}
  BY DEF Input, Crash, Notify, Exit, vars, IInv, TypeOK
<1>3. TypeOK'
  BY <1>1, <1>2 DEF IInv, TypeOK
<1> QED
  BY <1>1, <1>3 DEF IInv, Progress, Buffers, Snapshot, Drawing

LEMMA NextKeeps == IInv /\ [Next]_vars => IInv'
<1> SUFFICES ASSUME IInv, [Next]_vars PROVE IInv'
  OBVIOUS
<1>1. CASE CompositorStep
  BY <1>1, CompositorStepType, CompositorStepKeeps DEF IInv
<1>2. ASSUME NEW v \in Window, WindowStep(v) PROVE IInv'
  <2>1. ASSUME NEW w \in Window PROVE (Progress(w) /\ Buffers(w) /\ Snapshot(w))'
    BY <1>2, WindowStepSelf, WindowStepOthers
  <2> QED
    BY <1>2, <2>1, WindowStepType DEF IInv
<1> QED
  BY <1>1, <1>2, OtherSteps DEF Next

THEOREM Invariance == Spec => []IInv
BY InitEstablishes, NextKeeps, PTL DEF Spec

(* Type correctness, for any number of windows and of frames. *)
THEOREM TypeCorrect == Spec => []TypeOK
<1>1. IInv => TypeOK
  BY DEF IInv
<1> QED
  BY <1>1, Invariance, PTL

(* The window never draws into the buffer a new frame is being read from. *)
THEOREM FramesAreStable == Spec => []NewFrameIsStable
<1>1. IInv => NewFrameIsStable
  <2> SUFFICES ASSUME IInv, NEW w \in Window, snap[w].dirty, wpc[w] = "draw"
               PROVE  snap[w].which # m_drawIndex[w]
    BY DEF NewFrameIsStable
  <2>1. Progress(w) /\ Buffers(w) /\ Snapshot(w)
    BY DEF IInv
  <2>2. m_localFrame[w] \in Nat /\ consumedFrame[w] \in Nat /\ snap[w].frame \in Nat
    BY DEF IInv, TypeOK, Snap
  <2>3. m_localFrame[w] = snap[w].frame /\ snap[w].which = m_localFrame[w] % 2
    BY <2>1, <2>2 DEF Progress, Snapshot
  <2> QED
    BY <2>1, <2>2, <2>3, Parity DEF Buffers, Drawing
<1> QED
  BY <1>1, Invariance, PTL

(* The window stays within two frames of the screen. *)
THEOREM WindowsDoNotRunAhead == Spec => []AtMostTwoAhead
<1>1. IInv => AtMostTwoAhead
  BY DEF IInv, AtMostTwoAhead, Progress
<1> QED
  BY <1>1, Invariance, PTL

(* No frame is consumed twice, out of order, or before it is presented. *)
THEOREM FramesAreConsumedInOrder == Spec => FramesInOrder
<1>1. IInv /\ [Next]_vars =>
        [\A w \in Window : consumedFrame'[w] # consumedFrame[w] =>
            consumedFrame'[w] \in consumedFrame[w] + 1 .. dirtyFrame[w]]_vars
  <2> SUFFICES ASSUME IInv, Next, NEW w \in Window, consumedFrame'[w] # consumedFrame[w]
               PROVE  consumedFrame'[w] \in consumedFrame[w] + 1 .. dirtyFrame[w]
    OBVIOUS
  <2>1. Progress(w) /\ Snapshot(w) /\ TypeOK /\ snap[w] \in Snap
    BY DEF IInv, TypeOK
  <2>2. CASE Consume
    BY <2>1, <2>2 DEF Consume, Snapshot, TypeOK, Snap
  <2>3. CASE \E v \in Window : FillSlot(v)
    BY <2>1, <2>3 DEF FillSlot, Goto, Progress, IInv, TypeOK
  <2>4. CASE ~Consume /\ ~(\E v \in Window : FillSlot(v))
    BY <2>4 DEF Next, CompositorStep, WindowStep, UpdateSlot, SnapNothing, SnapFrame, SnapWhich,
         Draw, Sleep, Input, Crash, SetReady, NotifyCompositor, beginFrame, Spin, PresentIndex,
         DirtyFrame, slotVars
  <2> QED
    BY <2>2, <2>3, <2>4
<1> QED
  BY <1>1, Invariance, PTL DEF Spec, FramesInOrder

-----------------------------------------------------------------------------
(* No frame is forgotten.  The compositor is between its wake-up and the   *)
(* place where it would notice the frame, or it has noticed it and is on   *)
(* its way to consume it, or a notification is pending.                    *)
Sees(w) ==
    /\ snap[w].frame = dirtyFrame[w]
    /\ \/ cpc = "snapWhich" /\ cslot = w
       \/ snap[w].dirty /\ \/ cpc \in {"snapFrame", "snapWhich"} /\ cslot > w
                           \/ cpc = "render"
                           \/ cpc = "consume" /\ cslot <= w
WillSee(w) ==
    \/ cpc = "update"
    \/ cpc = "snapFrame" /\ cslot <= w
    \/ cpc = "snapWhich" /\ cslot < w
    \/ Sees(w)

Unseen(w) == attached[w] /\ wpc[w] # "notify" /\ lastDirtyFrame[w] # dirtyFrame[w]

Watchful(w) == Unseen(w) => Compositor \in pending \/ (Compositor \notin asleep /\ WillSee(w))

AInv ==
    /\ Compositor \in asleep => cpc = "update" /\ Compositor \notin pending
    /\ cpc \in {"render", "wait"} => cslot = 1
    /\ \A w \in Window : Watchful(w)

LEMMA WindowsKeepWatch ==
    ASSUME IInv, AInv, NEW v \in Window, WindowStep(v)
    PROVE  AInv'
<1> USE FrameAssumption DEF FrameAssumption, slotVars, windowVars, compVars, waitVars, Goto
<1>0. UNCHANGED compVars
  BY DEF WindowStep, FillSlot, SetReady, NotifyCompositor, beginFrame, Spin, PresentIndex, DirtyFrame
<1>1. CASE NotifyCompositor(v)
  <2>1. /\ asleep' \subseteq asleep
        /\ Compositor \in asleep \/ Compositor \in pending'
        /\ UNCHANGED slotVars
    BY <1>1 DEF NotifyCompositor, Notify, IInv, TypeOK
  <2>2. Compositor \notin asleep'
    BY <1>1, <2>1 DEF NotifyCompositor, Notify, IInv, TypeOK
  <2>3. Compositor \in pending' \/ cpc' = "update"
    BY <1>0, <2>1 DEF AInv
  <2> QED
    BY <1>0, <2>2, <2>3 DEF AInv, Watchful, WillSee
<1>2. CASE ~NotifyCompositor(v)
  <2>1. UNCHANGED waitVars
    BY <1>2 DEF WindowStep, FillSlot, SetReady, beginFrame, Spin, PresentIndex, DirtyFrame
  <2>2. ASSUME NEW w \in Window, Unseen(w)' PROVE Unseen(w) /\ dirtyFrame'[w] = dirtyFrame[w]
    <3>1. ~attached[w] \/ wpc[w] \notin {"init", "ready"}
      BY DEF IInv, Progress
    <3>2. CASE w = v
      BY <1>0, <1>2, <2>2, <3>1, <3>2 DEF WindowStep, FillSlot, SetReady, beginFrame, Spin,
         PresentIndex, DirtyFrame, Unseen, IInv, TypeOK
    <3>3. CASE w # v
      BY <1>0, <1>2, <2>2, <3>3 DEF WindowStep, FillSlot, SetReady, beginFrame, Spin,
         PresentIndex, DirtyFrame, Unseen, IInv, TypeOK
    <3> QED
      BY <3>2, <3>3
  <2> QED
    BY <1>0, <2>1, <2>2 DEF AInv, Watchful, WillSee, Sees
<1> QED
  BY <1>1, <1>2

LEMMA CompositorKeepsWatch ==
    ASSUME IInv, AInv, CompositorStep
    PROVE  AInv'
<1> USE DEF At, Awake, slotVars, windowVars
<1>0. /\ cslot \in Window /\ cpc \in CompositorPc /\ NumWindows \in Nat /\ TypeOK
      /\ 1 \in Window
  <2>1. NumWindows \in Nat \ {0}
    BY FrameAssumption DEF FrameAssumption
  <2>2. 1 \in Window
    BY <2>1 DEF Window
  <2> QED
    BY <2>1, <2>2 DEF IInv, TypeOK
<1>1. CASE Sleep
  BY <1>0, <1>1 DEF Sleep, Wait, AInv, Watchful, WillSee, Sees, Unseen
<1>2. ASSUME ~Sleep PROVE UNCHANGED <<waitVars, slotVars>> \/ Consume
  BY <1>2 DEF CompositorStep, UpdateSlot, SnapNothing, SnapFrame, SnapWhich, Draw
<1>a. ASSUME ~Sleep
      PROVE  /\ UNCHANGED waitVars /\ Compositor \notin asleep'
             /\ UNCHANGED <<dirtyFrame, wpc>>
  BY <1>a, <1>2 DEF CompositorStep, UpdateSlot, SnapNothing, SnapFrame, SnapWhich, Draw, Consume,
     waitVars
<1>b. ASSUME ~Sleep, NEW w \in Window, Unseen(w)', Unseen(w) => WillSee(w), ~WillSee(w)'
      PROVE  FALSE
  <2> USE DEF Unseen
  <2>0. /\ w \in 1 .. NumWindows /\ cslot \in 1 .. NumWindows /\ NumWindows \in Nat
        /\ w \in Nat /\ cslot \in Nat
    BY <1>0 DEF Window
  <2>1. CASE UpdateSlot
    BY <1>b, <1>0, <2>0, <2>1 DEF UpdateSlot, Advance, WillSee
  <2>2. CASE SnapNothing
    <3>1. snap'[w] = snap[w]
      BY <1>b, <2>2, SnapCleared, <1>0 DEF SnapNothing
    <3> QED
      BY <1>b, <1>0, <2>0, <2>2, <3>1 DEF SnapNothing, Advance, WillSee, Sees
  <2>3. CASE SnapFrame
    <3>1. IF w = cslot THEN snap'[w].frame = dirtyFrame[w] ELSE snap'[w] = snap[w]
      BY <2>3, <1>0, SnapOfFrame
    <3>2. Unseen(w) /\ WillSee(w) /\ dirtyFrame' = dirtyFrame /\ cslot' = cslot
      BY <1>b, <2>3 DEF SnapFrame
    <3>3. cpc = "snapFrame" /\ cpc' = "snapWhich"
      BY <2>3 DEF SnapFrame
    <3>4. CASE w = cslot
      BY <1>b, <3>1, <3>2, <3>3, <3>4 DEF WillSee, Sees
    <3>5. CASE w # cslot
      <4>1. snap'[w] = snap[w] /\ (cslot <= w => cslot < w)
        BY <2>0, <3>1, <3>5
      <4> QED
        BY <1>b, <3>2, <3>3, <3>5, <4>1 DEF WillSee, Sees
    <3> QED
      BY <3>4, <3>5
  <2>4. CASE SnapWhich
    <3>1. IF w = cslot THEN /\ snap'[w].dirty <=> snap[w].frame # lastDirtyFrame[w]
                            /\ snap'[w].frame = snap[w].frame
                       ELSE snap'[w] = snap[w]
      BY <2>4, <1>0, SnapOfWhich
    <3>2. cslot < w => cpc' = "snapFrame" /\ cslot' <= w
      BY <2>0, <2>4 DEF SnapWhich
    <3>3. cslot >= w => (cpc' = "snapFrame" /\ cslot' > w) \/ cpc' = "render"
      BY <2>0, <2>4 DEF SnapWhich
    <3>4. Unseen(w) /\ Sees(w) /\ dirtyFrame' = dirtyFrame
      BY <1>b, <2>0, <2>4, <3>2 DEF SnapWhich, WillSee
    <3>5. snap'[w].dirty /\ snap'[w].frame = dirtyFrame[w]
      BY <2>4, <3>1, <3>4 DEF Sees, SnapWhich
    <3>6. cslot >= w
      BY <2>0, <1>b, <3>2 DEF WillSee
    <3> QED
      BY <1>b, <3>3, <3>4, <3>5, <3>6 DEF WillSee, Sees
  <2>5. CASE Draw
    BY <1>b, <1>0, <2>0, <2>5 DEF Draw, WillSee, Sees, AInv
  <2>6. CASE Consume
    <3>1. CASE w = cslot
      <4>1. lastDirtyFrame'[w] = IF snap[w].dirty THEN snap[w].frame ELSE lastDirtyFrame[w]
        BY <2>6, <3>1, <1>0 DEF Consume, TypeOK
      <4>2. /\ snap[w].dirty => lastDirtyFrame[w] # dirtyFrame[w]
            /\ snap[w].frame # dirtyFrame[w] \/ snap[w].frame = dirtyFrame[w]
        BY DEF IInv, TypeOK, Snapshot, Progress, Snap
      <4> QED
        BY <1>b, <2>0, <2>6, <3>1, <4>1, <4>2 DEF Consume, WillSee, Sees
    <3>2. CASE w # cslot
      <4>1. snap'[w] = snap[w] /\ lastDirtyFrame'[w] = lastDirtyFrame[w]
        BY <2>6, <3>2, <1>0, SnapCleared DEF Consume, TypeOK
      <4> QED
        BY <1>b, <2>0, <2>6, <3>2, <4>1 DEF Consume, Advance, WillSee, Sees
    <3> QED
      BY <3>1, <3>2
  <2> QED
    BY <1>b, <2>1, <2>2, <2>3, <2>4, <2>5, <2>6 DEF CompositorStep
<1>c. ASSUME ~Sleep PROVE cpc' \in {"render", "wait"} => cslot' = 1
  BY <1>c, <1>0 DEF CompositorStep, UpdateSlot, SnapNothing, SnapFrame, SnapWhich, Draw, Consume,
     Advance, AInv
<1> QED
  BY <1>1, <1>a, <1>b, <1>c DEF AInv, Watchful, waitVars

(* The compositor never sleeps over a frame it has not consumed. *)
THEOREM FramesAreNotForgotten == Spec => []NoForgottenFrame
<1>1. Init => AInv
  BY FrameAssumption DEF Init, AInv, Watchful, WillSee, FrameAssumption
<1>2. IInv /\ AInv /\ [Next]_vars => AInv'
  <2> SUFFICES ASSUME IInv, AInv, [Next]_vars PROVE AInv'
    OBVIOUS
  <2>1. CASE Input \/ (\E w \in Window : Crash(w)) \/ UNCHANGED vars
    <3>1. UNCHANGED <<slotVars, windowVars, compVars>>
      BY <2>1 DEF Input, Crash, vars
    <3>2. \/ /\ asleep' = asleep
             /\ Compositor \in pending => Compositor \in pending'
             /\ Compositor \in asleep \ pending => Compositor \notin pending'
          \/ Compositor \in asleep /\ Compositor \notin asleep'
      BY <2>1, FrameAssumption DEF Input, Crash, Notify, Exit, vars, waitVars, FrameAssumption,
         IInv, TypeOK
    <3> QED
      BY <3>1, <3>2 DEF AInv, Watchful, Unseen, WillSee, Sees, slotVars, windowVars, compVars
  <2> QED
    BY <2>1, WindowsKeepWatch, CompositorKeepsWatch DEF Next
<1>3. AInv => NoForgottenFrame
  BY DEF AInv, Watchful, Unseen, NoForgottenFrame
<1> QED
  BY <1>1, <1>2, <1>3, Invariance, PTL DEF Spec
=============================================================================
