--------------------------- MODULE FrameExchange ---------------------------
(***************************************************************************)
(* Double-buffered drawing: windows draw into one of two shared buffers,   *)
(* present it and go on with the other; the compositor copies presented    *)
(* buffers to the screen (programs/include/CompositorClient.hpp, and       *)
(* UpdateSlots, Render and Run of programs/include/Compositor.hpp).        *)
(*                                                                         *)
(* Accesses to the shared slot that a switch of tasks could come between   *)
(* are steps of their own.  A window stands for the slot it has claimed;   *)
(* no program of the repository shuts a window down, so slots are not      *)
(* reused: a window that exits leaves its slot ready.                      *)
(***************************************************************************)
EXTENDS WaitNotify, Integers

CONSTANTS
    NumWindows,     \* windows, by slot index
    Compositor,     \* the pid published as compositor.pid
    InputServer,    \* notifies the focused task of input
    MaxFrames       \* bound on the frames of each window

Window == 1 .. NumWindows

ASSUME FrameAssumption ==
    /\ NumWindows \in Nat \ {0} /\ MaxFrames \in [Window -> Nat]
    /\ Compositor \notin Window /\ InputServer \notin Window /\ Compositor # InputServer
    /\ Process = Window \cup {Compositor, InputServer}

VARIABLES
    ready, presentIndex, dirtyFrame, consumedFrame,     \* the shared slots
    m_drawIndex, m_localFrame,                          \* each window's own
    wpc,            \* where each window is in CompositorClient
    attached,       \* slots[i].attached: the compositor has mapped the buffers
    lastDirtyFrame, \* slots[i].lastDirtyFrame
    snap,           \* what Render read of each slot
    cpc, cslot      \* where the compositor is in Run, and at which slot

slotVars   == <<ready, presentIndex, dirtyFrame, consumedFrame>>
windowVars == <<m_drawIndex, m_localFrame, wpc>>
compVars   == <<attached, lastDirtyFrame, snap, cpc, cslot>>
vars == <<waitVars, slotVars, windowVars, compVars>>

Seen(d, f, i) == [dirty |-> d, frame |-> f, which |-> i]
NoSnap == Seen(FALSE, 0, 0)

(* SetupRegistry has zeroed the registry.                                  *)
Init ==
    /\ alive = Process /\ asleep = {} /\ pending = {}
    /\ ready = [w \in Window |-> FALSE]
    /\ presentIndex = [w \in Window |-> 0]
    /\ dirtyFrame = [w \in Window |-> 0]
    /\ consumedFrame = [w \in Window |-> 0]
    /\ m_drawIndex = [w \in Window |-> 0]
    /\ m_localFrame = [w \in Window |-> 0]
    /\ wpc = [w \in Window |-> "init"]
    /\ attached = [w \in Window |-> FALSE]
    /\ lastDirtyFrame = [w \in Window |-> 0]
    /\ snap = [w \in Window |-> NoSnap]
    /\ cpc = "update" /\ cslot = 1

-----------------------------------------------------------------------------
(* CompositorClient *)

Goto(w, from, to) ==
    /\ Awake(w)
    /\ wpc[w] = from
    /\ wpc' = [wpc EXCEPT ![w] = to]

(* init fills the slot in before it says ready.                            *)
FillSlot(w) ==
    /\ Goto(w, "init", "ready")
    /\ presentIndex' = [presentIndex EXCEPT ![w] = 1]
    /\ dirtyFrame' = [dirtyFrame EXCEPT ![w] = 0]
    /\ consumedFrame' = [consumedFrame EXCEPT ![w] = 0]
    /\ m_drawIndex' = [m_drawIndex EXCEPT ![w] = 0]
    /\ m_localFrame' = [m_localFrame EXCEPT ![w] = 0]
    /\ UNCHANGED <<waitVars, ready, compVars>>

SetReady(w) ==
    /\ Goto(w, "ready", "notify")
    /\ ready' = [ready EXCEPT ![w] = TRUE]
    /\ UNCHANGED <<waitVars, presentIndex, dirtyFrame, consumedFrame, m_drawIndex,
                   m_localFrame, compVars>>

(* Mutant: the compositor is not notified. *)
NotifyNobody(w) ==
    /\ Goto(w, "notify", "idle")
    /\ UNCHANGED <<waitVars, slotVars, m_drawIndex, m_localFrame, compVars>>

(* The Notify of init and of present.                                      *)
NotifyCompositor(w) ==
    /\ Goto(w, "notify", "idle")
    /\ Notify(w, Compositor)
    /\ UNCHANGED <<slotVars, m_drawIndex, m_localFrame, compVars>>

beginFrame(w) ==
    /\ m_localFrame[w] < MaxFrames[w]
    /\ Goto(w, "idle", IF m_localFrame[w] < 2 THEN "draw" ELSE "spin")
    /\ m_drawIndex' = [m_drawIndex EXCEPT ![w] = 1 - @]
    /\ UNCHANGED <<waitVars, slotVars, m_localFrame, compVars>>

needConsumed(w) == m_localFrame[w] - 1

(* Mutant: no frame is waited for. *)
SpinNot(w) ==
    /\ Goto(w, "spin", "draw")
    /\ UNCHANGED <<waitVars, slotVars, m_drawIndex, m_localFrame, compVars>>

(* The loop of beginFrame, which yields until the frame before last has    *)
(* been consumed.                                                          *)
Spin(w) ==
    /\ consumedFrame[w] >= needConsumed(w)
    /\ Goto(w, "spin", "draw")
    /\ UNCHANGED <<waitVars, slotVars, m_drawIndex, m_localFrame, compVars>>

(* The program has drawn; present stores the buffer, then the frame.       *)
PresentIndex(w) ==
    /\ Goto(w, "draw", "frame")
    /\ presentIndex' = [presentIndex EXCEPT ![w] = m_drawIndex[w]]
    /\ UNCHANGED <<waitVars, ready, dirtyFrame, consumedFrame, m_drawIndex, m_localFrame,
                   compVars>>

DirtyFrame(w) ==
    /\ Goto(w, "frame", "notify")
    /\ m_localFrame' = [m_localFrame EXCEPT ![w] = @ + 1]
    /\ dirtyFrame' = [dirtyFrame EXCEPT ![w] = m_localFrame[w] + 1]
    /\ UNCHANGED <<waitVars, ready, presentIndex, consumedFrame, m_drawIndex, compVars>>

Crash(w) ==
    /\ Exit(w)
    /\ UNCHANGED <<slotVars, windowVars, compVars>>

WindowStep(w) ==
    \/ FillSlot(w) \/ SetReady(w) \/ NotifyCompositor(w)
    \/ beginFrame(w) \/ Spin(w) \/ PresentIndex(w) \/ DirtyFrame(w)

-----------------------------------------------------------------------------
(* Compositor: UpdateSlots, Render, Wait *)

At(pc) == Awake(Compositor) /\ cpc = pc

(* On to the next slot, or to the next part of the loop after the last.    *)
Advance(next) ==
    IF cslot < NumWindows THEN cslot' = cslot + 1 /\ UNCHANGED cpc
                          ELSE cslot' = 1 /\ cpc' = next

(* Mapping the two buffers may fail; the next UpdateSlots tries again.     *)
UpdateSlot ==
    /\ At("update")
    /\ \/ /\ ready[cslot] /\ ~attached[cslot]
          /\ attached' = [attached EXCEPT ![cslot] = TRUE]
          /\ lastDirtyFrame' = [lastDirtyFrame EXCEPT ![cslot] = 0]
       \/ UNCHANGED <<attached, lastDirtyFrame>>
    /\ Advance("snapFrame")
    /\ UNCHANGED <<waitVars, slotVars, windowVars, snap>>

SnapNothing ==
    /\ At("snapFrame") /\ ~attached[cslot]
    /\ snap' = [snap EXCEPT ![cslot] = NoSnap]
    /\ Advance("render")
    /\ UNCHANGED <<waitVars, slotVars, windowVars, attached, lastDirtyFrame>>

SnapFrame ==
    /\ At("snapFrame") /\ attached[cslot]
    /\ snap' = [snap EXCEPT ![cslot] = Seen(FALSE, dirtyFrame[cslot], 0)]
    /\ cpc' = "snapWhich"
    /\ UNCHANGED <<waitVars, slotVars, windowVars, attached, lastDirtyFrame, cslot>>

SnapWhich ==
    /\ At("snapWhich")
    /\ LET f == snap[cslot].frame
       IN  snap' = [snap EXCEPT ![cslot] =
                        Seen(f # lastDirtyFrame[cslot], f, presentIndex[cslot])]
    /\ IF cslot < NumWindows THEN cslot' = cslot + 1 /\ cpc' = "snapFrame"
                             ELSE cslot' = 1 /\ cpc' = "render"
    /\ UNCHANGED <<waitVars, slotVars, windowVars, attached, lastDirtyFrame>>

(* With nothing dirty and the cursor where it was, Render returns;         *)
(* otherwise it draws every attached window from the buffer it saw.        *)
Draw ==
    /\ At("render")
    /\ \/ cpc' = "consume" /\ UNCHANGED snap
       \/ /\ \A w \in Window : ~snap[w].dirty
          /\ cpc' = "wait" /\ snap' = [w \in Window |-> NoSnap]
    /\ UNCHANGED <<waitVars, slotVars, windowVars, attached, lastDirtyFrame, cslot>>

(* Mutant: the frame after the one that was drawn is acknowledged. *)
ConsumeNext ==
    /\ At("consume")
    /\ IF snap[cslot].dirty
       THEN /\ lastDirtyFrame' = [lastDirtyFrame EXCEPT ![cslot] = dirtyFrame[cslot]]
            /\ consumedFrame' = [consumedFrame EXCEPT ![cslot] = snap[cslot].frame + 1]
       ELSE UNCHANGED <<lastDirtyFrame, consumedFrame>>
    /\ snap' = [snap EXCEPT ![cslot] = NoSnap]
    /\ Advance("wait")
    /\ UNCHANGED <<waitVars, ready, presentIndex, dirtyFrame, windowVars, attached>>

(* What was rendered dirty is acknowledged.  The snapshot ends with Render.*)
Consume ==
    /\ At("consume")
    /\ IF snap[cslot].dirty
       THEN /\ lastDirtyFrame' = [lastDirtyFrame EXCEPT ![cslot] = snap[cslot].frame]
            /\ consumedFrame' = [consumedFrame EXCEPT ![cslot] = snap[cslot].frame]
       ELSE UNCHANGED <<lastDirtyFrame, consumedFrame>>
    /\ snap' = [snap EXCEPT ![cslot] = NoSnap]
    /\ Advance("wait")
    /\ UNCHANGED <<waitVars, ready, presentIndex, dirtyFrame, windowVars, attached>>

Sleep ==
    /\ At("wait")
    /\ cpc' = "update"
    /\ Wait(Compositor)
    /\ UNCHANGED <<slotVars, windowVars, attached, lastDirtyFrame, snap, cslot>>

CompositorStep ==
    UpdateSlot \/ SnapNothing \/ SnapFrame \/ SnapWhich \/ Draw \/ Consume \/ Sleep

(* InputServer::publish, when the compositor has the focus.                *)
Input ==
    /\ Notify(InputServer, Compositor)
    /\ UNCHANGED <<slotVars, windowVars, compVars>>

Next == CompositorStep \/ Input \/ \E w \in Window : WindowStep(w) \/ Crash(w)

(* The scheduler eventually runs every runnable task.  Nobody has to press *)
(* a key, to die, or to begin a frame.                                     *)
Spec ==
    /\ Init /\ [][Next]_vars
    /\ WF_vars(CompositorStep)
    /\ \A w \in Window : WF_vars(WindowStep(w) /\ wpc[w] # "idle")

-----------------------------------------------------------------------------
(* Properties *)

WindowPc == {"init", "ready", "notify", "idle", "spin", "draw", "frame"}
CompositorPc == {"update", "snapFrame", "snapWhich", "render", "consume", "wait"}
Snap == [dirty : BOOLEAN, frame : Nat, which : {0, 1}]

(* Type correctness. *)
TypeOK ==
    /\ alive \subseteq Process /\ {Compositor, InputServer} \subseteq alive
    /\ asleep \subseteq {Compositor} /\ pending \subseteq {Compositor}
    /\ ready \in [Window -> BOOLEAN] /\ attached \in [Window -> BOOLEAN]
    /\ presentIndex \in [Window -> {0, 1}] /\ m_drawIndex \in [Window -> {0, 1}]
    /\ dirtyFrame \in [Window -> Nat] /\ consumedFrame \in [Window -> Nat]
    /\ m_localFrame \in [Window -> Nat] /\ lastDirtyFrame \in [Window -> Nat]
    /\ \A w \in Window : m_localFrame[w] <= MaxFrames[w]
    /\ wpc \in [Window -> WindowPc] /\ snap \in [Window -> Snap]
    /\ cpc \in CompositorPc /\ cslot \in Window

(* While the compositor draws a new frame of a window, the window does not *)
(* draw into the buffer it is read from, wherever the switches of tasks    *)
(* fall.                                                                   *)
NewFrameIsStable ==
    \A w \in Window : snap[w].dirty /\ wpc[w] = "draw" => snap[w].which # m_drawIndex[w]

(* A window is never more than two frames ahead of the screen.             *)
AtMostTwoAhead ==
    \A w \in Window : /\ consumedFrame[w] <= dirtyFrame[w]
                      /\ m_localFrame[w] <= consumedFrame[w] + 2

(* The compositor cannot sleep through a frame of a window it shows: if it *)
(* sleeps with one not consumed, the window's notification is to come.     *)
NoForgottenFrame ==
    Compositor \in asleep =>
        \A w \in Window : attached[w] /\ wpc[w] # "notify" => lastDirtyFrame[w] = dirtyFrame[w]

(* The frames a window presents are consumed in order, none twice.         *)
FramesInOrder ==
    [][\A w \in Window : consumedFrame'[w] # consumedFrame[w] =>
            consumedFrame'[w] \in consumedFrame[w] + 1 .. dirtyFrame[w]]_vars

(* Every frame presented and announced reaches the screen, or a later one  *)
(* does, if the window is shown at all.                                    *)
FrameIsShown ==
    \A w \in Window : \A f \in 1 .. MaxFrames[w] :
        attached[w] /\ wpc[w] = "idle" /\ m_localFrame[w] = f ~> consumedFrame[w] >= f
=============================================================================
