---------------------------- MODULE InputEvents ----------------------------
(***************************************************************************)
(* The way of an event from the keyboard server to a window's program:     *)
(* the ring of the input server (programs/include/InputServer.hpp,         *)
(* InputClient.hpp), the compositor that decides which window it is for    *)
(* (PollInput, SetFocus, HitTest and UpdateSlots of Compositor.hpp), and   *)
(* the ring of the window (PushEvent, and PollInput of Window.hpp).        *)
(*                                                                         *)
(* The first ring has no back-pressure: the server writes over what was    *)
(* not read.  The second drops what it has no room for.  Three tasks, and  *)
(* a switch may come between any two accesses to what they share.  Events  *)
(* are numbered from 1 as the server makes them.                           *)
(***************************************************************************)
EXTENDS WaitNotify, Integers, Sequences, FiniteSets, SequencesExt, FiniteSetsExt

CONSTANTS
    NumWindows,         \* windows, by slot index
    Layer,              \* of each window: "background" or "normal"
    Compositor,         \* the task that asks for the focus
    InputServer,
    InputRingSize,
    MaxInputEvents,     \* MAX_INPUT_EVENTS, of a window's ring
    MaxEvents           \* bound on the model: events of the server

Window == 1 .. NumWindows

ASSUME InputAssumption ==
    /\ NumWindows \in Nat \ {0} /\ Layer \in [Window -> {"background", "normal"}]
    /\ {InputRingSize, MaxInputEvents} \subseteq Nat \ {0} /\ MaxEvents \in Nat
    /\ Compositor # InputServer /\ Process = {Compositor, InputServer}

VARIABLES
    focused,        \* focusedTaskId is the compositor's, and not 0
    writeSequence, events,                      \* the server's ring
    spc, made,      \* the server: where it is, and the event it writes
    m_lastSequence, currentSequence, seq,       \* the compositor's Poll
    cpc,            \* where the compositor is in Run
    pushes,         \* what it has yet to push, with the window it is for
    attached, zOrder, activeSlot, backgroundSlot, leftButtonWasDown,
    ready,
    inputWriteIndex, inputReadIndex, inputEvents,   \* each window's ring
    limit, r,       \* each window's PollInput: the indices w and r
    received,       \* what each window's program was handed
    raced,          \* the Poll in progress met a slot written meanwhile
    dropped         \* windows whose ring had no room for an event

server == <<writeSequence, events, spc, made>>
polling == <<m_lastSequence, currentSequence, seq>>
manager == <<attached, zOrder, activeSlot, backgroundSlot, leftButtonWasDown>>
rings == <<inputWriteIndex, inputEvents, dropped>>
programs == <<ready, inputReadIndex, limit, r, received>>
vars == <<waitVars, focused, server, cpc, pushes, polling, manager, rings, programs, raced>>

NoSlot == 0

(* A key, or the mouse with the left button up or down.  Only with the     *)
(* button down does it matter which windows the mouse is over.  What is    *)
(* half written is an event of any kind without a number.                  *)
Event(n, type, over, down) == [n |-> n, type |-> type, over |-> over, down |-> down]
Key(n) == Event(n, "key", {}, FALSE)
Mouse(n) == {Event(n, "mouse", {}, FALSE)} \cup {Event(n, "mouse", over, TRUE) : over \in SUBSET Window}
AnyEvent(n) == {Key(n)} \cup Mouse(n)
Torn == Key(0)

(* What a window is sent.                                                  *)
Sent(type, n) == [type |-> type, n |-> n]

Init ==
    /\ alive = Process /\ asleep = {} /\ pending = {}
    /\ focused = FALSE /\ writeSequence = 0
    /\ events = [i \in 0 .. InputRingSize - 1 |-> Torn]
    /\ spc = "idle" /\ made = Torn
    /\ m_lastSequence = 0 /\ currentSequence = 0 /\ seq = 0
    /\ cpc = "init" /\ pushes = <<>>
    /\ attached = {} /\ zOrder = <<>> /\ activeSlot = NoSlot /\ backgroundSlot = NoSlot
    /\ leftButtonWasDown = FALSE
    /\ ready = {}
    /\ inputWriteIndex = [w \in Window |-> 0] /\ inputReadIndex = [w \in Window |-> 0]
    /\ inputEvents = [w \in Window |-> [i \in 0 .. MaxInputEvents - 1 |-> Sent("none", 0)]]
    /\ limit = [w \in Window |-> 0] /\ r = [w \in Window |-> 0]
    /\ received = [w \in Window |-> <<>>]
    /\ raced = FALSE /\ dropped = {}

-----------------------------------------------------------------------------
(* InputServer                                                             *)

Place(n) == n % InputRingSize

(* The event before the n-th in its place is one that Poll has yet to read *)
(* or is reading.                                                          *)
Unread(n, next) == n - InputRingSize >= next

(* nextSlot and the assignments to the event it returns.                   *)
PushBegins ==
    /\ spc = "idle" /\ writeSequence < MaxEvents
    /\ made' \in AnyEvent(writeSequence + 1)
    /\ events' = [events EXCEPT ![Place(writeSequence)] = Torn]
    /\ raced' = (raced \/ (cpc \in {"handle", "push"} /\ Unread(writeSequence, seq)))
    /\ spc' = "write"
    /\ UNCHANGED <<waitVars, focused, writeSequence, cpc, pushes, polling, manager, rings, programs>>

(* publish: the event is complete, and may now be counted.                 *)
PushEnds ==
    /\ spc = "write"
    /\ events' = [events EXCEPT ![Place(writeSequence)] = made]
    /\ spc' = "publish"
    /\ UNCHANGED <<waitVars, focused, writeSequence, made, cpc, pushes, polling, manager, rings,
                   programs, raced>>

StoreSequence ==
    /\ spc = "publish"
    /\ writeSequence' = writeSequence + 1
    /\ made' = Torn
    /\ spc' = "notify"
    /\ UNCHANGED <<waitVars, focused, events, cpc, pushes, polling, manager, rings, programs, raced>>

(* Mutant: nobody is notified. *)
NotifyNobody == UNCHANGED waitVars

NotifyCompositor == Notify(InputServer, Compositor)

NotifyFocused ==
    /\ spc = "notify"
    /\ spc' = "idle"
    /\ IF focused THEN NotifyCompositor ELSE UNCHANGED waitVars
    /\ UNCHANGED <<focused, writeSequence, events, made, cpc, pushes, polling, manager, rings,
                   programs, raced>>

Server == PushBegins \/ PushEnds \/ StoreSequence \/ NotifyFocused

-----------------------------------------------------------------------------
(* Compositor: Initialize, then the loop of Run.  Render is in             *)
(* FrameExchange.                                                          *)

At(pc) == cpc = pc /\ Awake(Compositor)

(* InputClient::init.                                                      *)
InitInput ==
    /\ At("init")
    /\ m_lastSequence' = writeSequence
    /\ cpc' = "focus"
    /\ UNCHANGED <<waitVars, focused, server, currentSequence, seq, pushes, manager, rings, programs, raced>>

RequestFocus ==
    /\ At("focus")
    /\ focused' = TRUE
    /\ cpc' = "poll"
    /\ UNCHANGED <<waitVars, server, polling, pushes, manager, rings, programs, raced>>

(* Mutant: all that was missed is asked for. *)
StartAtLast(current) == m_lastSequence

(* Of more events than the ring holds, the last are read.                  *)
startSequence(current) ==
    IF current - m_lastSequence > InputRingSize THEN current - InputRingSize ELSE m_lastSequence

Poll ==
    /\ At("poll")
    /\ currentSequence' = writeSequence
    /\ seq' = startSequence(writeSequence)
    /\ cpc' = IF m_lastSequence = writeSequence THEN "update" ELSE "handle"
    /\ raced' = (raced \/ (spc \in {"write", "publish"} /\ cpc' = "handle" /\ Unread(writeSequence, seq')))
    /\ UNCHANGED <<waitVars, focused, server, m_lastSequence, pushes, manager, rings, programs>>

(* HitTest: the window in front, or else the background.                   *)
Hits(over) == {i \in DOMAIN zOrder : zOrder[i] \in over}
HitTest(over) ==
    IF Hits(over) # {} THEN zOrder[Max(Hits(over))]
    ELSE IF backgroundSlot \in over THEN backgroundSlot ELSE NoSlot

(* RaiseToFront, which leaves the background where it is.                  *)
Without(w) == SelectSeq(zOrder, LAMBDA v : v # w)
RaiseToFront(w) == IF w \in {backgroundSlot, NoSlot} THEN zOrder ELSE Append(Without(w), w)

Push(type, n, w) == IF w = NoSlot THEN <<>> ELSE <<[to |-> w, what |-> Sent(type, n)]>>

(* Mutant: the window that had the focus is not told. *)
TellNew(n, w) == Push("gained", n, w)

(* SetFocus: what the windows concerned are sent.                          *)
TellFocus(n, w) == Push("lost", n, activeSlot) \o Push("gained", n, w)

Focus(e, w) ==
    /\ activeSlot' = w
    /\ zOrder' = IF w = activeSlot THEN zOrder ELSE RaiseToFront(w)
    /\ pushes' = (IF w = activeSlot THEN <<>> ELSE TellFocus(e.n, w)) \o Push(e.type, e.n, w)

(* The callback of PollInput.                                              *)
Click(e) == e.down /\ ~leftButtonWasDown

Handle ==
    /\ At("handle")
    /\ \E e \in IF events[Place(seq)] = Torn THEN AnyEvent(0) ELSE {events[Place(seq)]} :
          IF e.type = "mouse"
          THEN /\ leftButtonWasDown' = e.down
               /\ Focus(e, IF Click(e) THEN HitTest(e.over) ELSE activeSlot)
          ELSE Focus(e, activeSlot) /\ UNCHANGED leftButtonWasDown
    /\ cpc' = "push"
    /\ UNCHANGED <<waitVars, focused, server, polling, attached, backgroundSlot, rings, programs, raced>>

(* Mutant: one more than fits. *)
HasRoomForMore(w) == inputWriteIndex[w] - inputReadIndex[w] <= MaxInputEvents

HasRoom(w) == inputWriteIndex[w] - inputReadIndex[w] < MaxInputEvents

PushEvent ==
    /\ At("push") /\ pushes # <<>>
    /\ LET w == Head(pushes).to
           i == inputWriteIndex[w] % MaxInputEvents
       IN  IF HasRoom(w)
           THEN /\ inputEvents' = [inputEvents EXCEPT ![w][i] = Head(pushes).what]
                /\ inputWriteIndex' = [inputWriteIndex EXCEPT ![w] = @ + 1]
                /\ UNCHANGED dropped
           ELSE dropped' = dropped \cup {w} /\ UNCHANGED <<inputEvents, inputWriteIndex>>
    /\ pushes' = Tail(pushes)
    /\ UNCHANGED <<waitVars, focused, server, polling, cpc, manager, programs, raced>>

NextEvent ==
    /\ At("push") /\ pushes = <<>>
    /\ seq' = seq + 1
    /\ IF seq' = currentSequence
       THEN cpc' = "update" /\ m_lastSequence' = currentSequence
       ELSE cpc' = "handle" /\ UNCHANGED m_lastSequence
    /\ UNCHANGED <<waitVars, focused, server, currentSequence, pushes, manager, rings, programs, raced>>

(* UpdateSlots: windows that are ready are mapped, which may fail, in the  *)
(* order of their slots.  The first background window is the background.   *)
Backgrounds(S) == {w \in S : Layer[w] = "background"}
NewBackground(S) ==
    IF backgroundSlot # NoSlot \/ Backgrounds(S) = {} THEN backgroundSlot ELSE Min(Backgrounds(S))

UpdateSlots ==
    /\ At("update")
    /\ \E S \in SUBSET (ready \ attached) :
          /\ attached' = attached \cup S
          /\ backgroundSlot' = NewBackground(S)
          /\ zOrder' = zOrder \o SetToSortSeq(S \ {backgroundSlot'}, <)
    /\ cpc' = "wait"
    /\ UNCHANGED <<waitVars, focused, server, polling, pushes, activeSlot, leftButtonWasDown, rings,
                   programs, raced>>

Sleep ==
    /\ At("wait")
    /\ cpc' = "poll"
    /\ Wait(Compositor)
    /\ UNCHANGED <<focused, server, polling, pushes, manager, rings, programs, raced>>

CompositorStep ==
    InitInput \/ RequestFocus \/ Poll \/ Handle \/ PushEvent \/ NextEvent \/ UpdateSlots \/ Sleep

-----------------------------------------------------------------------------
(* A window's program.  It never waits for input: it polls and yields.     *)

(* CompositorClient::init, which ends with a notification.  The task that  *)
(* sends it does not matter: the input server stands for the program.      *)
Open(w) ==
    /\ w \notin ready
    /\ ready' = ready \cup {w}
    /\ Notify(InputServer, Compositor)
    /\ UNCHANGED <<focused, server, cpc, pushes, polling, manager, rings, inputReadIndex, limit, r,
                   received, raced>>

PollInput(w) ==
    /\ r[w] = limit[w] /\ r[w] = inputReadIndex[w] /\ w \in ready
    /\ inputWriteIndex[w] # r[w]
    /\ limit' = [limit EXCEPT ![w] = inputWriteIndex[w]]
    /\ UNCHANGED <<waitVars, focused, server, cpc, pushes, polling, manager, rings, ready,
                   inputReadIndex, r, received, raced>>

ReadEvent(w) ==
    /\ r[w] # limit[w]
    /\ received' = [received EXCEPT ![w] = Append(@, inputEvents[w][r[w] % MaxInputEvents])]
    /\ r' = [r EXCEPT ![w] = @ + 1]
    /\ UNCHANGED <<waitVars, focused, server, cpc, pushes, polling, manager, rings, ready,
                   inputReadIndex, limit, raced>>

StoreReadIndex(w) ==
    /\ r[w] = limit[w] /\ r[w] # inputReadIndex[w]
    /\ inputReadIndex' = [inputReadIndex EXCEPT ![w] = r[w]]
    /\ UNCHANGED <<waitVars, focused, server, cpc, pushes, polling, manager, rings, ready, limit, r,
                   received, raced>>

Program(w) == Open(w) \/ PollInput(w) \/ ReadEvent(w) \/ StoreReadIndex(w)

Next == Server \/ CompositorStep \/ \E w \in Window : Program(w)

Spec == Init /\ [][Next]_vars

-----------------------------------------------------------------------------
(* A program is handed the events of the keyboard and the mouse intact, in *)
(* the order in which they were made and none twice, whatever was dropped  *)
(* on either way: the server may have written over events the compositor   *)
(* had not read, and a window's ring may have been full.  The exception is *)
(* the server writing to a place of the ring while the compositor, a whole *)
(* ring behind, is about to read it.                                       *)
IsInput(x) == x.type \in {"key", "mouse"}

EventsInOrder ==
    ~raced => \A w \in Window : \A j \in DOMAIN received[w] :
        IsInput(received[w][j]) =>
            /\ received[w][j].n > 0
            /\ \A i \in 1 .. j - 1 : IsInput(received[w][i]) => received[w][i].n < received[w][j].n

(* A program that has read all it was sent, of which nothing was dropped,  *)
(* knows by the focus events alone whether it has the focus.               *)
ToldOfFocus(w) ==
    \E i \in DOMAIN received[w] :
        /\ received[w][i].type = "gained"
        /\ \A j \in i + 1 .. Len(received[w]) : received[w][j].type # "lost"

FocusIsKnown ==
    \A w \in Window \ dropped :
        pushes = <<>> /\ r[w] = inputWriteIndex[w] => (ToldOfFocus(w) <=> activeSlot = w)

(* The compositor does not sleep over an event: if it sleeps and one is    *)
(* published that it has not handled, the server is about to notify it.    *)
NoForgottenInput ==
    Compositor \in asleep /\ spc # "notify" => m_lastSequence = writeSequence
=============================================================================
