------------------------- MODULE InputEventsProofs -------------------------
(***************************************************************************)
(* Proofs about InputEvents, for any rings, windows and number of events.  *)
(*                                                                         *)
(* That no input is forgotten is not inductive: it must be known where     *)
(* the compositor can be asleep (Sleeper), and what it knows of the ring   *)
(* at every point of its loop (Aware): events published since it looked    *)
(* are about to be, or have been, notified of.                             *)
(***************************************************************************)
EXTENDS InputEvents, SequenceTheorems, TLAPS

(* Only the compositor waits, at the end of its loop, after it has asked   *)
(* for the focus; a task that sleeps has nothing pending.                  *)
Sleeper ==
    /\ alive = Process /\ asleep \subseteq {Compositor} /\ asleep \cap pending = {}
    /\ cpc \in {"init", "focus", "poll", "handle", "push", "update", "wait"}
    /\ Compositor \in asleep => cpc = "poll"
    /\ cpc \notin {"init", "focus"} => focused

(* What has been published is known to the compositor, or it will be       *)
(* notified before it sleeps.                                              *)
Announced == spc = "notify" \/ Compositor \in pending

Aware ==
    /\ cpc \in {"handle", "push"} => currentSequence = writeSequence \/ Announced
    /\ cpc \in {"update", "wait"} => m_lastSequence = writeSequence \/ Announced
    /\ Compositor \in asleep => m_lastSequence = writeSequence \/ Announced

IInv == Sleeper /\ Aware

(* The initial state satisfies the inductive invariant. *)
LEMMA InitIInv == Init => IInv
BY InputAssumption DEF Init, IInv, Sleeper, Aware

(* A notification of the compositor by another task that is awake: if it   *)
(* slept it runs, otherwise one is pending.                                *)
LEMMA NotifyReaches ==
    ASSUME Sleeper, Notify(InputServer, Compositor)
    PROVE  /\ alive' = alive /\ asleep' = {} /\ asleep' \cap pending' = {}
           /\ pending \subseteq pending'
           /\ Compositor \in asleep \/ Compositor \in pending'
BY InputAssumption DEF Sleeper, Notify, Awake

(* The server's steps preserve the invariant: an event that is published   *)
(* is followed by its notification.                                        *)
LEMMA ServerIInv == IInv /\ Server => IInv'
<1> SUFFICES ASSUME IInv, Server PROVE IInv'
  OBVIOUS
<1> USE DEF IInv, Sleeper, Aware, Announced
<1>1. CASE PushBegins
  BY <1>1 DEF PushBegins, waitVars, polling
<1>2. CASE PushEnds
  BY <1>2 DEF PushEnds, waitVars, polling
<1>3. CASE StoreSequence
  BY <1>3 DEF StoreSequence, waitVars, polling
<1>4. CASE NotifyFocused
  <2>1. UNCHANGED <<focused, writeSequence, cpc, m_lastSequence, currentSequence>>
    BY <1>4 DEF NotifyFocused, polling
  <2>2. CASE focused
    BY <1>4, <2>1, <2>2, NotifyReaches DEF NotifyFocused, NotifyCompositor
  <2>3. CASE ~focused
    BY <1>4, <2>1, <2>3 DEF NotifyFocused, waitVars
  <2> QED
    BY <2>2, <2>3
<1> QED
  BY <1>1, <1>2, <1>3, <1>4 DEF Server

(* The compositor's steps preserve the invariant: it takes what is there,  *)
(* and sleeps only when nothing is pending.                                *)
LEMMA CompositorIInv == IInv /\ CompositorStep => IInv'
<1> SUFFICES ASSUME IInv, CompositorStep PROVE IInv'
  OBVIOUS
<1> USE DEF IInv, Sleeper, Aware, Announced, At, Awake, server
<1>1. CASE InitInput
  BY <1>1 DEF InitInput, waitVars
<1>2. CASE RequestFocus
  BY <1>2 DEF RequestFocus, waitVars
<1>3. CASE Poll
  BY <1>3 DEF Poll, waitVars
<1>4. CASE Handle
  BY <1>4 DEF Handle, waitVars, polling
<1>5. CASE PushEvent
  BY <1>5 DEF PushEvent, waitVars, polling
<1>6. CASE NextEvent
  BY <1>6 DEF NextEvent, waitVars
<1>7. CASE UpdateSlots
  BY <1>7 DEF UpdateSlots, waitVars, polling
<1>8. CASE Sleep
  BY <1>8 DEF Sleep, Wait, polling
<1> QED
  BY <1>1, <1>2, <1>3, <1>4, <1>5, <1>6, <1>7, <1>8 DEF CompositorStep

(* The programs' steps preserve the invariant: they touch nothing of it    *)
(* but to notify the compositor of a new window.                           *)
LEMMA ProgramIInv ==
    ASSUME IInv, NEW w \in Window, Program(w)
    PROVE  IInv'
<1> USE DEF IInv, Sleeper, Aware, Announced, server, polling
<1>1. CASE Open(w)
  <2>1. UNCHANGED <<focused, spc, writeSequence, cpc, m_lastSequence, currentSequence>>
    BY <1>1 DEF Open
  <2> QED
    BY <1>1, <2>1, NotifyReaches DEF Open
<1>2. CASE PollInput(w)
  BY <1>2 DEF PollInput, waitVars
<1>3. CASE ReadEvent(w)
  BY <1>3 DEF ReadEvent, waitVars
<1>4. CASE StoreReadIndex(w)
  BY <1>4 DEF StoreReadIndex, waitVars
<1> QED
  BY <1>1, <1>2, <1>3, <1>4 DEF Program

(* Every step preserves the invariant. *)
LEMMA NextIInv == IInv /\ [Next]_vars => IInv'
<1>1. IInv /\ UNCHANGED vars => IInv'
  BY DEF vars, waitVars, server, polling, IInv, Sleeper, Aware, Announced
<1> QED
  BY <1>1, ServerIInv, CompositorIInv, ProgramIInv DEF Next

(* The compositor never sleeps over an event of the keyboard or the mouse  *)
(* once the server has sent its notification, for rings of any size.       *)
THEOREM InputIsNotForgotten == Spec => []NoForgottenInput
<1>1. IInv => NoForgottenInput
  BY DEF IInv, Sleeper, Aware, Announced, NoForgottenInput
<1> QED
  BY <1>1, InitIInv, NextIInv, PTL DEF Spec

-----------------------------------------------------------------------------
(* What a window is sent, as one stream: its program was handed the first  *)
(* r[w] of it, and the rest is in the ring or was not yet read from it.    *)
What(w, k) == IF k < r[w] THEN received[w][k + 1] ELSE inputEvents[w][k % MaxInputEvents]

EventType == [n : Nat, type : {"key", "mouse"}, over : SUBSET Window, down : BOOLEAN]
SentType == [type : {"none", "key", "mouse", "lost", "gained"}, n : Nat]

PushesType == \E S : pushes \in Seq([to : S, what : SentType])

TypeOK ==
    /\ writeSequence \in Nat /\ m_lastSequence \in Nat /\ currentSequence \in Nat /\ seq \in Nat
    /\ events \in [0 .. InputRingSize - 1 -> EventType] /\ made \in EventType
    /\ inputEvents \in [Window -> [0 .. MaxInputEvents - 1 -> SentType]]
    /\ received \in [Window -> Seq(SentType)]
    /\ inputWriteIndex \in [Window -> Nat] /\ inputReadIndex \in [Window -> Nat]
    /\ limit \in [Window -> Nat] /\ r \in [Window -> Nat]
    /\ PushesType
    /\ spc \in {"idle", "write", "publish", "notify"}
    /\ cpc \in {"init", "focus", "poll", "handle", "push", "update", "wait"}
    /\ raced \in BOOLEAN

Indices ==
    \A w \in Window :
        /\ inputReadIndex[w] <= r[w] /\ r[w] <= limit[w] /\ limit[w] <= inputWriteIndex[w]
        /\ inputWriteIndex[w] <= inputReadIndex[w] + MaxInputEvents
        /\ Len(received[w]) = r[w]

(* The server's ring holds the last events, but for the one whose place    *)
(* the next is written to.                                                 *)
Writing == spc \in {"write", "publish"}

RingHolds ==
    /\ Writing => made.n = writeSequence + 1
    /\ spc = "publish" => events[Place(writeSequence)] = made
    /\ \A k \in Nat : /\ k < writeSequence /\ k >= writeSequence - InputRingSize
                      /\ Writing => k > writeSequence - InputRingSize
                      => events[Place(k)].n = k + 1

(* Unless there was a race, the compositor reads from those.               *)
Handling == cpc \in {"handle", "push"}

Reading ==
    /\ m_lastSequence <= writeSequence
    /\ Handling => /\ m_lastSequence <= seq /\ seq < currentSequence
                   /\ currentSequence <= writeSequence
    /\ Handling /\ ~raced => /\ seq >= writeSequence - InputRingSize
                             /\ Writing => seq > writeSequence - InputRingSize

(* The number of the last event that was handled, or is being.             *)
Handled == IF cpc = "push" THEN seq + 1 ELSE IF cpc = "handle" THEN seq ELSE m_lastSequence

Increases(w) ==
    \A k \in 0 .. inputWriteIndex[w] - 1 : IsInput(What(w, k)) =>
        /\ 0 < What(w, k).n /\ What(w, k).n <= Handled
        /\ \A l \in 0 .. k - 1 : IsInput(What(w, l)) => What(w, l).n < What(w, k).n

Comes == \E i \in DOMAIN pushes : IsInput(pushes[i].what)

Ordered ==
    /\ \A w \in Window : Increases(w)
    /\ \A i \in DOMAIN pushes : IsInput(pushes[i].what) => i = Len(pushes) /\ pushes[i].what.n = seq + 1
    /\ Comes => \A w \in Window : \A k \in 0 .. inputWriteIndex[w] - 1 :
                   IsInput(What(w, k)) => What(w, k).n <= seq

OrderInv == TypeOK /\ Indices /\ RingHolds /\ Reading /\ (cpc # "push" => pushes = <<>>)
                /\ (~raced => Ordered)

(* Whether the window has been told, or is about to be, that it has the    *)
(* focus.                                                                  *)
Told(w) == \E i \in 0 .. inputWriteIndex[w] - 1 :
              /\ What(w, i).type = "gained"
              /\ \A j \in i + 1 .. inputWriteIndex[w] - 1 : What(w, j).type # "lost"

Tells(w, type) == \E i \in DOMAIN pushes : pushes[i].to = w /\ pushes[i].what.type = type

FocusInv ==
    \A w \in Window \ dropped :
        /\ Tells(w, "gained") => activeSlot = w /\ ~Tells(w, "lost")
        /\ Tells(w, "lost") => activeSlot # w
        /\ ~Tells(w, "gained") /\ ~Tells(w, "lost") => (Told(w) <=> activeSlot = w)

LEMMA EventTypes ==
    /\ \A n \in Nat : AnyEvent(n) \subseteq EventType /\ \A e \in AnyEvent(n) : e.n = n
    /\ Torn \in EventType /\ Torn.n = 0
    /\ \A n \in Nat, t \in {"none", "key", "mouse", "lost", "gained"} :
          Sent(t, n) \in SentType /\ Sent(t, n).type = t /\ Sent(t, n).n = n
<1>1. \A n \in Nat : Key(n) \in EventType /\ Key(n).n = n
  BY DEF Key, Event, EventType
<1>2. \A n \in Nat : \A e \in Mouse(n) : e \in EventType /\ e.n = n
  <2>1. \A n \in Nat, d \in BOOLEAN, over \in SUBSET Window :
            Event(n, "mouse", over, d) \in EventType /\ Event(n, "mouse", over, d).n = n
    BY DEF Event, EventType
  <2>2. {} \in SUBSET Window
    OBVIOUS
  <2> QED BY <2>1, <2>2 DEF Mouse
<1>3. \A n \in Nat, t \in {"none", "key", "mouse", "lost", "gained"} :
          Sent(t, n) \in SentType /\ Sent(t, n).type = t /\ Sent(t, n).n = n
  BY DEF Sent, SentType
<1> QED BY <1>1, <1>2, <1>3 DEF AnyEvent, Torn

LEMMA PlaceType == \A n \in Nat : Place(n) \in 0 .. InputRingSize - 1
  BY InputAssumption DEF Place

LEMMA RingIndex == \A n \in Nat : n % MaxInputEvents \in 0 .. MaxInputEvents - 1
  BY InputAssumption

(* Short sequences, put together.                                          *)
LEMMA TwoInARow ==
    ASSUME NEW S, NEW a \in S, NEW b \in S
    PROVE  <<a>> \o <<b>> = <<a, b>>
<1>1. <<a>> \in Seq(S) /\ <<b>> \in Seq(S) /\ <<a,b>> \in Seq(S)
  OBVIOUS
<1> DEFINE s == <<a>> \o <<b>>
           t == <<a, b>>
<1>2. s \in Seq(S) /\ Len(s) = 2 /\ s[1] = a /\ s[2] = b
  BY <1>1, ConcatProperties
<1>3. t \in Seq(S) /\ Len(t) = 2 /\ t[1] = a /\ t[2] = b
  OBVIOUS
<1>4. \A i \in 1 .. 2 : s[i] = t[i]
  BY <1>2, <1>3
<1> HIDE DEF s, t
<1>5. s = t
  BY <1>2, <1>3, <1>4, SeqEqual
<1> QED BY <1>5 DEF s, t

LEMMA ThreeInARow ==
    ASSUME NEW S, NEW a \in S, NEW b \in S, NEW c \in S
    PROVE  <<a, b>> \o <<c>> = <<a, b, c>>
<1>1. <<a, b>> \in Seq(S) /\ <<c>> \in Seq(S)
  OBVIOUS
<1> DEFINE s == <<a, b>> \o <<c>>
           t == <<a, b, c>>
<1>2. s \in Seq(S) /\ Len(s) = 3 /\ s[1] = a /\ s[2] = b /\ s[3] = c
  BY <1>1, ConcatProperties
<1>3. t \in Seq(S) /\ Len(t) = 3 /\ t[1] = a /\ t[2] = b /\ t[3] = c
  OBVIOUS
<1>4. \A i \in 1 .. 3 : s[i] = t[i]
  BY <1>2, <1>3
<1> HIDE DEF s, t
<1>5. s = t
  BY <1>2, <1>3, <1>4, SeqEqual
<1> QED BY <1>5 DEF s, t

(* What the windows are sent when one gets the focus: the old one that it  *)
(* lost it, the new one that it has it, and at last the event.             *)
LEMMA FocusTells ==
    ASSUME NEW e \in EventType, NEW w, Focus(e, w)
    PROVE  /\ activeSlot' = w
           /\ pushes' \in Seq([to : {activeSlot, w}, what : SentType])
           /\ \A i \in DOMAIN pushes' :
                 \/ pushes'[i].what.type = "lost" /\ pushes'[i].to = activeSlot /\ activeSlot # w
                 \/ pushes'[i].what.type = "gained" /\ pushes'[i].to = w /\ activeSlot # w
                 \/ IsInput(pushes'[i].what) /\ pushes'[i].what.n = e.n /\ i = Len(pushes')
           /\ activeSlot \notin {w, NoSlot} =>
                 \E i \in DOMAIN pushes' : pushes'[i].to = activeSlot /\ pushes'[i].what.type = "lost"
           /\ w \notin {activeSlot, NoSlot} =>
                 \E i \in DOMAIN pushes' : pushes'[i].to = w /\ pushes'[i].what.type = "gained"
<1> DEFINE lost == [to |-> activeSlot, what |-> Sent("lost", e.n)]
           gained == [to |-> w, what |-> Sent("gained", e.n)]
           own == [to |-> w, what |-> Sent(e.type, e.n)]
           T == [to : {activeSlot, w}, what : SentType]
<1>1. e.n \in Nat /\ e.type \in {"key", "mouse"}
  BY DEF EventType
<1>2. /\ lost \in T /\ lost.to = activeSlot /\ lost.what.type = "lost"
      /\ gained \in T /\ gained.to = w /\ gained.what.type = "gained"
      /\ own \in T /\ own.to = w /\ own.what.type = e.type /\ own.what.n = e.n
  BY <1>1, EventTypes
<1>3. /\ activeSlot' = w
      /\ pushes' = (IF w = activeSlot THEN <<>>
                    ELSE (IF activeSlot = NoSlot THEN <<>> ELSE <<lost>>)
                         \o (IF w = NoSlot THEN <<>> ELSE <<gained>>))
                   \o (IF w = NoSlot THEN <<>> ELSE <<own>>)
  BY DEF Focus, TellFocus, Push
<1> HIDE DEF lost, gained, own, T
<1>4. CASE w = activeSlot /\ w = NoSlot
  <2>1. pushes' = <<>>
    BY <1>3, <1>4
  <2> QED BY <1>3, <1>4, <2>1
<1>5. CASE w = activeSlot /\ w # NoSlot
  <2>1. pushes' = <<own>>
    BY <1>3, <1>5
  <2>2. pushes' \in Seq(T) /\ DOMAIN pushes' = {1} /\ pushes'[1] = own /\ Len(pushes') = 1
    BY <1>2, <2>1
  <2> QED BY <1>1, <1>2, <1>3, <1>5, <2>2 DEF IsInput, T
<1>6. CASE w # activeSlot /\ activeSlot = NoSlot
  <2>1. pushes' = <<gained, own>>
    <3>1. pushes' = (<<>> \o <<gained>>) \o <<own>>
      BY <1>3, <1>6
    <3>2. <<>> \o <<gained>> = <<gained>>
      OBVIOUS
    <3>3. <<gained>> \o <<own>> = <<gained, own>>
      BY <1>2, TwoInARow
    <3> QED BY <3>1, <3>2, <3>3
  <2>2. pushes' \in Seq(T) /\ DOMAIN pushes' = {1, 2} /\ pushes'[1] = gained /\ pushes'[2] = own /\ Len(pushes') = 2
    BY <1>2, <2>1
  <2>3. \A i \in DOMAIN pushes' : i = 1 \/ i = 2
    BY <2>2
  <2>4. IsInput(own.what) /\ activeSlot # w
    BY <1>1, <1>2, <1>6 DEF IsInput
  <2>5. \E i \in DOMAIN pushes' : pushes'[i] = gained
    BY <2>2
  <2>6. \A i \in DOMAIN pushes' :
            \/ pushes'[i].what.type = "gained" /\ pushes'[i].to = w /\ activeSlot # w
            \/ IsInput(pushes'[i].what) /\ pushes'[i].what.n = e.n /\ i = Len(pushes')
    BY <1>2, <2>2, <2>3, <2>4
  <2> QED BY <1>2, <1>3, <1>6, <2>2, <2>5, <2>6 DEF T
<1>7. CASE w # activeSlot /\ activeSlot # NoSlot /\ w = NoSlot
  <2>1. pushes' = <<lost>>
    BY <1>2, <1>3, <1>7
  <2>2. pushes' \in Seq(T) /\ DOMAIN pushes' = {1} /\ pushes'[1] = lost /\ Len(pushes') = 1
    BY <1>2, <2>1
  <2> QED BY <1>1, <1>2, <1>3, <1>7, <2>2 DEF IsInput, T
<1>8. CASE w # activeSlot /\ activeSlot # NoSlot /\ w # NoSlot
  <2>1. pushes' = <<lost, gained, own>>
    <3>1. pushes' = (<<lost>> \o <<gained>>) \o <<own>>
      BY <1>3, <1>8
    <3>2. <<lost>> \o <<gained>> = <<lost, gained>>
      BY <1>2, TwoInARow
    <3>3. <<lost, gained>> \o <<own>> = <<lost, gained, own>>
      BY <1>2, ThreeInARow
    <3> QED BY <3>1, <3>2, <3>3
  <2>2. /\ pushes' \in Seq(T) /\ DOMAIN pushes' = {1, 2, 3} /\ Len(pushes') = 3
        /\ pushes'[1] = lost /\ pushes'[2] = gained /\ pushes'[3] = own
    BY <1>2, <2>1
  <2>3. \A i \in DOMAIN pushes' : i = 1 \/ i = 2 \/ i = 3
    BY <2>2
  <2>4. IsInput(own.what) /\ activeSlot # w
    BY <1>1, <1>2, <1>8 DEF IsInput
  <2>5. (\E i \in DOMAIN pushes' : pushes'[i] = lost) /\ (\E i \in DOMAIN pushes' : pushes'[i] = gained)
    BY <2>2
  <2>6. \A i \in DOMAIN pushes' :
            \/ pushes'[i].what.type = "lost" /\ pushes'[i].to = activeSlot /\ activeSlot # w
            \/ pushes'[i].what.type = "gained" /\ pushes'[i].to = w /\ activeSlot # w
            \/ IsInput(pushes'[i].what) /\ pushes'[i].what.n = e.n /\ i = Len(pushes')
    BY <1>2, <2>2, <2>3, <2>4
  <2> QED BY <1>2, <1>3, <1>8, <2>2, <2>5, <2>6 DEF T
<1> QED BY <1>4, <1>5, <1>6, <1>7, <1>8

(* What Handle does, whichever event it reads.                             *)
LEMMA HandleTells ==
    ASSUME TypeOK, Handle
    PROVE  \E e, w :
              /\ e \in EventType /\ Focus(e, w)
              /\ events[Place(seq)].n # 0 => e = events[Place(seq)]
<1>1. events[Place(seq)] \in EventType
  BY PlaceType DEF TypeOK
<1>2. PICK e \in IF events[Place(seq)] = Torn THEN AnyEvent(0) ELSE {events[Place(seq)]} :
          \E w : Focus(e, w)
  BY DEF Handle
<1>3. e \in EventType
  BY <1>1, <1>2, EventTypes
<1> QED BY <1>2, <1>3, EventTypes

-----------------------------------------------------------------------------
LEMMA TypeInit == Init => TypeOK
<1> SUFFICES ASSUME Init PROVE TypeOK
  OBVIOUS
<1>1. Torn \in EventType
  BY EventTypes
<1>2. Sent("none", 0) \in SentType
  BY EventTypes
<1>3. pushes \in Seq([to : {}, what : SentType])
  BY DEF Init
<1>4. events \in [0 .. InputRingSize - 1 -> EventType] /\ made \in EventType
  BY <1>1 DEF Init
<1>5. inputEvents \in [Window -> [0 .. MaxInputEvents - 1 -> SentType]]
  BY <1>2 DEF Init
<1>6. /\ received \in [Window -> Seq(SentType)]
      /\ inputWriteIndex \in [Window -> Nat] /\ inputReadIndex \in [Window -> Nat]
      /\ limit \in [Window -> Nat] /\ r \in [Window -> Nat]
  BY DEF Init
<1> QED BY <1>3, <1>4, <1>5, <1>6 DEF Init, TypeOK, PushesType

(* Which windows are mapped is of no concern to what is under way.         *)
LEMMA UpdateKeeps ==
    UpdateSlots => /\ UNCHANGED <<server, polling, pushes, activeSlot, rings, programs, raced>>
                   /\ cpc = "update" /\ cpc' = "wait"
  BY Zenon DEF UpdateSlots, At

(* The head and the tail of what there is to push are typed.               *)
LEMMA PushTypes ==
    ASSUME TypeOK, pushes # <<>>
    PROVE  /\ Head(pushes).what \in SentType /\ Head(pushes) = pushes[1]
           /\ \E S : Tail(pushes) \in Seq([to : S, what : SentType])
           /\ Len(Tail(pushes)) = Len(pushes) - 1 /\ Len(pushes) \in Nat /\ Len(pushes) > 0
           /\ DOMAIN Tail(pushes) = 1 .. Len(pushes) - 1 /\ DOMAIN pushes = 1 .. Len(pushes)
           /\ \A i \in 1 .. Len(pushes) - 1 : Tail(pushes)[i] = pushes[i + 1]
<1>1. PICK S : pushes \in Seq([to : S, what : SentType])
  BY DEF TypeOK, PushesType
<1> DEFINE T == [to : S, what : SentType]
<1>2. \A t \in T : t.what \in SentType
  OBVIOUS
<1> HIDE DEF T
<1>3. pushes \in Seq(T) /\ pushes # <<>>
  BY <1>1 DEF T
<1>4. /\ Head(pushes) \in T /\ Head(pushes) = pushes[1] /\ Tail(pushes) \in Seq(T)
      /\ Len(Tail(pushes)) = Len(pushes) - 1 /\ Len(pushes) \in Nat /\ Len(pushes) > 0
      /\ DOMAIN pushes = 1 .. Len(pushes)
      /\ \A i \in 1 .. Len(pushes) - 1 : Tail(pushes)[i] = pushes[i + 1]
  BY <1>3, HeadTailProperties, LenProperties, EmptySeq
<1>5. DOMAIN Tail(pushes) = 1 .. Len(Tail(pushes))
  BY <1>4, LenProperties
<1> QED BY <1>2, <1>4, <1>5 DEF T

LEMMA TypeNext == ASSUME TypeOK, [Next]_vars PROVE TypeOK'
<1> USE DEF TypeOK
<1>0. UNCHANGED pushes => PushesType'
  BY DEF PushesType
<1>1. CASE UNCHANGED vars
  BY <1>0, <1>1 DEF vars, server, polling, rings, programs
<1>2. CASE PushBegins
  <2>1. made' \in EventType /\ Torn \in EventType
    BY <1>2, EventTypes DEF PushBegins
  <2>2. events' \in [0 .. InputRingSize - 1 -> EventType]
    BY <1>2, <2>1 DEF PushBegins
  <2> QED BY <1>0, <1>2, <2>1, <2>2 DEF PushBegins, polling, rings, programs
<1>3. CASE PushEnds
  BY <1>0, <1>3 DEF PushEnds, polling, rings, programs
<1>4. CASE StoreSequence
  <2>1. made' \in EventType
    BY <1>4, EventTypes DEF StoreSequence
  <2> QED BY <1>0, <1>4, <2>1 DEF StoreSequence, polling, rings, programs
<1>5. CASE NotifyFocused
  BY <1>0, <1>5 DEF NotifyFocused, polling, rings, programs
<1>6. CASE InitInput
  BY <1>0, <1>6 DEF InitInput, server, rings, programs
<1>7. CASE RequestFocus
  BY <1>0, <1>7 DEF RequestFocus, server, polling, rings, programs
<1>8. CASE Poll
  <2>1. startSequence(writeSequence) \in Nat
    BY InputAssumption DEF startSequence
  <2> QED BY <1>0, <1>8, <2>1 DEF Poll, server, rings, programs
<1>9. CASE Handle
  <2>1. PICK e, w : e \in EventType /\ Focus(e, w)
    BY <1>9, HandleTells
  <2>2. PushesType'
    BY <2>1, FocusTells DEF PushesType
  <2> QED BY <1>0, <1>9, <2>2 DEF Handle, server, polling, rings, programs
<1>10. CASE PushEvent
  <2>1. /\ Head(pushes).what \in SentType
        /\ PushesType'
    BY <1>10, PushTypes DEF PushEvent, PushesType
  <2> DEFINE w == Head(pushes).to
             ring == [inputEvents EXCEPT ![w][inputWriteIndex[w] % MaxInputEvents] = Head(pushes).what]
             index == [inputWriteIndex EXCEPT ![w] = @ + 1]
  <2>2. /\ ring \in [Window -> [0 .. MaxInputEvents - 1 -> SentType]]
        /\ index \in [Window -> Nat]
    <3> HIDE DEF TypeOK
    <3>1. /\ inputEvents \in [Window -> [0 .. MaxInputEvents - 1 -> SentType]]
          /\ inputWriteIndex \in [Window -> Nat]
      BY DEF TypeOK
    <3>2. w \in Window => inputWriteIndex[w] % MaxInputEvents \in 0 .. MaxInputEvents - 1
      BY <3>1, RingIndex
    <3>3. CASE w \in Window
      BY <2>1, <3>1, <3>2, <3>3
    <3>4. CASE w \notin Window
      BY <3>1, <3>4
    <3> QED BY <3>3, <3>4
  <2>3. \/ inputEvents' = ring /\ inputWriteIndex' = index
        \/ UNCHANGED <<inputEvents, inputWriteIndex>>
    BY <1>10 DEF PushEvent
  <2> HIDE DEF ring, index
  <2> QED BY <1>0, <1>10, <2>1, <2>2, <2>3 DEF PushEvent, server, polling, programs
<1>11. CASE NextEvent
  BY <1>0, <1>11 DEF NextEvent, server, rings, programs
<1>12. CASE UpdateSlots
  BY <1>0, <1>12, UpdateKeeps DEF server, polling, rings, programs
<1>13. CASE Sleep
  BY <1>0, <1>13 DEF Sleep, server, polling, rings, programs
<1>14. ASSUME NEW w \in Window, Program(w) PROVE TypeOK'
  <2>1. CASE Open(w)
    BY <1>0, <2>1 DEF Open, server, polling, rings
  <2>2. CASE PollInput(w)
    BY <1>0, <2>2 DEF PollInput, server, polling, rings
  <2>3. CASE ReadEvent(w)
    <3>1. inputEvents[w][r[w] % MaxInputEvents] \in SentType
      BY RingIndex
    <3>2. received' \in [Window -> Seq(SentType)]
      <4> DEFINE x == inputEvents[w][r[w] % MaxInputEvents]
      <4>1. received' = [received EXCEPT ![w] = Append(received[w], x)]
        BY <2>3 DEF ReadEvent
      <4> HIDE DEF x
      <4>2. Append(received[w], x) \in Seq(SentType)
        BY <3>1, AppendProperties DEF x
      <4> QED BY <4>1, <4>2
    <3>3. r' \in [Window -> Nat]
      BY <2>3 DEF ReadEvent
    <3> QED BY <1>0, <2>3, <3>2, <3>3 DEF ReadEvent, server, polling, rings
  <2>4. CASE StoreReadIndex(w)
    BY <1>0, <2>4 DEF StoreReadIndex, server, polling, rings
  <2> QED BY <1>14, <2>1, <2>2, <2>3, <2>4 DEF Program
<1> QED BY <1>1, <1>2, <1>3, <1>4, <1>5, <1>6, <1>7, <1>8, <1>9, <1>10, <1>11, <1>12, <1>13, <1>14
    DEF Next, Server, CompositorStep

-----------------------------------------------------------------------------
LEMMA Multiple == \A m \in Nat, k \in Int : k >= 1 => m * k >= m
  OBVIOUS

(* Numbers less than m apart have different remainders modulo m.           *)
LEMMA ModDistinct == \A m \in Nat \ {0}, a, b \in Nat : a < b /\ b < a + m => a % m # b % m
<1> SUFFICES ASSUME NEW m \in Nat \ {0}, NEW a \in Nat, NEW b \in Nat,
                    a < b, b < a + m, a % m = b % m
             PROVE  FALSE
  OBVIOUS
<1> DEFINE p == a \div m
           q == b \div m
           k == q - p
<1>1. a = m * p + (a % m) /\ p \in Int /\ (a % m) \in Int
  OBVIOUS
<1>2. b = m * q + (b % m) /\ q \in Int
  OBVIOUS
<1> HIDE DEF p, q
<1>3. b - a = m * q - m * p
  BY <1>1, <1>2
<1>4. m * q - m * p = m * k /\ k \in Int
  BY <1>1, <1>2
<1> HIDE DEF k
<1>5. CASE k >= 1
  BY <1>3, <1>4, <1>5, Multiple
<1>6. CASE k < 1
  <2>1. m * k <= 0
    BY <1>4, <1>6
  <2> QED BY <1>3, <1>4, <2>1
<1> QED BY <1>4, <1>5, <1>6

(* A program reads what has been written and no more, and of a ring no     *)
(* more is written than fits.                                              *)
LEMMA IndicesInit == Init => Indices
  BY InputAssumption DEF Init, Indices

LEMMA IndicesNext == ASSUME TypeOK, Indices, [Next]_vars PROVE Indices'
<1> USE DEF Indices
<1>0. /\ received \in [Window -> Seq(SentType)]
      /\ inputWriteIndex \in [Window -> Nat] /\ inputReadIndex \in [Window -> Nat]
      /\ limit \in [Window -> Nat] /\ r \in [Window -> Nat] /\ MaxInputEvents \in Nat
  BY InputAssumption DEF TypeOK
<1>1. CASE UNCHANGED <<rings, programs>>
  BY <1>1 DEF rings, programs
<1>2. CASE PushEvent
  <2>1. CASE HasRoom(Head(pushes).to) /\ Head(pushes).to \in Window
    <3> DEFINE w == Head(pushes).to
    <3>1. inputWriteIndex' = [inputWriteIndex EXCEPT ![w] = @ + 1]
      BY <1>2, <2>1 DEF PushEvent
    <3>2. UNCHANGED <<inputReadIndex, limit, r, received>>
      BY <1>2 DEF PushEvent, programs
    <3>3. inputWriteIndex[w] - inputReadIndex[w] < MaxInputEvents
      BY <2>1 DEF HasRoom
    <3> HIDE DEF w
    <3> QED BY <1>0, <3>1, <3>2, <3>3
  <2>2. CASE ~(HasRoom(Head(pushes).to) /\ Head(pushes).to \in Window)
    <3>1. inputWriteIndex' = inputWriteIndex
      BY <1>0, <1>2, <2>2 DEF PushEvent
    <3> QED BY <1>2, <3>1 DEF PushEvent, programs
  <2> QED BY <2>1, <2>2
<1>3. ASSUME NEW w \in Window, Program(w) PROVE Indices'
  <2>1. CASE Open(w)
    BY <2>1 DEF Open, rings
  <2>2. CASE PollInput(w)
    BY <1>0, <2>2 DEF PollInput, rings
  <2>3. CASE ReadEvent(w)
    <3> DEFINE x == inputEvents[w][r[w] % MaxInputEvents]
    <3>1. received' = [received EXCEPT ![w] = Append(received[w], x)]
      BY <2>3 DEF ReadEvent
    <3>2. r' = [r EXCEPT ![w] = @ + 1] /\ r[w] # limit[w]
      BY <2>3 DEF ReadEvent
    <3>3. UNCHANGED <<inputWriteIndex, inputReadIndex, limit>>
      BY <2>3 DEF ReadEvent, rings
    <3>4. x \in SentType
      BY RingIndex DEF TypeOK
    <3> HIDE DEF x
    <3>5. Len(Append(received[w], x)) = Len(received[w]) + 1
      BY <1>0, <3>4, AppendProperties
    <3> QED BY <1>0, <3>1, <3>2, <3>3, <3>5
  <2>4. CASE StoreReadIndex(w)
    BY <1>0, <2>4 DEF StoreReadIndex, rings
  <2> QED BY <1>3, <2>1, <2>2, <2>3, <2>4 DEF Program
<1>4. Server => UNCHANGED <<rings, programs>>
  BY DEF Server, PushBegins, PushEnds, StoreSequence, NotifyFocused
<1>5. CompositorStep => PushEvent \/ UNCHANGED <<rings, programs>>
  BY UpdateKeeps DEF CompositorStep, InitInput, RequestFocus, Poll, Handle, NextEvent, Sleep
<1>6. UNCHANGED vars => UNCHANGED <<rings, programs>>
  BY DEF vars
<1> QED BY <1>1, <1>2, <1>3, <1>4, <1>5, <1>6 DEF Next

-----------------------------------------------------------------------------
LEMMA RingInit == Init => RingHolds /\ Reading
  BY DEF Init, RingHolds, Reading, Writing, Handling

LEMMA PlacesApart ==
    \A k, n \in Nat : k < n /\ n < k + InputRingSize => Place(k) # Place(n)
  BY InputAssumption, ModDistinct DEF Place

(* Only the server writes to its ring, and to the place of the event it    *)
(* is about to publish.                                                    *)
LEMMA RingNext == ASSUME TypeOK, RingHolds, [Next]_vars PROVE RingHolds'
<1> USE DEF RingHolds, Writing
<1>0. /\ writeSequence \in Nat /\ InputRingSize \in Nat \ {0} /\ made \in EventType
      /\ events \in [0 .. InputRingSize - 1 -> EventType]
      /\ \A k \in Nat : Place(k) \in 0 .. InputRingSize - 1
  BY InputAssumption, PlaceType DEF TypeOK
<1>1. CASE UNCHANGED server
  BY <1>1 DEF server, Place
<1>2. \A k \in Nat : k < writeSequence /\ k > writeSequence - InputRingSize
                        => Place(k) # Place(writeSequence)
  BY <1>0, PlacesApart
<1>3. CASE PushBegins
  <2>1. /\ spc = "idle" /\ spc' = "write" /\ writeSequence' = writeSequence
        /\ made'.n = writeSequence + 1
        /\ events' = [events EXCEPT ![Place(writeSequence)] = Torn]
    BY <1>0, <1>3, EventTypes, SMTT(30) DEF PushBegins
  <2>2. \A k \in Nat : k < writeSequence /\ k > writeSequence - InputRingSize
                          => events'[Place(k)] = events[Place(k)]
    BY <1>0, <1>2, <2>1
  <2>3. \A k \in Nat : k < writeSequence /\ k > writeSequence - InputRingSize
                          => events[Place(k)].n = k + 1
    <3> SUFFICES ASSUME NEW k \in Nat, k < writeSequence, k > writeSequence - InputRingSize
                 PROVE  events[Place(k)].n = k + 1
      OBVIOUS
    <3>1. k >= writeSequence - InputRingSize
      BY <1>0
    <3> HIDE DEF Writing
    <3> QED BY <2>1, <3>1 DEF Writing
  <2> QED BY <1>0, <2>1, <2>2, <2>3 DEF Place
<1>4. CASE PushEnds
  <2>1. /\ spc = "write" /\ spc' = "publish" /\ UNCHANGED <<writeSequence, made>>
        /\ events' = [events EXCEPT ![Place(writeSequence)] = made]
    BY <1>4 DEF PushEnds
  <2>2. \A k \in Nat : k < writeSequence /\ k > writeSequence - InputRingSize
                          => events'[Place(k)] = events[Place(k)]
    BY <1>0, <1>2, <2>1
  <2> QED BY <1>0, <2>1, <2>2 DEF Place
<1>5. CASE StoreSequence
  <2>1. /\ spc = "publish" /\ spc' = "notify" /\ writeSequence' = writeSequence + 1
        /\ events' = events
    BY <1>5 DEF StoreSequence
  <2>2. events[Place(writeSequence)].n = writeSequence + 1
    BY <2>1
  <2>3. \A k \in Nat : k < writeSequence + 1 /\ k >= writeSequence + 1 - InputRingSize
                          => events[Place(k)].n = k + 1
    <3> SUFFICES ASSUME NEW k \in Nat, k < writeSequence + 1, k >= writeSequence + 1 - InputRingSize
                 PROVE  events[Place(k)].n = k + 1
      OBVIOUS
    <3>1. CASE k = writeSequence
      BY <2>2, <3>1
    <3>2. CASE k < writeSequence
      <4>1. k >= writeSequence - InputRingSize /\ k > writeSequence - InputRingSize
        BY <1>0
      <4> QED BY <3>2, <4>1
    <3> QED BY <1>0, <3>1, <3>2
  <2> QED BY <1>0, <2>1, <2>3 DEF Place
<1>6. CASE NotifyFocused
  BY <1>0, <1>6 DEF NotifyFocused, Place
<1>7. CompositorStep => UNCHANGED server
  BY UpdateKeeps DEF CompositorStep, InitInput, RequestFocus, Poll, Handle, PushEvent, NextEvent, Sleep
<1>8. \A w \in Window : Program(w) => UNCHANGED server
  BY DEF Program, Open, PollInput, ReadEvent, StoreReadIndex
<1>9. UNCHANGED vars => UNCHANGED server
  BY DEF vars
<1> QED BY <1>1, <1>3, <1>4, <1>5, <1>6, <1>7, <1>8, <1>9 DEF Next, Server

(* The compositor reads of the server's ring what is still there, or it    *)
(* is a race.                                                              *)
LEMMA ReadingNext == ASSUME TypeOK, Reading, [Next]_vars PROVE Reading'
<1> USE DEF Reading, Writing, Handling
<1>0. /\ writeSequence \in Nat /\ InputRingSize \in Nat \ {0} /\ seq \in Nat
      /\ m_lastSequence \in Nat /\ currentSequence \in Nat /\ raced \in BOOLEAN
  BY InputAssumption DEF TypeOK
<1>1. CASE UNCHANGED <<server, polling, cpc, raced>>
  BY <1>1 DEF server, polling
<1>2. CASE PushBegins
  <2>1. ~raced' => ~raced /\ (Handling => ~Unread(writeSequence, seq))
    BY <1>2 DEF PushBegins
  <2>2. UNCHANGED <<writeSequence, cpc, m_lastSequence, currentSequence, seq>>
    BY <1>2 DEF PushBegins, polling
  <2> QED BY <1>0, <2>1, <2>2 DEF Unread
<1>3. CASE PushEnds
  BY <1>0, <1>3 DEF PushEnds, polling
<1>4. CASE StoreSequence
  <2>1. /\ spc = "publish" /\ spc' = "notify" /\ writeSequence' = writeSequence + 1
        /\ UNCHANGED <<cpc, m_lastSequence, currentSequence, seq, raced>>
    BY <1>4 DEF StoreSequence, polling
  <2> QED BY <1>0, <2>1
<1>5. CASE NotifyFocused
  BY <1>0, <1>5 DEF NotifyFocused, polling
<1>6. CASE InitInput
  BY <1>0, <1>6 DEF InitInput, server, At
<1>7. CASE RequestFocus
  BY <1>0, <1>7 DEF RequestFocus, server, polling, At
<1>8. CASE Poll
  <2> DEFINE first == startSequence(writeSequence)
  <2>1. /\ first \in Nat /\ m_lastSequence <= first /\ first >= writeSequence - InputRingSize
        /\ m_lastSequence # writeSequence => first < writeSequence
    BY <1>0 DEF startSequence
  <2> HIDE DEF first
  <2>2. /\ seq' = first /\ currentSequence' = writeSequence
        /\ UNCHANGED <<writeSequence, spc, m_lastSequence>>
        /\ cpc' = IF m_lastSequence = writeSequence THEN "update" ELSE "handle"
        /\ ~raced' => ~raced /\ (Writing /\ cpc' = "handle" => ~Unread(writeSequence, first))
    BY <1>8 DEF Poll, server, first
  <2> QED BY <1>0, <2>1, <2>2 DEF Unread
<1>9. CASE Handle
  BY <1>0, <1>9 DEF Handle, server, polling, At
<1>10. CASE PushEvent
  BY <1>0, <1>10 DEF PushEvent, server, polling
<1>11. CASE NextEvent
  BY <1>0, <1>11 DEF NextEvent, server, At
<1>12. CASE UpdateSlots
  BY <1>0, <1>12, UpdateKeeps DEF server, polling
<1>13. CASE Sleep
  BY <1>0, <1>13 DEF Sleep, server, polling, At
<1>14. \A w \in Window : Program(w) => UNCHANGED <<server, polling, cpc, raced>>
  BY DEF Program, Open, PollInput, ReadEvent, StoreReadIndex
<1>15. UNCHANGED vars => UNCHANGED <<server, polling, cpc, raced>>
  BY DEF vars
<1> QED BY <1>1, <1>2, <1>3, <1>4, <1>5, <1>6, <1>7, <1>8, <1>9, <1>10, <1>11, <1>12, <1>13, <1>14, <1>15
    DEF Next, Server, CompositorStep

(* What the compositor handles, when there was no race, is the event it    *)
(* means to.                                                               *)
LEMMA HandlesNext ==
    ASSUME TypeOK, RingHolds, Reading, Handle, ~raced
    PROVE  events[Place(seq)].n = seq + 1
<1>1. /\ writeSequence \in Nat /\ InputRingSize \in Nat \ {0} /\ seq \in Nat
      /\ currentSequence \in Nat
  BY InputAssumption DEF TypeOK
<1>2. Handling
  BY DEF Handle, Handling, At
<1>3. /\ seq < writeSequence /\ seq >= writeSequence - InputRingSize
      /\ Writing => seq > writeSequence - InputRingSize
  BY <1>1, <1>2 DEF Reading
<1> QED BY <1>1, <1>3 DEF RingHolds

(* There is something to push only after an event was handled.             *)
LEMMA NothingToPush ==
    ASSUME cpc # "push" => pushes = <<>>, [Next]_vars
    PROVE  (cpc # "push" => pushes = <<>>)'
<1>1. CASE UNCHANGED <<pushes, cpc>>
  BY <1>1
<1>2. Server => UNCHANGED <<pushes, cpc>>
  BY DEF Server, PushBegins, PushEnds, StoreSequence, NotifyFocused
<1>3. CASE CompositorStep
  <2>1. Handle => cpc' = "push"
    BY DEF Handle
  <2>2. PushEvent => cpc' = "push"
    BY DEF PushEvent, At
  <2>3. ~Handle /\ ~PushEvent => UNCHANGED pushes /\ (cpc = "push" => pushes = <<>>)
    BY <1>3, UpdateKeeps DEF CompositorStep, InitInput, RequestFocus, Poll, NextEvent, Sleep, At
  <2> QED BY <2>1, <2>2, <2>3
<1>4. \A w \in Window : Program(w) => UNCHANGED <<pushes, cpc>>
  BY DEF Program, Open, PollInput, ReadEvent, StoreReadIndex
<1>5. UNCHANGED vars => UNCHANGED <<pushes, cpc>>
  BY DEF vars
<1> QED BY <1>1, <1>2, <1>3, <1>4, <1>5 DEF Next

-----------------------------------------------------------------------------
(* What a window was sent stays what it was, whether it lies in the ring   *)
(* or its program has read it.                                             *)
Kept(w) == inputWriteIndex'[w] = inputWriteIndex[w]
Same(w) == \A k \in 0 .. inputWriteIndex[w] - 1 : What(w, k)' = What(w, k)

(* The stream of a window gets what is pushed to it at its end.            *)
Grows(w) ==
    /\ PushEvent /\ pushes # <<>> /\ Head(pushes).to = w
    /\ inputWriteIndex'[w] = inputWriteIndex[w] + 1
    /\ \A k \in Nat : k = inputWriteIndex[w] => What(w, k)' = Head(pushes).what

LEMMA StreamRead ==
    ASSUME TypeOK, Indices, NEW v \in Window, ReadEvent(v), NEW w \in Window
    PROVE  Kept(w) /\ Same(w)
<1>a. /\ received \in [Window -> Seq(SentType)] /\ MaxInputEvents \in Nat \ {0}
      /\ inputWriteIndex \in [Window -> Nat] /\ r \in [Window -> Nat] /\ limit \in [Window -> Nat]
  BY InputAssumption DEF TypeOK
<1>b. Len(received[v]) = r[v] /\ r[v] # limit[v] /\ r[v] <= limit[v] /\ limit[v] <= inputWriteIndex[v]
  BY DEF Indices, ReadEvent
<1>0. /\ received \in [Window -> Seq(SentType)] /\ MaxInputEvents \in Nat \ {0}
      /\ inputWriteIndex[w] \in Nat /\ r \in [Window -> Nat]
      /\ Len(received[v]) = r[v] /\ r[v] < inputWriteIndex[v]
  BY <1>a, <1>b
<1> DEFINE x == inputEvents[v][r[v] % MaxInputEvents]
<1>1. x \in SentType
  BY <1>0, RingIndex DEF TypeOK
<1>2. /\ received' = [received EXCEPT ![v] = Append(received[v], x)]
      /\ r' = [r EXCEPT ![v] = r[v] + 1] /\ UNCHANGED <<inputWriteIndex, inputEvents>>
  BY DEF ReadEvent, rings
<1> HIDE DEF x
<1>3. CASE w # v
  BY <1>0, <1>2, <1>3 DEF Kept, Same, What
<1>4. CASE w = v
  <2>1. /\ r'[w] = r[w] + 1 /\ received'[w] = Append(received[w], x)
        /\ received[w] \in Seq(SentType) /\ Len(received[w]) = r[w] /\ r[w] \in Nat
    BY <1>0, <1>2, <1>4
  <2>2. /\ \A i \in 1 .. r[w] : received'[w][i] = received[w][i]
        /\ received'[w][r[w] + 1] = x
    BY <1>1, <2>1, AppendProperties
  <2> SUFFICES ASSUME NEW k \in 0 .. inputWriteIndex[w] - 1
               PROVE  What(w, k)' = What(w, k)
    BY <1>2 DEF Kept, Same
  <2>3. CASE k < r[w]
    <3>1. k + 1 \in 1 .. r[w] /\ k < r'[w]
      BY <1>0, <2>1, <2>3
    <3> QED BY <2>2, <2>3, <3>1 DEF What
  <2>4. CASE k = r[w]
    <3>1. k < r'[w] /\ ~(k < r[w])
      BY <2>1, <2>4
    <3>2. What(w, k)' = x
      BY <2>2, <2>4, <3>1 DEF What
    <3>3. What(w, k) = x
      BY <1>4, <2>4, <3>1 DEF What, x
    <3> QED BY <3>2, <3>3
  <2>5. CASE k > r[w]
    <3>1. ~(k < r'[w]) /\ ~(k < r[w])
      BY <1>0, <2>1, <2>5
    <3> QED BY <1>2, <3>1 DEF What
  <2> QED BY <1>0, <2>1, <2>3, <2>4, <2>5
<1> QED BY <1>3, <1>4

LEMMA StreamPush ==
    ASSUME TypeOK, Indices, PushEvent, NEW w \in Window
    PROVE  /\ Same(w)
           /\ Kept(w) \/ Grows(w)
           /\ Head(pushes).to = w /\ w \notin dropped' => Grows(w)
           /\ dropped \subseteq dropped'
<1> DEFINE v == Head(pushes).to
           i == inputWriteIndex[v] % MaxInputEvents
<1>0. /\ MaxInputEvents \in Nat \ {0} /\ inputWriteIndex \in [Window -> Nat]
      /\ inputReadIndex \in [Window -> Nat] /\ r \in [Window -> Nat]
      /\ inputEvents \in [Window -> [0 .. MaxInputEvents - 1 -> SentType]]
  BY InputAssumption DEF TypeOK
<1>1. CASE HasRoom(v) /\ v \in Window
  <2>1. /\ inputEvents' = [inputEvents EXCEPT ![v][i] = Head(pushes).what]
        /\ inputWriteIndex' = [inputWriteIndex EXCEPT ![v] = @ + 1]
        /\ UNCHANGED <<dropped, r, received>> /\ pushes # <<>>
    BY <1>1 DEF PushEvent, programs
  <2>2. inputWriteIndex[v] < inputReadIndex[v] + MaxInputEvents /\ inputReadIndex[v] <= r[v]
    BY <1>0, <1>1 DEF HasRoom, Indices
  <2>3. i \in 0 .. MaxInputEvents - 1
    BY <1>0, <1>1, RingIndex
  <2>4. \A k \in Nat : k < inputWriteIndex[v] /\ ~(k < r[v]) => k % MaxInputEvents # i
    <3> DEFINE n == inputWriteIndex[v]
               m == MaxInputEvents
    <3>1. n \in Nat /\ m \in Nat \ {0} /\ r[v] \in Nat /\ inputReadIndex[v] \in Nat
      BY <1>0, <1>1
    <3>2. n < r[v] + m
      BY <2>2, <3>1
    <3> HIDE DEF n, m
    <3>3. \A k \in Nat : k < n /\ ~(k < r[v]) => k % m # n % m
      <4> SUFFICES ASSUME NEW k \in Nat, k < n, ~(k < r[v]) PROVE k % m # n % m
        OBVIOUS
      <4>1. n < k + m
        BY <3>1, <3>2
      <4> QED BY <3>1, <4>1, ModDistinct
    <3> QED BY <3>3 DEF n, m
  <2> HIDE DEF i
  <2>5. CASE w = v
    <3>1. /\ inputEvents'[w][i] = Head(pushes).what
          /\ \A k \in Nat : k < inputWriteIndex[w] /\ ~(k < r[w])
                => inputEvents'[w][k % MaxInputEvents] = inputEvents[w][k % MaxInputEvents]
      BY <1>0, <2>1, <2>3, <2>4, <2>5, RingIndex
    <3>2. Same(w)
      BY <1>0, <2>1, <3>1 DEF Same, What
    <3>3. \A k \in Nat : k = inputWriteIndex[w] => What(w, k)' = Head(pushes).what
      <4>1. \A k \in Nat : k = inputWriteIndex[w] => ~(k < r'[w]) /\ k % MaxInputEvents = i
        <5>1. r'[w] = r[w] /\ r[w] \in Nat /\ inputWriteIndex[w] \in Nat
          BY <1>0, <2>1
        <5>2. r[w] <= inputWriteIndex[w]
          <6>1. r[w] <= limit[w] /\ limit[w] <= inputWriteIndex[w] /\ limit[w] \in Nat
            BY DEF Indices, TypeOK
          <6> QED BY <5>1, <6>1
        <5> QED BY <2>5, <5>1, <5>2 DEF i
      <4> QED BY <3>1, <4>1 DEF What
    <3>4. inputWriteIndex'[w] = inputWriteIndex[w] + 1
      BY <1>0, <2>1, <2>5
    <3> QED BY <2>1, <2>5, <3>2, <3>3, <3>4 DEF Grows
  <2>6. CASE w # v
    BY <1>0, <2>1, <2>6 DEF Same, Kept, What
  <2> QED BY <2>5, <2>6
<1>2. CASE ~(HasRoom(v) /\ v \in Window)
  <2>1. /\ UNCHANGED <<inputWriteIndex, inputEvents>> /\ dropped \subseteq dropped'
        /\ v \in Window => v \in dropped'
    BY <1>0, <1>2 DEF PushEvent
  <2>2. UNCHANGED <<r, received>>
    BY DEF PushEvent, programs
  <2> QED BY <2>1, <2>2 DEF Same, Kept, What
<1> QED BY <1>1, <1>2

(* No other step writes to the ring of a window.                           *)
LEMMA StreamNext ==
    ASSUME TypeOK, Indices, [Next]_vars, NEW w \in Window
    PROVE  /\ Same(w)
           /\ Kept(w) \/ Grows(w)
           /\ dropped \subseteq dropped'
<1>0. MaxInputEvents \in Nat \ {0}
  BY InputAssumption
<1>1. CASE UNCHANGED <<inputWriteIndex, inputEvents, r, received, dropped>>
  BY <1>1 DEF Same, Kept, What
<1>2. CASE PushEvent
  BY <1>2, StreamPush
<1>3. ASSUME NEW v \in Window, Program(v)
      PROVE  Same(w) /\ (Kept(w) \/ Grows(w)) /\ dropped \subseteq dropped'
  <2>1. CASE ReadEvent(v)
    <3>1. UNCHANGED dropped
      BY <2>1 DEF ReadEvent, rings
    <3> QED BY <2>1, <3>1, StreamRead
  <2>2. CASE ~ReadEvent(v)
    BY <1>1, <1>3, <2>2 DEF Program, Open, PollInput, StoreReadIndex, rings
  <2> QED BY <2>1, <2>2
<1>4. Server => UNCHANGED <<inputWriteIndex, inputEvents, r, received, dropped>>
  BY DEF Server, PushBegins, PushEnds, StoreSequence, NotifyFocused, rings, programs
<1>5. CompositorStep => PushEvent \/ UNCHANGED <<inputWriteIndex, inputEvents, r, received, dropped>>
  BY UpdateKeeps DEF CompositorStep, InitInput, RequestFocus, Poll, Handle, NextEvent, Sleep, rings, programs
<1>6. UNCHANGED vars => UNCHANGED <<inputWriteIndex, inputEvents, r, received, dropped>>
  BY DEF vars, rings, programs
<1> QED BY <1>1, <1>2, <1>3, <1>4, <1>5, <1>6 DEF Next

-----------------------------------------------------------------------------
(* A race is not forgotten.                                                *)
LEMMA RacedNext == ASSUME [Next]_vars PROVE ~raced' => ~raced
<1>1. Server => (~raced' => ~raced)
  BY DEF Server, PushBegins, PushEnds, StoreSequence, NotifyFocused
<1>2. CompositorStep => (~raced' => ~raced)
  BY UpdateKeeps DEF CompositorStep, InitInput, RequestFocus, Poll, Handle, PushEvent, NextEvent, Sleep
<1>3. \A w \in Window : Program(w) => (~raced' => ~raced)
  BY DEF Program, Open, PollInput, ReadEvent, StoreReadIndex
<1>4. UNCHANGED vars => (~raced' => ~raced)
  BY DEF vars
<1> QED BY <1>1, <1>2, <1>3, <1>4 DEF Next

(* What was handled is counted on.                                         *)
LEMMA HandledNext ==
    ASSUME TypeOK, Reading, [Next]_vars
    PROVE  /\ Handled \in Nat /\ Handled' \in Nat /\ Handled <= Handled'
           /\ cpc = "push" => Handled = seq + 1
           /\ Handle => Handled = seq /\ UNCHANGED seq
           /\ PushEvent => UNCHANGED <<Handled, seq>>
<1> USE DEF Handled, Reading, Handling
<1>0. /\ writeSequence \in Nat /\ seq \in Nat /\ m_lastSequence \in Nat
      /\ currentSequence \in Nat /\ InputRingSize \in Nat
  BY InputAssumption DEF TypeOK
<1>h. /\ Handle => cpc = "handle" /\ cpc' = "push" /\ UNCHANGED <<polling>>
      /\ PushEvent => cpc = "push" /\ UNCHANGED <<polling, cpc>>
  BY DEF Handle, PushEvent, At
<1>1. CASE UNCHANGED <<polling, cpc>>
  BY <1>0, <1>h, <1>1 DEF polling, At
<1>2. CASE Server
  <2>1. UNCHANGED <<polling, cpc>>
    BY <1>2 DEF Server, PushBegins, PushEnds, StoreSequence, NotifyFocused
  <2> QED BY <1>0, <1>h, <2>1 DEF polling, At
<1>3. CASE InitInput
  BY <1>0, <1>h, <1>3 DEF InitInput, At
<1>4. CASE RequestFocus
  BY <1>0, <1>h, <1>4 DEF RequestFocus, polling, At
<1>5. CASE Poll
  <2> DEFINE first == startSequence(writeSequence)
  <2>1. first \in Nat /\ m_lastSequence <= first
    BY <1>0 DEF startSequence
  <2> HIDE DEF first
  <2>2. /\ seq' = first /\ UNCHANGED m_lastSequence /\ cpc = "poll"
        /\ cpc' = IF m_lastSequence = writeSequence THEN "update" ELSE "handle"
    BY <1>5 DEF Poll, At, first
  <2> QED BY <1>0, <1>h, <2>1, <2>2 DEF At
<1>6. CASE Handle
  BY <1>0, <1>h, <1>6 DEF polling
<1>7. CASE PushEvent
  BY <1>0, <1>h, <1>7 DEF polling
<1>8. CASE NextEvent
  <2>1. /\ cpc = "push" /\ seq' = seq + 1 /\ UNCHANGED currentSequence
        /\ \/ cpc' = "update" /\ m_lastSequence' = currentSequence /\ seq' = currentSequence
           \/ cpc' = "handle" /\ UNCHANGED m_lastSequence
    BY <1>8 DEF NextEvent, At
  <2>2. Handled = seq + 1
    BY <2>1
  <2>3. Handled' = seq + 1
    BY <2>1
  <2>4. ~Handle /\ ~PushEvent
    BY <1>0, <1>h, <2>1 DEF polling
  <2> HIDE DEF Handled
  <2> QED BY <1>0, <2>1, <2>2, <2>3, <2>4
<1>9. CASE UpdateSlots
  BY <1>0, <1>h, <1>9, UpdateKeeps DEF polling, At
<1>10. CASE Sleep
  BY <1>0, <1>h, <1>10 DEF Sleep, polling, At
<1>11. \A w \in Window : Program(w) => UNCHANGED <<polling, cpc>>
  BY DEF Program, Open, PollInput, ReadEvent, StoreReadIndex
<1>12. UNCHANGED vars => UNCHANGED <<polling, cpc>>
  BY DEF vars
<1> QED BY <1>1, <1>2, <1>3, <1>4, <1>5, <1>6, <1>7, <1>8, <1>9, <1>10, <1>11, <1>12
    DEF Next, CompositorStep

(* What the steps do to the list of what is to be pushed.                  *)
LEMMA PushesNext ==
    ASSUME [Next]_vars
    PROVE  Handle \/ PushEvent \/ UNCHANGED <<pushes, activeSlot>>
<1>1. Server => UNCHANGED <<pushes, activeSlot>>
  BY DEF Server, PushBegins, PushEnds, StoreSequence, NotifyFocused, manager
<1>2. CompositorStep => Handle \/ PushEvent \/ UNCHANGED <<pushes, activeSlot>>
  BY UpdateKeeps DEF CompositorStep, InitInput, RequestFocus, Poll, NextEvent, Sleep, manager
<1>3. \A w \in Window : Program(w) => UNCHANGED <<pushes, activeSlot>>
  BY DEF Program, Open, PollInput, ReadEvent, StoreReadIndex, manager
<1>4. UNCHANGED vars => UNCHANGED <<pushes, activeSlot>>
  BY DEF vars, manager
<1> QED BY <1>1, <1>2, <1>3, <1>4 DEF Next

LEMMA WhatType ==
    ASSUME TypeOK, Indices, NEW w \in Window, NEW k \in Nat
    PROVE  What(w, k) \in SentType
<1>1. /\ received[w] \in Seq(SentType) /\ Len(received[w]) = r[w] /\ r[w] \in Nat
      /\ inputEvents[w] \in [0 .. MaxInputEvents - 1 -> SentType]
  BY DEF TypeOK, Indices
<1>2. CASE k < r[w]
  <2>1. k + 1 \in 1 .. Len(received[w])
    BY <1>1, <1>2
  <2> QED BY <1>1, <1>2, <2>1, ElementOfSeq DEF What
<1>3. CASE ~(k < r[w])
  BY <1>1, <1>3, RingIndex DEF What
<1> QED BY <1>2, <1>3

(* A stream whose events increase to what was handled, and to which either *)
(* nothing comes or the event that is being handled.                       *)
LEMMA IncreasesNext ==
    ASSUME TypeOK, Indices, Reading, ~raced, Ordered, [Next]_vars, NEW w \in Window
    PROVE  Increases(w)'
<1> DEFINE x == Head(pushes).what
<1>n. PICK n \in Nat : n = inputWriteIndex[w]
  BY DEF TypeOK
<1>0. n \in Nat /\ inputWriteIndex'[w] \in Nat
  BY TypeNext DEF TypeOK
<1>1. \A k \in 0 .. n - 1 : What(w, k)' = What(w, k)
  BY <1>n, StreamNext DEF Same
<1>2. \A k \in Nat : What(w, k).n \in Nat
  BY WhatType DEF SentType
<1>3. Handled \in Nat /\ Handled' \in Nat /\ Handled <= Handled'
  BY HandledNext
<1>4. \A k \in 0 .. n - 1 : IsInput(What(w, k)) =>
        /\ 0 < What(w, k).n /\ What(w, k).n <= Handled
        /\ \A l \in 0 .. k - 1 : IsInput(What(w, l)) => What(w, l).n < What(w, k).n
  BY <1>n DEF Ordered, Increases
<1>5. \A k \in 0 .. n - 1 : IsInput(What(w, k)') =>
        /\ 0 < What(w, k)'.n /\ What(w, k)'.n <= Handled'
        /\ \A l \in 0 .. k - 1 : IsInput(What(w, l)') => What(w, l)'.n < What(w, k)'.n
  <2> SUFFICES ASSUME NEW k \in 0 .. n - 1, IsInput(What(w, k)')
               PROVE  /\ 0 < What(w, k)'.n /\ What(w, k)'.n <= Handled'
                      /\ \A l \in 0 .. k - 1 : IsInput(What(w, l)') => What(w, l)'.n < What(w, k)'.n
    OBVIOUS
  <2>1. What(w, k)' = What(w, k) /\ k \in Nat
    BY <1>0, <1>1
  <2>2. IsInput(What(w, k))
    BY <2>1
  <2>3. 0 < What(w, k).n /\ What(w, k).n <= Handled
    BY <1>4, <2>2
  <2>4. ASSUME NEW l \in 0 .. k - 1, IsInput(What(w, l)') PROVE What(w, l)'.n < What(w, k)'.n
    <3>1. l \in 0 .. n - 1
      BY <1>0
    <3>2. What(w, l)' = What(w, l)
      BY <1>1, <3>1
    <3> QED BY <1>4, <2>1, <2>2, <2>4, <3>2
  <2> QED BY <1>2, <1>3, <2>1, <2>3, <2>4
<1>6. CASE Kept(w)
  BY <1>n, <1>5, <1>6 DEF Increases, Kept, IsInput
<1>7. CASE Grows(w)
  <2>1. inputWriteIndex'[w] = n + 1 /\ What(w, n)' = x /\ pushes # <<>>
    BY <1>n, <1>0, <1>7 DEF Grows
  <2>2. /\ x = pushes[1].what /\ Len(pushes) \in Nat /\ Len(pushes) > 0
        /\ 1 \in DOMAIN pushes
    BY <2>1, PushTypes
  <2>3. ASSUME IsInput(x)
        PROVE  /\ x.n = seq + 1 /\ Handled = seq + 1
               /\ \A l \in 0 .. n - 1 : IsInput(What(w, l)) => What(w, l).n <= seq
    <3>1. x.n = seq + 1
      BY <2>2, <2>3 DEF Ordered
    <3>2. Comes
      BY <2>2, <2>3 DEF Comes
    <3>3. \A l \in 0 .. n - 1 : IsInput(What(w, l)) => What(w, l).n <= seq
      BY <1>n, <3>2 DEF Ordered
    <3>4. cpc = "push"
      BY <1>7 DEF Grows, PushEvent, At
    <3> QED BY <3>1, <3>3, <3>4, HandledNext
  <2>4. seq \in Nat
    BY DEF TypeOK
  <2>5. IsInput(What(w, n)') =>
          /\ 0 < What(w, n)'.n /\ What(w, n)'.n <= Handled'
          /\ \A l \in 0 .. n - 1 : IsInput(What(w, l)') => What(w, l)'.n < What(w, n)'.n
    <3> SUFFICES ASSUME IsInput(What(w, n)')
                 PROVE  /\ 0 < What(w, n)'.n /\ What(w, n)'.n <= Handled'
                        /\ \A l \in 0 .. n - 1 : IsInput(What(w, l)') => What(w, l)'.n < What(w, n)'.n
      OBVIOUS
    <3>1. IsInput(x)
      BY <2>1
    <3>2. 0 < x.n /\ x.n <= Handled'
      BY <1>3, <2>3, <2>4, <3>1
    <3>3. ASSUME NEW l \in 0 .. n - 1, IsInput(What(w, l)') PROVE What(w, l)'.n < x.n
      <4>1. What(w, l)' = What(w, l) /\ l \in Nat
        BY <1>0, <1>1
      <4>2. What(w, l).n <= seq /\ x.n = seq + 1
        BY <2>3, <3>1, <3>3, <4>1
      <4> QED BY <1>2, <2>4, <4>1, <4>2
    <3> QED BY <2>1, <3>2, <3>3
  <2>6. \A k \in 0 .. inputWriteIndex'[w] - 1 : k \in 0 .. n - 1 \/ k = n
    BY <1>0, <2>1
  <2> QED BY <1>5, <2>5, <2>6 DEF Increases, IsInput
<1> QED BY <1>6, <1>7, StreamNext

(* The stream of a window is of what was handled, and the event that is    *)
(* being handled comes last.                                               *)
LEMMA OrderedNext ==
    ASSUME TypeOK, Indices, RingHolds, Reading, cpc # "push" => pushes = <<>>,
           ~raced => Ordered, [Next]_vars, ~raced'
    PROVE  Ordered'
<1>0. ~raced /\ Ordered /\ seq \in Nat
  BY RacedNext DEF TypeOK
<1>1. \A w \in Window : Increases(w)'
  BY <1>0, IncreasesNext
<1>2. ASSUME UNCHANGED pushes, ~Handle, ~PushEvent
      PROVE  /\ \A i \in DOMAIN pushes' : IsInput(pushes'[i].what)
                    => i = Len(pushes') /\ pushes'[i].what.n = seq' + 1
             /\ Comes' => \A w \in Window : \A k \in 0 .. inputWriteIndex'[w] - 1 :
                            IsInput(What(w, k)') => What(w, k)'.n <= seq'
  <2>1. CASE cpc = "push" /\ pushes # <<>>
    <3>1. UNCHANGED seq
      BY <1>2, <2>1, UpdateKeeps
      DEF Next, Server, PushBegins, PushEnds, StoreSequence, NotifyFocused, CompositorStep, InitInput,
          RequestFocus, Poll, NextEvent, Sleep, Program, Open, PollInput, ReadEvent, StoreReadIndex,
          polling, vars, At
    <3>2. ASSUME NEW w \in Window PROVE Kept(w) /\ Same(w)
      BY <1>2, StreamNext DEF Grows
    <3>3. Comes' => Comes
      BY <1>2 DEF Comes
    <3> QED BY <1>0, <1>2, <3>1, <3>2, <3>3 DEF Ordered, Kept, Same
  <2>2. CASE pushes = <<>>
    BY <1>2, <2>2 DEF Comes
  <2> QED BY <2>1, <2>2
<1>3. ASSUME Handle
      PROVE  /\ \A i \in DOMAIN pushes' : IsInput(pushes'[i].what)
                    => i = Len(pushes') /\ pushes'[i].what.n = seq' + 1
             /\ Comes' => \A w \in Window : \A k \in 0 .. inputWriteIndex'[w] - 1 :
                            IsInput(What(w, k)') => What(w, k)'.n <= seq'
  <2>1. events[Place(seq)].n = seq + 1
    BY <1>0, <1>3, HandlesNext
  <2>a. PICK e, v : /\ e \in EventType /\ Focus(e, v)
                    /\ events[Place(seq)].n # 0 => e = events[Place(seq)]
    BY <1>3, HandleTells
  <2>2. Focus(e, v) /\ e.n = seq + 1
    BY <1>0, <2>1, <2>a
  <2>3. \A i \in DOMAIN pushes' : IsInput(pushes'[i].what) => i = Len(pushes') /\ pushes'[i].what.n = seq + 1
    <3>1. \A i \in DOMAIN pushes' :
             \/ pushes'[i].what.type = "lost" \/ pushes'[i].what.type = "gained"
             \/ pushes'[i].what.n = e.n /\ i = Len(pushes')
      BY <2>a, FocusTells
    <3> QED BY <2>2, <3>1 DEF IsInput
  <2>4. UNCHANGED seq /\ Handled = seq
    BY <1>3, HandledNext
  <2>5. ~PushEvent
    BY <1>3 DEF PushEvent, Handle, At
  <2>6. ASSUME NEW w \in Window PROVE Kept(w) /\ Same(w)
    BY <2>5, StreamNext DEF Grows
  <2>7. \A w \in Window : \A k \in 0 .. inputWriteIndex[w] - 1 :
            IsInput(What(w, k)) => What(w, k).n <= seq
    BY <1>0, <2>4 DEF Ordered, Increases
  <2> QED BY <2>3, <2>4, <2>6, <2>7 DEF Kept, Same
<1>4. ASSUME PushEvent
      PROVE  /\ \A i \in DOMAIN pushes' : IsInput(pushes'[i].what)
                    => i = Len(pushes') /\ pushes'[i].what.n = seq' + 1
             /\ Comes' => \A w \in Window : \A k \in 0 .. inputWriteIndex'[w] - 1 :
                            IsInput(What(w, k)') => What(w, k)'.n <= seq'
  <2>1. UNCHANGED seq /\ pushes' = Tail(pushes) /\ pushes # <<>>
    BY <1>4 DEF PushEvent, polling
  <2>2. /\ Len(pushes') = Len(pushes) - 1 /\ Len(pushes) \in Nat /\ Len(pushes) > 0
        /\ DOMAIN pushes' = 1 .. Len(pushes) - 1 /\ DOMAIN pushes = 1 .. Len(pushes)
        /\ \A i \in 1 .. Len(pushes) - 1 : pushes'[i] = pushes[i + 1]
        /\ Head(pushes) = pushes[1]
    BY <2>1, PushTypes
  <2>3. \A i \in DOMAIN pushes' : i + 1 \in DOMAIN pushes /\ pushes'[i] = pushes[i + 1]
    BY <2>2
  <2>4. ASSUME NEW i \in DOMAIN pushes', IsInput(pushes'[i].what)
        PROVE  i = Len(pushes') /\ pushes'[i].what.n = seq + 1
    <3>1. i + 1 = Len(pushes) /\ pushes[i + 1].what.n = seq + 1
      BY <1>0, <2>3, <2>4 DEF Ordered
    <3> QED BY <2>2, <2>3, <2>4, <3>1
  <2>5. ASSUME Comes'
        PROVE  Comes /\ ~IsInput(pushes[1].what)
    <3>1. PICK i \in DOMAIN pushes' : IsInput(pushes'[i].what)
      BY <2>5 DEF Comes, IsInput
    <3>2. i + 1 \in DOMAIN pushes /\ IsInput(pushes[i + 1].what)
      BY <2>3, <3>1
    <3>3. i \in 1 .. Len(pushes) - 1 /\ 1 \in DOMAIN pushes
      BY <2>2
    <3>4. IsInput(pushes[1].what) => 1 = Len(pushes)
      BY <1>0, <3>3 DEF Ordered
    <3> QED BY <2>2, <3>2, <3>3, <3>4 DEF Comes
  <2>6. ASSUME Comes', NEW w \in Window, NEW k \in 0 .. inputWriteIndex'[w] - 1, IsInput(What(w, k)')
        PROVE  What(w, k)'.n <= seq
    <3>1. Same(w) /\ (Kept(w) \/ Grows(w))
      BY StreamNext
    <3>2. CASE k \in 0 .. inputWriteIndex[w] - 1
      <4>1. What(w, k)' = What(w, k)
        BY <3>1, <3>2 DEF Same
      <4> QED BY <1>0, <2>5, <2>6, <3>2, <4>1 DEF Ordered
    <3>3. CASE k \notin 0 .. inputWriteIndex[w] - 1
      <4>1. inputWriteIndex[w] \in Nat /\ inputWriteIndex'[w] \in Nat
        BY TypeNext DEF TypeOK
      <4>2. k = inputWriteIndex[w] /\ Grows(w)
        BY <3>1, <3>3, <4>1 DEF Kept, Grows
      <4>3. What(w, k)' = Head(pushes).what
        BY <4>1, <4>2 DEF Grows
      <4> QED BY <2>2, <2>5, <2>6, <4>3
    <3> QED BY <3>2, <3>3
  <2> QED BY <2>1, <2>4, <2>6
<1>5. /\ \A i \in DOMAIN pushes' : IsInput(pushes'[i].what)
               => i = Len(pushes') /\ pushes'[i].what.n = seq' + 1
      /\ Comes' => \A w \in Window : \A k \in 0 .. inputWriteIndex'[w] - 1 :
                       IsInput(What(w, k)') => What(w, k)'.n <= seq'
  BY <1>2, <1>3, <1>4, PushesNext
<1> QED BY <1>1, <1>5 DEF Ordered, IsInput

LEMMA OrderInit == Init => OrderInv
<1>1. Init => /\ \A w \in Window : inputWriteIndex[w] = 0
              /\ pushes = <<>>
  BY DEF Init
<1>2. Init => Ordered
  BY <1>1 DEF Ordered, Increases, Comes
<1> QED BY <1>1, <1>2, TypeInit, IndicesInit, RingInit DEF OrderInv

LEMMA OrderNext == OrderInv /\ [Next]_vars => OrderInv'
<1> SUFFICES ASSUME OrderInv, [Next]_vars PROVE OrderInv'
  OBVIOUS
<1>1. /\ TypeOK /\ Indices /\ RingHolds /\ Reading /\ (cpc # "push" => pushes = <<>>)
      /\ ~raced => Ordered
  BY DEF OrderInv
<1>2. TypeOK' /\ Indices' /\ RingHolds' /\ Reading'
  BY <1>1, TypeNext, IndicesNext, RingNext, ReadingNext
<1>3. (cpc # "push" => pushes = <<>>)'
  BY <1>1, NothingToPush
<1>4. ~raced' => Ordered'
  BY <1>1, OrderedNext
<1> QED BY <1>2, <1>3, <1>4 DEF OrderInv

(* Keys and mouse events reach every program in the order in which they    *)
(* were made, none twice and none half written, whatever the sizes of the  *)
(* two rings and whatever is lost in them, as long as the server never     *)
(* wrote where the compositor was reading.                                 *)
THEOREM EventsStayInOrder == Spec => []EventsInOrder
<1>1. OrderInv => EventsInOrder
  <2> SUFFICES ASSUME OrderInv, ~raced, NEW w \in Window, NEW j \in DOMAIN received[w],
                      IsInput(received[w][j])
               PROVE  /\ received[w][j].n > 0
                      /\ \A i \in 1 .. j - 1 : IsInput(received[w][i]) => received[w][i].n < received[w][j].n
    BY DEF EventsInOrder
  <2>1. /\ received[w] \in Seq(SentType) /\ Len(received[w]) = r[w] /\ r[w] \in Nat
        /\ r[w] <= limit[w] /\ limit[w] <= inputWriteIndex[w] /\ limit[w] \in Nat
        /\ inputWriteIndex[w] \in Nat
    BY DEF OrderInv, TypeOK, Indices
  <2>2. DOMAIN received[w] = 1 .. r[w]
    BY <2>1
  <2>3. \A i \in 1 .. r[w] : /\ i - 1 \in 0 .. inputWriteIndex[w] - 1
                             /\ What(w, i - 1) = received[w][i]
    <3> SUFFICES ASSUME NEW i \in 1 .. r[w]
                 PROVE  /\ i - 1 \in 0 .. inputWriteIndex[w] - 1
                        /\ What(w, i - 1) = received[w][i]
      OBVIOUS
    <3>1. i - 1 < r[w] /\ (i - 1) + 1 = i
      BY <2>1
    <3> QED BY <2>1, <3>1 DEF What
  <2>4. Increases(w)
    BY DEF OrderInv, Ordered
  <2>5. received[w][j].n > 0
    <3>1. What(w, j - 1).n > 0
      BY <2>2, <2>3, <2>4 DEF Increases
    <3> QED BY <2>2, <2>3, <3>1
  <2>6. ASSUME NEW i \in 1 .. j - 1, IsInput(received[w][i]) PROVE received[w][i].n < received[w][j].n
    <3>1. i \in 1 .. r[w] /\ j \in 1 .. r[w] /\ i - 1 \in 0 .. (j - 1) - 1
      BY <2>1, <2>2
    <3>2. IsInput(What(w, i - 1)) /\ IsInput(What(w, j - 1))
      BY <2>3, <2>6, <3>1
    <3>3. What(w, i - 1).n < What(w, j - 1).n
      BY <2>3, <2>4, <3>1, <3>2 DEF Increases
    <3> QED BY <2>3, <3>1, <3>3
  <2> QED BY <2>5, <2>6
<1> QED BY <1>1, OrderInit, OrderNext, PTL DEF Spec

-----------------------------------------------------------------------------
(* A stream that keeps what it has, and to which nothing or a word about   *)
(* something else is added, tells the same of the focus.                   *)
LEMMA ToldSame ==
    ASSUME TypeOK, TypeOK', NEW w \in Window, Same(w),
           \/ Kept(w)
           \/ Grows(w) /\ Head(pushes).what.type \notin {"gained", "lost"}
    PROVE  Told(w)' <=> Told(w)
<1>n. PICK n \in Nat : n = inputWriteIndex[w]
  BY DEF TypeOK
<1>1. \A k \in 0 .. n - 1 : What(w, k)' = What(w, k)
  BY <1>n DEF Same
<1>2. CASE Kept(w)
  <2>1. inputWriteIndex'[w] = n
    BY <1>n, <1>2 DEF Kept
  <2>2. Told(w)' <=> \E i \in 0 .. n - 1 : /\ What(w, i)'.type = "gained"
                                           /\ \A j \in i + 1 .. n - 1 : What(w, j)'.type # "lost"
    BY <2>1 DEF Told
  <2>3. Told(w) <=> \E i \in 0 .. n - 1 : /\ What(w, i).type = "gained"
                                          /\ \A j \in i + 1 .. n - 1 : What(w, j).type # "lost"
    BY <1>n DEF Told
  <2>4. \A i \in 0 .. n - 1 : \A j \in i + 1 .. n - 1 : j \in 0 .. n - 1
    OBVIOUS
  <2> QED BY <1>1, <2>2, <2>3, <2>4
<1>3. CASE Grows(w) /\ Head(pushes).what.type \notin {"gained", "lost"}
  <2>1. inputWriteIndex'[w] = n + 1 /\ What(w, n)'.type \notin {"gained", "lost"}
    BY <1>n, <1>3 DEF Grows
  <2>2. Told(w)' <=> \E i \in 0 .. n : /\ What(w, i)'.type = "gained"
                                       /\ \A j \in i + 1 .. n : What(w, j)'.type # "lost"
    <3>1. (n + 1) - 1 = n
      OBVIOUS
    <3> QED BY <2>1, <3>1 DEF Told
  <2>3. Told(w) <=> \E i \in 0 .. n - 1 : /\ What(w, i).type = "gained"
                                          /\ \A j \in i + 1 .. n - 1 : What(w, j).type # "lost"
    BY <1>n DEF Told
  <2>4. \A i \in 0 .. n : i \in 0 .. n - 1 \/ i = n
    OBVIOUS
  <2>5. \A i \in 0 .. n - 1 : /\ i \in 0 .. n
                              /\ \A j \in i + 1 .. n : j = n \/ (j \in i + 1 .. n - 1 /\ j \in 0 .. n - 1)
                              /\ \A j \in i + 1 .. n - 1 : j \in i + 1 .. n
    OBVIOUS
  <2> QED BY <1>1, <2>1, <2>2, <2>3, <2>4, <2>5
<1> QED BY <1>2, <1>3

(* The last word is what counts.                                           *)
LEMMA ToldLast ==
    ASSUME TypeOK, NEW w \in Window, Grows(w)
    PROVE  /\ Head(pushes).what.type = "gained" => Told(w)'
           /\ Head(pushes).what.type = "lost" => ~Told(w)'
<1>n. PICK n \in Nat : n = inputWriteIndex[w]
  BY DEF TypeOK
<1>1. inputWriteIndex'[w] = n + 1 /\ What(w, n)' = Head(pushes).what
  BY <1>n DEF Grows
<1>2. Told(w)' <=> \E i \in 0 .. n : /\ What(w, i)'.type = "gained"
                                     /\ \A j \in i + 1 .. n : What(w, j)'.type # "lost"
  <2>1. (n + 1) - 1 = n
    OBVIOUS
  <2> QED BY <1>1, <2>1 DEF Told
<1>3. n \in 0 .. n /\ \A j \in n + 1 .. n : FALSE
  OBVIOUS
<1>4. \A i \in 0 .. n : i = n \/ n \in i + 1 .. n
  OBVIOUS
<1> QED BY <1>1, <1>2, <1>3, <1>4

LEMMA FocusNext ==
    ASSUME TypeOK, Indices, cpc # "push" => pushes = <<>>, FocusInv, [Next]_vars
    PROVE  FocusInv'
<1>0. TypeOK'
  BY TypeNext
<1> SUFFICES ASSUME NEW w \in Window, w \notin dropped'
             PROVE  (/\ Tells(w, "gained") => activeSlot = w /\ ~Tells(w, "lost")
                     /\ Tells(w, "lost") => activeSlot # w
                     /\ ~Tells(w, "gained") /\ ~Tells(w, "lost") => (Told(w) <=> activeSlot = w))'
  BY DEF FocusInv
<1>1. Same(w) /\ (Kept(w) \/ Grows(w)) /\ w \notin dropped
  BY StreamNext
<1>2. /\ Tells(w, "gained") => activeSlot = w /\ ~Tells(w, "lost")
      /\ Tells(w, "lost") => activeSlot # w
      /\ ~Tells(w, "gained") /\ ~Tells(w, "lost") => (Told(w) <=> activeSlot = w)
  BY <1>1 DEF FocusInv
<1>3. CASE Handle
  <2>1. pushes = <<>> /\ ~PushEvent
    BY <1>3 DEF Handle, PushEvent, At
  <2>2. Told(w)' <=> activeSlot = w
    <3>1. Told(w)' <=> Told(w)
      BY <1>0, <1>1, <2>1, ToldSame DEF Grows
    <3>2. ~Tells(w, "gained") /\ ~Tells(w, "lost")
      BY <2>1 DEF Tells
    <3> QED BY <1>2, <3>1, <3>2
  <2>a. PICK e, v : e \in EventType /\ Focus(e, v)
    BY <1>3, HandleTells
  <2>3. /\ activeSlot' = v
        /\ \A i \in DOMAIN pushes' :
              \/ pushes'[i].what.type = "lost" /\ pushes'[i].to = activeSlot /\ activeSlot # v
              \/ pushes'[i].what.type = "gained" /\ pushes'[i].to = v /\ activeSlot # v
              \/ IsInput(pushes'[i].what)
        /\ activeSlot \notin {v, NoSlot} =>
              \E i \in DOMAIN pushes' : pushes'[i].to = activeSlot /\ pushes'[i].what.type = "lost"
        /\ v \notin {activeSlot, NoSlot} =>
              \E i \in DOMAIN pushes' : pushes'[i].to = v /\ pushes'[i].what.type = "gained"
    <3>1. /\ activeSlot' = v
          /\ \A i \in DOMAIN pushes' :
                \/ pushes'[i].what.type = "lost" /\ pushes'[i].to = activeSlot /\ activeSlot # v
                \/ pushes'[i].what.type = "gained" /\ pushes'[i].to = v /\ activeSlot # v
                \/ IsInput(pushes'[i].what) /\ pushes'[i].what.n = e.n /\ i = Len(pushes')
      BY <2>a, FocusTells
    <3>2. /\ activeSlot \notin {v, NoSlot} =>
                \E i \in DOMAIN pushes' : pushes'[i].to = activeSlot /\ pushes'[i].what.type = "lost"
          /\ v \notin {activeSlot, NoSlot} =>
                \E i \in DOMAIN pushes' : pushes'[i].to = v /\ pushes'[i].what.type = "gained"
      BY <2>a, FocusTells
    <3> QED BY <3>1, <3>2
  <2>4. w # NoSlot
    BY DEF Window, NoSlot
  <2>5. Tells(w, "gained")' <=> w = v /\ w # activeSlot
    BY <2>3, <2>4 DEF Tells, IsInput
  <2>6. Tells(w, "lost")' <=> w = activeSlot /\ w # v
    BY <2>3, <2>4 DEF Tells, IsInput
  <2> QED BY <2>2, <2>3, <2>5, <2>6
<1>4. CASE PushEvent
  <2>1. pushes' = Tail(pushes) /\ pushes # <<>> /\ UNCHANGED activeSlot
    BY <1>4 DEF PushEvent, manager
  <2>2. /\ Len(pushes) \in Nat /\ Len(pushes) > 0
        /\ DOMAIN pushes' = 1 .. Len(pushes) - 1 /\ DOMAIN pushes = 1 .. Len(pushes)
        /\ \A i \in 1 .. Len(pushes) - 1 : pushes'[i] = pushes[i + 1]
        /\ Head(pushes) = pushes[1]
    BY <2>1, PushTypes
  <2> DEFINE Is(type) == Head(pushes).to = w /\ Head(pushes).what.type = type
  <2>3. \A type : Tells(w, type) <=> Is(type) \/ Tells(w, type)'
    <3> SUFFICES ASSUME NEW type PROVE Tells(w, type) <=> Is(type) \/ Tells(w, type)'
      OBVIOUS
    <3>1. ASSUME NEW i \in DOMAIN pushes, pushes[i].to = w /\ pushes[i].what.type = type
          PROVE  Is(type) \/ Tells(w, type)'
      <4>1. CASE i = 1
        BY <2>2, <3>1, <4>1
      <4>2. CASE i # 1
        <5>1. i - 1 \in DOMAIN pushes' /\ pushes'[i - 1] = pushes[i]
          BY <2>2, <4>2
        <5> QED BY <3>1, <5>1 DEF Tells
      <4> QED BY <4>1, <4>2
    <3>2. Is(type) => Tells(w, type)
      BY <2>2 DEF Tells
    <3>3. ASSUME NEW i \in DOMAIN pushes', pushes'[i].to = w /\ pushes'[i].what.type = type
          PROVE  Tells(w, type)
      <4>1. i + 1 \in DOMAIN pushes /\ pushes'[i] = pushes[i + 1]
        BY <2>2
      <4> QED BY <3>3, <4>1 DEF Tells
    <3> QED BY <3>1, <3>2, <3>3 DEF Tells
  <2>4. Head(pushes).to = w => Grows(w)
    BY <1>4, StreamPush
  <2> HIDE DEF Is
  <2>5. CASE Is("gained")
    <3>1. Told(w)'
      BY <2>4, <2>5, ToldLast DEF Is
    <3> QED BY <1>2, <2>1, <2>3, <2>5, <3>1
  <2>6. CASE Is("lost")
    <3>1. ~Told(w)'
      BY <2>4, <2>6, ToldLast DEF Is
    <3> QED BY <1>2, <2>1, <2>3, <2>6, <3>1
  <2>7. CASE ~Is("gained") /\ ~Is("lost")
    <3>1. Told(w)' <=> Told(w)
      BY <1>0, <1>1, <2>7, ToldSame DEF Is, Grows
    <3> QED BY <1>2, <2>1, <2>3, <2>7, <3>1
  <2> QED BY <2>5, <2>6, <2>7
<1>5. CASE UNCHANGED <<pushes, activeSlot>> /\ ~Handle /\ ~PushEvent
  <2>1. Told(w)' <=> Told(w)
    BY <1>0, <1>1, <1>5, ToldSame DEF Grows
  <2>2. \A type : Tells(w, type)' <=> Tells(w, type)
    BY <1>5 DEF Tells
  <2> QED BY <1>2, <1>5, <2>1, <2>2
<1> QED BY <1>3, <1>4, <1>5, PushesNext

(* However clicks move the focus, and windows are opened, raised and       *)
(* pushed to, a program that missed nothing and has read all of its ring   *)
(* takes itself to have the focus exactly when the compositor thinks so.   *)
THEOREM FocusIsTold == Spec => []FocusIsKnown
<1>1. Init => FocusInv
  <2>1. Init => /\ \A w \in Window : inputWriteIndex[w] = 0
                /\ pushes = <<>> /\ activeSlot \notin Window
    BY DEF Init, NoSlot, Window
  <2> QED BY <2>1 DEF FocusInv, Tells, Told
<1>2. OrderInv /\ FocusInv => FocusIsKnown
  <2> SUFFICES ASSUME OrderInv, FocusInv, NEW w \in Window \ dropped, pushes = <<>>,
                      r[w] = inputWriteIndex[w]
               PROVE  ToldOfFocus(w) <=> activeSlot = w
    BY DEF FocusIsKnown
  <2>n. PICK n \in Nat : n = r[w]
    BY DEF OrderInv, TypeOK
  <2>1. /\ received[w] \in Seq(SentType) /\ Len(received[w]) = n /\ inputWriteIndex[w] = n
        /\ DOMAIN received[w] = 1 .. n
    BY <2>n DEF OrderInv, TypeOK, Indices
  <2>2. Told(w) <=> activeSlot = w
    BY DEF FocusInv, Tells
  <2>3. \A k \in 0 .. n - 1 : What(w, k) = received[w][k + 1]
    BY <2>n DEF What
  <2>4. ASSUME Told(w) PROVE ToldOfFocus(w)
    <3>1. PICK i \in 0 .. n - 1 : /\ What(w, i).type = "gained"
                                  /\ \A j \in i + 1 .. n - 1 : What(w, j).type # "lost"
      BY <2>1, <2>4 DEF Told
    <3>2. i + 1 \in DOMAIN received[w] /\ received[w][i + 1].type = "gained"
      BY <2>1, <2>3, <3>1
    <3>3. ASSUME NEW j \in (i + 1) + 1 .. n PROVE received[w][j].type # "lost"
      <4>1. j - 1 \in i + 1 .. n - 1 /\ j - 1 \in 0 .. n - 1 /\ (j - 1) + 1 = j
        OBVIOUS
      <4>2. What(w, j - 1) = received[w][j]
        BY <2>3, <4>1
      <4> QED BY <3>1, <4>1, <4>2
    <3> QED BY <2>1, <3>2, <3>3 DEF ToldOfFocus
  <2>5. ASSUME ToldOfFocus(w) PROVE Told(w)
    <3>1. PICK i \in 1 .. n : /\ received[w][i].type = "gained"
                              /\ \A j \in i + 1 .. n : received[w][j].type # "lost"
      BY <2>1, <2>5 DEF ToldOfFocus
    <3>2. i - 1 \in 0 .. n - 1 /\ (i - 1) + 1 = i
      OBVIOUS
    <3>3. What(w, i - 1).type = "gained"
      BY <2>3, <3>1, <3>2
    <3>4. ASSUME NEW j \in (i - 1) + 1 .. n - 1 PROVE What(w, j).type # "lost"
      <4>1. j + 1 \in i + 1 .. n /\ j \in 0 .. n - 1
        OBVIOUS
      <4> QED BY <2>3, <3>1, <4>1
    <3> QED BY <2>1, <3>2, <3>3, <3>4 DEF Told
  <2> QED BY <2>2, <2>4, <2>5
<1>3. OrderInv /\ FocusInv /\ [Next]_vars => OrderInv' /\ FocusInv'
  BY OrderNext, FocusNext DEF OrderInv
<1> QED BY <1>1, <1>2, <1>3, OrderInit, PTL DEF Spec
=============================================================================
