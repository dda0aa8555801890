---------------------------- MODULE WaitNotify ----------------------------
(***************************************************************************)
(* What user programs may rely on of the Wait and Notify system calls: one *)
(* bit per task remembers a notification that finds the task awake, and a  *)
(* Wait with the bit set returns at once.  Scheduler implements this; the  *)
(* servers of programs/ are modelled on top of it.                         *)
(***************************************************************************)
CONSTANT Process

VARIABLES
    alive,      \* tasks that can be notified
    asleep,     \* tasks blocked in Wait
    pending     \* tasks with an unconsumed notification

waitVars == <<alive, asleep, pending>>

Awake(p) == p \in alive \ asleep

Wait(p) ==
    /\ Awake(p)
    /\ IF p \in pending
       THEN pending' = pending \ {p} /\ UNCHANGED asleep
       ELSE asleep' = asleep \cup {p} /\ UNCHANGED pending
    /\ UNCHANGED alive

(* Notify of a task that is gone, or of oneself, is refused.               *)
Notify(p, q) ==
    /\ Awake(p)
    /\ IF q \in alive \ {p}
       THEN IF q \in asleep
            THEN asleep' = asleep \ {q} /\ UNCHANGED pending
            ELSE pending' = pending \cup {q} /\ UNCHANGED asleep
       ELSE UNCHANGED <<asleep, pending>>
    /\ UNCHANGED alive

(* A device interrupt makes a sleeping task run without a notification.    *)
Interrupt(p) ==
    /\ p \in asleep
    /\ asleep' = asleep \ {p}
    /\ UNCHANGED <<alive, pending>>

Exit(p) ==
    /\ Awake(p)
    /\ alive' = alive \ {p}
    /\ pending' = pending \ {p}
    /\ UNCHANGED asleep

(* A task appears: spawned with nothing pending, or revived by an          *)
(* interrupt before it was reaped, with what it had pending when it died.  *)
Appear(p) ==
    /\ p \notin alive
    /\ alive' = alive \cup {p}
    /\ pending' \in {pending, pending \cup {p}}
    /\ UNCHANGED asleep

WaitNotifyNext ==
    \E p \in Process :
        \/ Wait(p) \/ Interrupt(p) \/ Exit(p) \/ Appear(p)
        \/ \E q \in Process : Notify(p, q)

WaitNotifyInit ==
    /\ alive \subseteq Process
    /\ asleep = {}
    /\ pending = {}

WaitNotifySpec == WaitNotifyInit /\ [][WaitNotifyNext]_waitVars
=============================================================================
