------------------------------- MODULE FsIpc -------------------------------
(***************************************************************************)
(* The request protocol between programs and the file-system server: a     *)
(* registry of slots in shared memory, Wait and Notify as the only         *)
(* synchronisation (programs/include/FileSystem/FsClient.hpp, FsServer.hpp *)
(* and the loop of programs/Fs/Fs.cpp).                                    *)
(*                                                                         *)
(* Every access to the registry is a step of its own: the timer may switch *)
(* tasks between any two.  A request is identified by <<client, number>>;  *)
(* a slot's path and the rest of its request are filled in two steps, so   *)
(* that the server can see a torn request.  What the file system answers   *)
(* is abstracted to which path and request it was computed from.           *)
(***************************************************************************)
EXTENDS WaitNotify, Integers

CONSTANTS
    Client,         \* tasks that use the file system
    Server,         \* the pid published as fs.pid
    NumSlots,       \* FS_MAX_SLOTS
    MaxRequests     \* bound on the requests of one client

ASSUME FsAssumption ==
    /\ Server \notin Client
    /\ Process = Client \cup {Server}
    /\ NumSlots \in Nat \ {0}
    /\ MaxRequests \in Nat

Slot == 1 .. NumSlots
Request == Client \X (0 .. MaxRequests)
None == <<Server, 0>>           \* zeroed memory: no request, callerPid 0

VARIABLES
    claimed,    \* slot.claimed
    status,     \* slot.status: "Pending" (also the zeroed value) or "Answered"
    path,       \* slot.path, as the request it was written for
    body,       \* slot.type, offset, flag, handle, callerPid: likewise
    response,   \* slot.responseHandle and responseLen: the <<path, body>> answered
    cpc,        \* where each client is in FsClient::request
    cslot,      \* the slot it tries or holds
    cseq,       \* the number of its request
    answer,     \* what its last request returned
    spc,        \* where the server is in poll
    sslot,      \* the slot it looks at
    work,       \* what it is answering
    released    \* history: slots that have been used and given back

slotVars   == <<claimed, status, path, body, response>>
clientVars == <<cpc, cslot, cseq, answer, released>>
serverVars == <<spc, sslot, work>>
vars == <<waitVars, slotVars, clientVars, serverVars>>

(* The state FsServer::init leaves: the registry zeroed, then published.   *)
Init ==
    /\ alive = Client \cup {Server} /\ asleep = {} /\ pending = {}
    /\ claimed = [i \in Slot |-> FALSE]
    /\ status = [i \in Slot |-> "Pending"]
    /\ path = [i \in Slot |-> None]
    /\ body = [i \in Slot |-> None]
    /\ response = [i \in Slot |-> <<None, None>>]
    /\ cpc = [c \in Client |-> "idle"]
    /\ cslot = [c \in Client |-> 1]
    /\ cseq = [c \in Client |-> 0]
    /\ answer = [c \in Client |-> <<None, None>>]
    /\ spc = "scan" /\ sslot = 1 /\ work = <<None, None>>
    /\ released = {}

-----------------------------------------------------------------------------
(* FsClient::request *)

Goto(c, from, to) ==
    /\ Awake(c)
    /\ cpc[c] = from
    /\ cpc' = [cpc EXCEPT ![c] = to]

Begin(c) ==
    /\ Goto(c, "idle", "claim")
    /\ cseq[c] < MaxRequests
    /\ cseq' = [cseq EXCEPT ![c] = @ + 1]
    /\ cslot' = [cslot EXCEPT ![c] = 1]
    /\ UNCHANGED <<waitVars, slotVars, serverVars, answer, released>>

(* Mutant: the slot is taken without looking. *)
ClaimSlotBlind(c) ==
    /\ Goto(c, "claim", "path")
    /\ claimed' = [claimed EXCEPT ![cslot[c]] = TRUE]
    /\ UNCHANGED <<waitVars, status, path, body, response, cslot, cseq, answer,
                   released, serverVars>>

(* claimSlot: compare-and-swap on each slot in turn; -1 after the last.    *)
ClaimSlot(c) ==
    /\ ~claimed[cslot[c]]
    /\ Goto(c, "claim", "path")
    /\ claimed' = [claimed EXCEPT ![cslot[c]] = TRUE]
    /\ UNCHANGED <<waitVars, status, path, body, response, cslot, cseq, answer,
                   released, serverVars>>

ClaimNext(c) ==
    /\ claimed[cslot[c]] /\ cslot[c] < NumSlots
    /\ Goto(c, "claim", "claim")
    /\ cslot' = [cslot EXCEPT ![c] = @ + 1]
    /\ UNCHANGED <<waitVars, slotVars, cseq, answer, released, serverVars>>

ClaimFails(c) ==
    /\ claimed[cslot[c]] /\ cslot[c] = NumSlots
    /\ Goto(c, "claim", "idle")
    /\ UNCHANGED <<waitVars, slotVars, cslot, cseq, answer, released, serverVars>>

FillPath(c) ==
    /\ Goto(c, "path", "body")
    /\ path' = [path EXCEPT ![cslot[c]] = <<c, cseq[c]>>]
    /\ UNCHANGED <<waitVars, claimed, status, body, response, cslot, cseq, answer,
                   released, serverVars>>

FillBody(c) ==
    /\ Goto(c, "body", "publish")
    /\ body' = [body EXCEPT ![cslot[c]] = <<c, cseq[c]>>]
    /\ response' = [response EXCEPT ![cslot[c]] = <<None, None>>]
    /\ UNCHANGED <<waitVars, claimed, status, path, cslot, cseq, answer, released,
                   serverVars>>

Publish(c) ==
    /\ Goto(c, "publish", "notify")
    /\ status' = [status EXCEPT ![cslot[c]] = "Pending"]
    /\ UNCHANGED <<waitVars, claimed, path, body, response, cslot, cseq, answer,
                   released, serverVars>>

(* Mutant: the server is not notified. *)
ClientNotifyNobody(c) ==
    /\ Goto(c, "notify", "check")
    /\ UNCHANGED <<waitVars, slotVars, cslot, cseq, answer, released, serverVars>>

ClientNotify(c) ==
    /\ Goto(c, "notify", "check")
    /\ Notify(c, Server)
    /\ UNCHANGED <<slotVars, cslot, cseq, answer, released, serverVars>>

(* Mutant: one Wait, and its return is taken for the answer. *)
CheckOnce(c) ==
    /\ Goto(c, "check", IF status[cslot[c]] = "Pending" /\ c \notin pending
                        THEN "wait" ELSE "read")
    /\ UNCHANGED <<waitVars, slotVars, cslot, cseq, answer, released, serverVars>>

Check(c) ==
    /\ Goto(c, "check", IF status[cslot[c]] = "Pending" THEN "wait" ELSE "read")
    /\ UNCHANGED <<waitVars, slotVars, cslot, cseq, answer, released, serverVars>>

ClientWait(c) ==
    /\ Goto(c, "wait", "check")
    /\ Wait(c)
    /\ UNCHANGED <<slotVars, cslot, cseq, answer, released, serverVars>>

Read(c) ==
    /\ Goto(c, "read", "release")
    /\ answer' = [answer EXCEPT ![c] = response[cslot[c]]]
    /\ UNCHANGED <<waitVars, slotVars, cslot, cseq, released, serverVars>>

Release(c) ==
    /\ Goto(c, "release", "idle")
    /\ claimed' = [claimed EXCEPT ![cslot[c]] = FALSE]
    /\ released' = released \cup {cslot[c]}
    /\ UNCHANGED <<waitVars, status, path, body, response, cslot, cseq, answer, serverVars>>

(* A client exits or crashes wherever it is; its slot stays claimed.       *)
Crash(c) ==
    /\ Exit(c)
    /\ UNCHANGED <<slotVars, clientVars, serverVars>>

ClientStep(c) ==
    \/ Begin(c) \/ ClaimSlot(c) \/ ClaimNext(c) \/ ClaimFails(c)
    \/ FillPath(c) \/ FillBody(c) \/ Publish(c) \/ ClientNotify(c)
    \/ Check(c) \/ ClientWait(c) \/ Read(c) \/ Release(c)

-----------------------------------------------------------------------------
(* FsServer::poll, processSlot and finishSlot, then Wait, for ever *)

ServerGoto(from, to) ==
    /\ Awake(Server)
    /\ spc = from
    /\ spc' = to

NextSlot == IF sslot < NumSlots THEN "scan" ELSE "wait"

Advance == sslot' = IF sslot < NumSlots THEN sslot + 1 ELSE 1

ScanClaimed ==
    /\ claimed[sslot]
    /\ ServerGoto("scan", "status")
    /\ UNCHANGED <<waitVars, slotVars, clientVars, sslot, work>>

ScanFree ==
    /\ ~claimed[sslot]
    /\ ServerGoto("scan", NextSlot)
    /\ Advance
    /\ UNCHANGED <<waitVars, slotVars, clientVars, work>>

StatusPending ==
    /\ status[sslot] = "Pending"
    /\ ServerGoto("status", "execute")
    /\ UNCHANGED <<waitVars, slotVars, clientVars, sslot, work>>

StatusOther ==
    /\ status[sslot] # "Pending"
    /\ ServerGoto("status", NextSlot)
    /\ Advance
    /\ UNCHANGED <<waitVars, slotVars, clientVars, work>>

(* Any of the process... functions: each ends in one finishSlot.           *)
Execute ==
    /\ ServerGoto("execute", "respond")
    /\ work' = <<path[sslot], body[sslot]>>
    /\ UNCHANGED <<waitVars, slotVars, clientVars, sslot>>

Respond ==
    /\ ServerGoto("respond", "answer")
    /\ response' = [response EXCEPT ![sslot] = work]
    /\ UNCHANGED <<waitVars, claimed, status, path, body, clientVars, sslot, work>>

Answer ==
    /\ ServerGoto("answer", "notify")
    /\ status' = [status EXCEPT ![sslot] = "Answered"]
    /\ UNCHANGED <<waitVars, claimed, path, body, response, clientVars, sslot, work>>

(* Mutant: the client is not notified. *)
ServerNotifyNobody ==
    /\ ServerGoto("notify", NextSlot)
    /\ Advance
    /\ UNCHANGED <<waitVars, slotVars, clientVars, work>>

(* callerPid is read from the slot after the answer is visible: the slot   *)
(* may already belong to another client.                                   *)
ServerNotify ==
    /\ ServerGoto("notify", NextSlot)
    /\ Notify(Server, body[sslot][1])
    /\ Advance
    /\ UNCHANGED <<slotVars, clientVars, work>>

ServerWait ==
    /\ ServerGoto("wait", "scan")
    /\ Wait(Server)
    /\ UNCHANGED <<slotVars, clientVars, sslot, work>>

ServerStep ==
    \/ ScanClaimed \/ ScanFree \/ StatusPending \/ StatusOther
    \/ Execute \/ Respond \/ Answer \/ ServerNotify \/ ServerWait

Next == ServerStep \/ \E c \in Client : ClientStep(c) \/ Crash(c)

(* The scheduler eventually runs every runnable task.  Crashes are not     *)
(* required to happen, nor are clients required to make requests.          *)
Spec ==
    /\ Init /\ [][Next]_vars
    /\ WF_vars(ServerStep)
    /\ \A c \in Client : WF_vars(ClientStep(c) /\ cpc[c] # "idle")

-----------------------------------------------------------------------------
(* Properties *)

ClientPc == {"idle", "claim", "path", "body", "publish", "notify", "check", "wait",
             "read", "release"}
ServerPc == {"scan", "status", "execute", "respond", "answer", "notify", "wait"}
Tag == Request \cup {None}

(* Type correctness. *)
TypeOK ==
    /\ alive \subseteq Process /\ Server \in alive
    /\ asleep \subseteq alive /\ pending \subseteq alive
    /\ claimed \in [Slot -> BOOLEAN]
    /\ status \in [Slot -> {"Pending", "Answered"}]
    /\ path \in [Slot -> Tag] /\ body \in [Slot -> Tag]
    /\ response \in [Slot -> Tag \X Tag]
    /\ cpc \in [Client -> ClientPc]
    /\ cslot \in [Client -> Slot]
    /\ cseq \in [Client -> 0 .. MaxRequests]
    /\ answer \in [Client -> Tag \X Tag]
    /\ spc \in ServerPc /\ sslot \in Slot /\ work \in Tag \X Tag
    /\ released \subseteq Slot

Holds(c) == cpc[c] \notin {"idle", "claim"}
Published(c) == cpc[c] \in {"notify", "check", "wait"}

(* Two clients never work in one slot, dead ones included.                 *)
SlotExclusive ==
    \A c \in Client : Holds(c) =>
        /\ claimed[cslot[c]]
        /\ \A d \in Client : Holds(d) /\ cslot[c] = cslot[d] => c = d

(* The server cannot sleep through a request: when it sleeps, every client *)
(* past its Notify has been answered.                                      *)
NoForgottenRequest ==
    Server \in asleep =>
        \A c \in Client : cpc[c] \in {"check", "wait"} => status[cslot[c]] # "Pending"

(* A client cannot sleep through its answer: if it sleeps and the answer   *)
(* is there, the server is about to notify it, and the pid it will read    *)
(* from the slot is still this client's.                                   *)
NoForgottenAnswer ==
    \A c \in Client \cap asleep : status[cslot[c]] # "Pending" =>
        spc = "notify" /\ sslot = cslot[c] /\ body[sslot][1] = c

(* A client that was given a slot used before gets the answer to its own   *)
(* request, computed from the whole of it.  The first use of a slot is     *)
(* excepted: zeroed memory reads as FsPending, so the server may take the  *)
(* slot for published while it is being filled, and answer what it found.  *)
RightAnswer ==
    \A c \in Client : cpc[c] = "release" /\ cslot[c] \in released =>
        answer[c] = <<<<c, cseq[c]>>, <<c, cseq[c]>>>>

(* Every request returns, unless its client dies: no interleaving, no      *)
(* crash of another client and no full registry makes it wait for ever.    *)
RequestReturns ==
    \A c \in Client : cpc[c] # "idle" ~> cpc[c] = "idle" \/ c \notin alive
=============================================================================
