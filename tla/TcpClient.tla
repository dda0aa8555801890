----------------------------- MODULE TcpClient -----------------------------
(***************************************************************************)
(* One HTTP request over the TCP client of the network program             *)
(* (programs/include/net/transport/tcp.cpp, httpGet in                     *)
(* programs/Network/NetworkServer.cpp), against a peer that follows the    *)
(* protocol and a network that may lose, repeat and reorder segments.      *)
(*                                                                         *)
(* The client looks at the ports and at the flags it waits for, never at   *)
(* a sequence number, retransmits nothing and gives up when its countdown  *)
(* ends.  A segment carries one unit of data, and both sides number from   *)
(* 0; the client compares no numbers, so their width does not matter.      *)
(***************************************************************************)
EXTENDS Integers, Sequences, SequencesExt

CONSTANTS
    Response,       \* units of data in the peer's response
    MaxTimer,       \* 200000000, where the countdown of a wait starts
    MaxFaults,      \* bound on the model: segments lost, repeated, swapped, resent
    MaxAcks         \* bound on the model: pure ACKs of the peer

ASSUME TcpAssumption ==
    /\ {Response, MaxTimer, MaxFaults, MaxAcks} \subseteq Nat
    /\ Response > 0 /\ MaxTimer > 0

VARIABLES
    step,           \* where httpGet is: connect, send, recv, close or end
    waiting,        \* the client is in the loop of wait
    connState,      \* conn.state
    seq,            \* conn.seq
    ack,            \* conn.ack
    waitTimer,
    pendingFin,
    delivered,      \* the data recv has handed out
    why,            \* why httpGet stopped reading
    toPeer, toClient,               \* segments under way, the oldest first
    peer, una, nxt, rcvNxt,         \* the peer: state, SND.UNA, SND.NXT, RCV.NXT
    faults, acks,   \* how many there were
    lost, repeated, reordered       \* has it happened to data or a FIN of the peer

conn == <<connState, seq, ack, pendingFin>>
client == <<step, waiting, conn, waitTimer, delivered, why>>
server == <<peer, una, nxt, rcvNxt, acks>>
network == <<faults, lost, repeated, reordered>>
tcpVars == <<client, server, network, toPeer, toClient>>

(* A segment of the peer with data carries the unit numbered as it is.     *)
Segment(flags, s, a, len) == [flags |-> flags, seq |-> s, ack |-> a, len |-> len]
Ends(s) == s.seq + s.len + (IF s.flags \cap {"SYN", "FIN"} # {} THEN 1 ELSE 0)
Matters(s) == s.len > 0 \/ "FIN" \in s.flags

TcpInit ==
    /\ step = "connect" /\ waiting = FALSE
    /\ connState = "Closed" /\ seq = 0 /\ ack = 0
    /\ waitTimer = 0 /\ pendingFin = FALSE
    /\ delivered = <<>> /\ why = "none"
    /\ toPeer = <<>> /\ toClient = <<>>
    /\ peer = "listen" /\ una = 0 /\ nxt = 0 /\ rcvNxt = 0
    /\ faults = 0 /\ acks = 0
    /\ lost = FALSE /\ repeated = FALSE /\ reordered = FALSE

-----------------------------------------------------------------------------
(* The client.                                                             *)
sendRaw(flags, s, a, len) == toPeer' = Append(toPeer, Segment(flags, s, a, len))

(* wait: the countdown starts.                                             *)
Wait == waiting' = TRUE /\ waitTimer' = MaxTimer

connect ==
    /\ step = "connect" /\ ~waiting
    /\ connState' = "SynSent" /\ ack' = 0
    /\ sendRaw({"SYN"}, 0, 0, 0)
    /\ seq' = 1
    /\ Wait
    /\ UNCHANGED <<step, pendingFin, delivered, why, server, network, toClient>>

(* send: the request, one unit.                                            *)
send ==
    /\ step = "send" /\ connState = "Established"
    /\ sendRaw({"ACK"}, seq, ack, 1)
    /\ seq' = seq + 1
    /\ step' = "recv"
    /\ UNCHANGED <<waiting, waitTimer, connState, ack, pendingFin, delivered, why, server, network, toClient>>

recv ==
    /\ step = "recv" /\ ~waiting /\ connState = "Established"
    /\ Wait
    /\ UNCHANGED <<step, conn, delivered, why, server, network, toPeer, toClient>>

close ==
    /\ step = "close" /\ ~waiting
    /\ sendRaw({"FIN", "ACK"}, seq, ack, 0)
    /\ seq' = seq + 1
    /\ connState' = "FinWait"
    /\ Wait
    /\ UNCHANGED <<step, ack, pendingFin, delivered, why, server, network, toClient>>

(* What each call does when poll has returned r: -1 for a time-out, 2 for  *)
(* the end of the stream, 1 for anything else.  The segment of an answer   *)
(* goes out with the acknowledgment a.                                     *)
Leave(reason) == step' = "close" /\ why' = reason

ConnectReturns(r, a) ==
    /\ step = "connect"
    /\ IF r = 1
       THEN /\ connState' = "Established" /\ step' = "send"
            /\ sendRaw({"ACK"}, seq, a, 0)
       ELSE step' = "end" /\ UNCHANGED <<connState, toPeer>>
    /\ UNCHANGED why

(* httpGet reads on until the stream ends, a wait times out or the decoder *)
(* has seen the last chunk, which it may after any data.                   *)
RecvReturns(r, a, gotData) ==
    /\ step = "recv"
    /\ IF r = -1
       THEN Leave("timeout") /\ UNCHANGED <<connState, toPeer>>
       ELSE /\ sendRaw({"ACK"}, seq, a, 0)
            /\ IF r = 2
               THEN connState' = "FinWait" /\ Leave("fin")
               ELSE /\ UNCHANGED connState
                    /\ \/ gotData /\ Leave("decoded")
                       \/ UNCHANGED <<step, why>>

CloseReturns(a) ==
    /\ step = "close"
    /\ sendRaw({"ACK"}, seq, a, 0)
    /\ connState' = "Closed" /\ step' = "end"
    /\ UNCHANGED why

Returns(r, a, gotData) ==
    /\ waiting' = FALSE
    /\ ConnectReturns(r, a) \/ RecvReturns(r, a, gotData) \/ CloseReturns(a)

-----------------------------------------------------------------------------
(* poll, up to where it looks at the card.                                 *)
Tick == IF waitTimer > 0 THEN waitTimer - 1 ELSE waitTimer

PollExpired ==
    /\ waiting /\ waitTimer = 0
    /\ Returns(-1, ack, FALSE)
    /\ UNCHANGED <<seq, ack, waitTimer, pendingFin, delivered, server, network, toClient>>

Polls == waiting /\ waitTimer # 0

PollPendingFin ==
    /\ Polls /\ pendingFin
    /\ pendingFin' = FALSE
    /\ waitTimer' = Tick
    /\ Returns(2, ack, FALSE)
    /\ UNCHANGED <<seq, ack, delivered, server, network, toClient>>

(* Mutant: the second count does not look at the first; -1 stands for all *)
(* that is below 0, where only a wrap of the counter would end the wait.   *)
CountTwiceBlind ==
    /\ waitTimer' = IF Tick <= 0 THEN -1 ELSE Tick - 1
    /\ UNCHANGED <<step, waiting, connState, why, toPeer>>

(* The card has no frame: poll counts a second time.                       *)
CountTwice ==
    IF Tick = 0
    THEN waitTimer' = 0 /\ Returns(-1, ack, FALSE)
    ELSE waitTimer' = Tick - 1 /\ UNCHANGED <<step, waiting, connState, why, toPeer>>

PollNoFrame ==
    /\ Polls /\ ~pendingFin
    /\ CountTwice
    /\ UNCHANGED <<seq, ack, pendingFin, delivered, server, network, toClient>>

(* A frame of another protocol, port or length.                            *)
PollOther ==
    /\ Polls /\ ~pendingFin
    /\ waitTimer' = Tick
    /\ UNCHANGED <<step, waiting, conn, delivered, why, server, network, toPeer, toClient>>

waitFlags == IF step = "connect" THEN {"SYN", "ACK"} ELSE {"ACK"}
Accepts(s) == waitFlags \subseteq s.flags

PollUnwanted ==
    /\ Polls /\ ~pendingFin /\ toClient # <<>>
    /\ ~Accepts(Head(toClient))
    /\ toClient' = Tail(toClient)
    /\ waitTimer' = Tick
    /\ UNCHANGED <<step, waiting, conn, delivered, why, server, network, toPeer>>

(* Mutant: only data is acknowledged. *)
NextAckOfData(s) == s.seq + s.len

(* The acknowledgment: one more than the number of a segment without data. *)
NextAck(s) == s.seq + (IF s.len > 0 THEN s.len ELSE 1)

(* Mutant: the FIN is looked at before the data. *)
DeliversUnlessFin(s) == step = "recv" /\ s.len > 0 /\ "FIN" \notin s.flags

(* A FIN that comes with data is kept for the next poll.  Data that comes  *)
(* while connect or close waits is dropped: they pass no buffer.           *)
Delivers(s) == step = "recv" /\ s.len > 0

Result(s) == IF "FIN" \in s.flags /\ ~Delivers(s) THEN 2 ELSE 1

PollAccepts ==
    /\ Polls /\ ~pendingFin /\ toClient # <<>>
    /\ LET s == Head(toClient)
       IN  /\ Accepts(s)
           /\ ack' = NextAck(s)
           /\ delivered' = IF Delivers(s) THEN Append(delivered, s.seq) ELSE delivered
           /\ pendingFin' = (Delivers(s) /\ "FIN" \in s.flags)
           /\ Returns(Result(s), NextAck(s), Delivers(s))
    /\ toClient' = Tail(toClient)
    /\ waitTimer' = MaxTimer
    /\ UNCHANGED <<seq, server, network>>

poll == \/ PollExpired \/ PollPendingFin \/ PollNoFrame
        \/ PollOther \/ PollUnwanted \/ PollAccepts

Client == connect \/ send \/ recv \/ close \/ poll

-----------------------------------------------------------------------------
(* The peer, with its FIN on its last data or by itself.                   *)
Reply(flags, s, len) == toClient' = Append(toClient, Segment(flags, s, rcvNxt', len))

PeerAccepts ==
    /\ peer = "listen" /\ toPeer # <<>>
    /\ "SYN" \in Head(toPeer).flags
    /\ toPeer' = Tail(toPeer)
    /\ peer' = "synReceived" /\ nxt' = 1 /\ rcvNxt' = 1
    /\ Reply({"SYN", "ACK"}, 0, 0)
    /\ UNCHANGED <<una, acks, client, network>>

(* A segment from the client.  One that occupies sequence numbers, or      *)
(* acknowledges what was not sent, is answered with a pure ACK.            *)
PeerReceives ==
    /\ peer \notin {"listen", "reset"} /\ toPeer # <<>>
    /\ toPeer' = Tail(toPeer)
    /\ LET s == Head(toPeer)
           valid == "ACK" \in s.flags /\ s.ack <= nxt
       IN  /\ una' = IF valid /\ s.ack > una THEN s.ack ELSE una
           /\ peer' = IF peer = "synReceived" /\ una' > 0 THEN "established" ELSE peer
           /\ rcvNxt' = IF valid /\ s.seq = rcvNxt THEN Ends(s) ELSE rcvNxt
           /\ \/ Reply({"ACK"}, nxt, 0) /\ acks' = acks + 1 /\ acks < MaxAcks
              \/ UNCHANGED <<toClient, acks>>
    /\ UNCHANGED <<nxt, client, network>>

PeerSends ==
    /\ peer = "established" /\ rcvNxt >= 2
    /\ UNCHANGED rcvNxt
    /\ \/ nxt <= Response /\ Reply({"ACK"}, nxt, 1) /\ nxt' = nxt + 1 /\ UNCHANGED peer
       \/ nxt = Response /\ Reply({"ACK", "FIN"}, nxt, 1) /\ nxt' = nxt + 2 /\ peer' = "finWithData"
       \/ nxt = Response + 1 /\ Reply({"ACK", "FIN"}, nxt, 0) /\ nxt' = nxt + 1 /\ peer' = "fin"
    /\ UNCHANGED <<una, acks, client, network, toPeer>>

Fault == faults < MaxFaults /\ faults' = faults + 1

(* The retransmission timer: the oldest segment not acknowledged.          *)
PeerResends ==
    /\ peer \notin {"listen", "reset"} /\ una < nxt
    /\ Fault
    /\ UNCHANGED rcvNxt
    /\ \/ una = 0 /\ Reply({"SYN", "ACK"}, 0, 0)
       \/ una \in 1 .. Response /\ ~(una = Response /\ peer = "finWithData") /\ Reply({"ACK"}, una, 1)
       \/ una = Response /\ peer = "finWithData" /\ Reply({"ACK", "FIN"}, una, 1)
       \/ una = Response + 1 /\ Reply({"ACK", "FIN"}, una, 0)
    /\ repeated' = (repeated \/ una > 0)
    /\ UNCHANGED <<peer, una, nxt, acks, client, lost, reordered, toPeer>>

PeerResets ==
    /\ peer \notin {"listen", "reset"}
    /\ Fault
    /\ peer' = "reset"
    /\ UNCHANGED rcvNxt
    /\ Reply({"RST", "ACK"}, nxt, 0)
    /\ UNCHANGED <<una, nxt, acks, client, lost, repeated, reordered, toPeer>>

Peer == PeerAccepts \/ PeerReceives \/ PeerSends \/ PeerResends \/ PeerResets

-----------------------------------------------------------------------------
(* The network.                                                            *)
Lose ==
    /\ Fault
    /\ \/ \E i \in DOMAIN toPeer : toPeer' = RemoveAt(toPeer, i) /\ UNCHANGED <<toClient, lost>>
       \/ \E i \in DOMAIN toClient :
             /\ toClient' = RemoveAt(toClient, i)
             /\ lost' = (lost \/ Matters(toClient[i]))
             /\ UNCHANGED toPeer
    /\ UNCHANGED <<client, server, repeated, reordered>>

Repeat ==
    /\ Fault
    /\ \/ \E i \in DOMAIN toPeer : toPeer' = Append(toPeer, toPeer[i]) /\ UNCHANGED <<toClient, repeated>>
       \/ \E i \in DOMAIN toClient :
             /\ toClient' = Append(toClient, toClient[i])
             /\ repeated' = (repeated \/ Matters(toClient[i]))
             /\ UNCHANGED toPeer
    /\ UNCHANGED <<client, server, lost, reordered>>

Swapped(q, i) == [q EXCEPT ![i] = q[i + 1], ![i + 1] = q[i]]

Reorder ==
    /\ Fault
    /\ \/ \E i \in 1 .. Len(toPeer) - 1 : toPeer' = Swapped(toPeer, i) /\ UNCHANGED <<toClient, reordered>>
       \/ \E i \in 1 .. Len(toClient) - 1 :
             /\ toClient' = Swapped(toClient, i)
             /\ reordered' = (reordered \/ (Matters(toClient[i]) /\ Matters(toClient[i + 1])))
             /\ UNCHANGED toPeer
    /\ UNCHANGED <<client, server, lost, repeated>>

Network == Lose \/ Repeat \/ Reorder

(* httpGet has returned, and what is under way stays so.                   *)
Done == step = "end" /\ UNCHANGED tcpVars

TcpNext == Client \/ Peer \/ Network \/ Done

(* The client runs on, whatever the peer and the network do.               *)
TcpSpec == TcpInit /\ [][TcpNext]_tcpVars /\ WF_tcpVars(Client)

-----------------------------------------------------------------------------
(* recv hands out the response from its beginning, each unit once and in   *)
(* order, and reports its end after the last; a unit the network lost is   *)
(* left out.  Only repeated or reordered data makes an exception, for the  *)
(* client looks at no sequence number; whatever happens to SYN and ACK     *)
(* does no harm.                                                           *)
Increasing(q) == \A i, j \in DOMAIN q : i < j => q[i] < q[j]

DeliveredInOrder ==
    ~repeated /\ ~reordered =>
        /\ Increasing(delivered)
        /\ ~lost => /\ \A i \in DOMAIN delivered : delivered[i] = i
                    /\ why = "fin" => Len(delivered) = Response

(* When httpGet has read the response to its end and closed, on a network  *)
(* without faults, the peer knows that everything it sent has arrived: no  *)
(* acknowledgment was skipped, and those that go too far do no harm.  A    *)
(* FIN that came with data is never acknowledged: its number is not        *)
(* counted.                                                                *)
EverythingAcknowledged ==
    step = "end" /\ why = "fin" /\ faults = 0 /\ toPeer = <<>>
    => una = IF peer = "finWithData" THEN nxt - 1 ELSE nxt

(* Every call comes back: the countdown reaches 0 although an empty card   *)
(* counts twice and a frame that is not wanted once.                       *)
CallsReturn == waiting ~> ~waiting
=============================================================================
