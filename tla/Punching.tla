------------------------------ MODULE Punching ------------------------------
(***************************************************************************)
(* Hole punching between two clients: the state each has of the other, its *)
(* queue of pending packets, and the goroutines that work on them          *)
(* (udp_engine.go, peer_table.go, node.go).                                *)
(*                                                                         *)
(* The entry's lock is held for one read or one update at a time: each     *)
(* GetState, UpdateState, EnqueuePacket and FlushPendingPackets that others *)
(* may notice is a step of its own.  Sending a packet commutes with what   *)
(* others do and is part of the step before it.                            *)
(*                                                                         *)
(* Between the two are NATs, which let a packet in when one was sent to    *)
(* where it comes from, and UDP, which delays, reorders and loses packets: *)
(* one sent from an endpoint that its sender has no more may still arrive. *)
(* A copy of a packet is dropped by the tunnel (ReplayWindow).  Each       *)
(* client stays in the other's list, with the same key.                    *)
(*                                                                         *)
(* A client's public endpoint is 0, and 1 once it has changed.             *)
(***************************************************************************)
EXTENDS Naturals

CONSTANTS End,        \* the two clients
          Talker,     \* the clients whose applications send packets
          Typist,     \* the clients whose users type punch
          Mover,      \* the clients whose public endpoint may change, once
          Tries,      \* packets a punch sends (5 in the code)
          QueueLimit, \* a queue longer than this takes no more (100)
          Punch,      \* bound: the punches that may run at a time
          Owner       \* the client that each of them belongs to

ASSUME PunchingAssumption ==
    /\ \E a, b \in End : a # b /\ End = {a, b}
    /\ Talker \subseteq End /\ Typist \subseteq End /\ Mover \subseteq End
    /\ Tries \in Nat
    /\ QueueLimit \in Nat
    /\ Owner \in [Punch -> End]

VARIABLES st,      \* the other's State in each client's table
          queue,   \* the number of PendingPackets
          pump,    \* what the outbound pump is about to do
          reader,  \* what readLoop is about to do
          handler, \* what the receiver of the stream is about to do
          go,      \* the goroutines of Punch
          net,     \* the control packets in flight: to whom, what, and the
                   \* endpoint they come from
          signal,  \* the clients a punch request is on its way to
          addr,    \* ObservedAddr: the other's endpoint as each client sees it
          hole,    \* <<e, i>>: e's NAT lets packets from the other's endpoint i in
          moved,   \* the clients whose endpoint changed
          stun,    \* the clients a STUN answer will tell so
          news     \* the clients a list with the other's new endpoint awaits

tableVars == <<st, queue>>
natVars   == <<hole, moved, stun, news>>
vars      == <<tableVars, pump, reader, handler, go, net, signal, addr, natVars>>

Kind     == {"PUNCH", "PUNCH_ACK"}
Endpoint == {0, 1}
Packet   == End \X Kind \X Endpoint

(* The packet at hand: whether it is to be answered, and where it is from. *)
ReaderState == [pc : {"idle", "look", "connect", "flush"}, ack : BOOLEAN, from : Endpoint]
Waiting     == [pc |-> "idle", ack |-> FALSE, from |-> 0]

Goroutine == [pc : {"idle", "loop", "timeout", "drop"}, left : 0..Tries]
Idle      == [pc |-> "idle", left |-> 0]

(* Every variable has its type; a queue is longer than the limit by one at *)
(* most.                                                                   *)
PunchingTypeOK ==
    /\ st \in [End -> {"disconnected", "punching", "connected"}]
    /\ queue \in [End -> 0..(QueueLimit + 1)]
    /\ pump \in [End -> {"read", "enqueue", "check", "punch"}]
    /\ reader \in [End -> ReaderState]
    /\ handler \in [End -> {"recv", "punch"}]
    /\ go \in [Punch -> Goroutine]
    /\ net \subseteq Packet
    /\ signal \subseteq End
    /\ addr \in [End -> Endpoint]
    /\ hole \subseteq End \X Endpoint
    /\ moved \subseteq Mover /\ stun \subseteq Mover /\ news \subseteq End

Other(e) == CHOOSE f \in End : f # e

Current(e) == IF e \in moved THEN 1 ELSE 0

Init ==
    /\ st = [e \in End |-> "disconnected"]
    /\ queue = [e \in End |-> 0]
    /\ pump = [e \in End |-> "read"]
    /\ reader = [e \in End |-> Waiting]
    /\ handler = [e \in End |-> "recv"]
    /\ go = [g \in Punch |-> Idle]
    /\ net = {} /\ signal = {}
    /\ addr = [e \in End |-> 0]
    /\ hole = {}
    /\ moved = {} /\ stun = {} /\ news = {}

-----------------------------------------------------------------------------
(* The network.                                                            *)

(* sendControlPacket, to the other's endpoint i: it opens e's NAT, and gets *)
(* nowhere if the other has that endpoint no more.                         *)
Send(e, kind, i) ==
    /\ hole' = hole \cup {<<e, i>>}
    /\ net' = IF i = Current(Other(e)) THEN net \cup {<<Other(e), kind, Current(e)>>} ELSE net

(* SendDataPacket: what matters here is that it opens e's NAT. *)
SendData(e, i) == hole' = hole \cup {<<e, i>>}

(* UDP loses a packet, or the server cannot pass on a request. *)
Lose ==
    /\ \/ \E p \in net : net' = net \ {p} /\ UNCHANGED signal
       \/ \E e \in signal : signal' = signal \ {e} /\ UNCHANGED net
    /\ UNCHANGED <<tableVars, pump, reader, handler, go, addr, natVars>>

(* e's NAT gives it a new endpoint, which lets nothing in.  Of the packets *)
(* to the old one, those go on that are past the NAT: they wait in e's     *)
(* socket, ahead of the STUN answer.                                       *)
Remap(e) ==
    /\ e \in Mover \ moved
    /\ moved' = moved \cup {e}
    /\ stun' = stun \cup {e}
    /\ hole' = {h \in hole : h[1] # e}
    /\ net' = {p \in net : p[1] = e => <<e, p[3]>> \in hole}
    /\ UNCHANGED <<tableVars, pump, reader, handler, go, signal, addr, news>>

-----------------------------------------------------------------------------
(* Punch.  It sets the state, whatever it was, starts a goroutine, and     *)
(* asks the other to punch as well.  Of several requests on their way to   *)
(* the same client one is kept.                                            *)
StartPunch(e) ==
    /\ st' = [st EXCEPT ![e] = "punching"]
    /\ \E g \in Punch :
         /\ Owner[g] = e /\ go[g] = Idle
         /\ go' = [go EXCEPT ![g] = [pc |-> "loop", left |-> Tries]]
    /\ signal' = signal \cup {Other(e)}

Finish(g) == go' = [go EXCEPT ![g] = Idle]

(* One round of the goroutine: it stops when the peer is connected. *)
GoSend(g) ==
    /\ go[g].pc = "loop" /\ go[g].left > 0
    /\ IF st[Owner[g]] = "connected"
       THEN Finish(g) /\ UNCHANGED <<net, hole>>
       ELSE /\ go' = [go EXCEPT ![g].left = @ - 1]
            /\ Send(Owner[g], "PUNCH", addr[Owner[g]])
    /\ UNCHANGED <<tableVars, pump, reader, handler, signal, addr, moved, stun, news>>

(* After the last round it looks whether the hole is still being punched, *)
GoCheck(g) ==
    /\ go[g].pc = "loop" /\ go[g].left = 0
    /\ IF st[Owner[g]] = "punching"
       THEN go' = [go EXCEPT ![g].pc = "timeout"]
       ELSE Finish(g)
    /\ UNCHANGED <<tableVars, pump, reader, handler, net, signal, addr, natVars>>

(* takes the state back, *)
GoTimeout(g) ==
    /\ go[g].pc = "timeout"
    /\ go' = [go EXCEPT ![g].pc = "drop"]
    /\ st' = [st EXCEPT ![Owner[g]] = "disconnected"]
    /\ UNCHANGED <<queue, pump, reader, handler, net, signal, addr, natVars>>

(* and drops the packets that wait. *)
GoDrop(g) ==
    /\ go[g].pc = "drop"
    /\ Finish(g)
    /\ queue' = [queue EXCEPT ![Owner[g]] = 0]
    /\ UNCHANGED <<st, pump, reader, handler, net, signal, addr, natVars>>

-----------------------------------------------------------------------------
(* The pump: a packet from the network stack is sent or, when the peer is  *)
(* not connected, queued; then a punch is started unless one is going on.  *)
PumpRead(e) ==
    /\ e \in Talker /\ pump[e] = "read"
    /\ IF st[e] = "connected"
       THEN SendData(e, addr[e]) /\ UNCHANGED pump
       ELSE pump' = [pump EXCEPT ![e] = "enqueue"] /\ UNCHANGED hole
    /\ UNCHANGED <<tableVars, reader, handler, go, net, signal, addr, moved, stun, news>>

EnqueuedLong(n) == IF n > QueueLimit + 1 THEN n ELSE n + 1  \* mutant: one more

(* EnqueuePacket drops a packet when the queue is longer than the limit. *)
Enqueued(n) == IF n > QueueLimit THEN n ELSE n + 1

PumpEnqueue(e) ==
    /\ pump[e] = "enqueue"
    /\ pump' = [pump EXCEPT ![e] = "check"]
    /\ queue' = [queue EXCEPT ![e] = Enqueued(@)]
    /\ UNCHANGED <<st, reader, handler, go, net, signal, addr, natVars>>

\* Mutant: a connected peer needs no punch.
PumpCheckIdle(e) ==
    /\ pump[e] = "check"
    /\ pump' = [pump EXCEPT ![e] = IF st[e] = "disconnected" THEN "punch" ELSE "read"]
    /\ UNCHANGED <<tableVars, reader, handler, go, net, signal, addr, natVars>>

PumpCheck(e) ==
    /\ pump[e] = "check"
    /\ pump' = [pump EXCEPT ![e] = IF st[e] = "punching" THEN "read" ELSE "punch"]
    /\ UNCHANGED <<tableVars, reader, handler, go, net, signal, addr, natVars>>

PumpPunch(e) ==
    /\ pump[e] = "punch"
    /\ pump' = [pump EXCEPT ![e] = "read"]
    /\ StartPunch(e)
    /\ UNCHANGED <<queue, reader, handler, net, addr, natVars>>

-----------------------------------------------------------------------------
(* readLoop, handleControlPacket.  Whatever came in, where it came from is *)
(* the other's endpoint from now on.  The first packet makes the           *)
(* connection and flushes the queue; a PUNCH is answered.                  *)
Read(e, kind, from) ==
    /\ reader[e].pc = "idle"
    /\ <<e, kind, from>> \in net /\ (<<e, from>> \in hole \/ e \in stun)
    /\ net' = net \ {<<e, kind, from>>}
    /\ addr' = [addr EXCEPT ![e] = from]
    /\ reader' = [reader EXCEPT ![e] =
                    [pc |-> "look", ack |-> (kind = "PUNCH"), from |-> from]]
    /\ UNCHANGED <<tableVars, pump, handler, go, signal, natVars>>

ReadLook(e) ==
    /\ reader[e].pc = "look"
    /\ IF st[e] = "connected"
       THEN /\ reader' = [reader EXCEPT ![e] = Waiting]
            /\ IF reader[e].ack THEN Send(e, "PUNCH_ACK", reader[e].from)
               ELSE UNCHANGED <<net, hole>>
       ELSE reader' = [reader EXCEPT ![e].pc = "connect"] /\ UNCHANGED <<net, hole>>
    /\ UNCHANGED <<tableVars, pump, handler, go, signal, addr, moved, stun, news>>

ReadConnect(e) ==
    /\ reader[e].pc = "connect"
    /\ reader' = [reader EXCEPT ![e].pc = "flush"]
    /\ st' = [st EXCEPT ![e] = "connected"]
    /\ UNCHANGED <<queue, pump, handler, go, net, signal, addr, natVars>>

ReadFlush(e) ==
    /\ reader[e].pc = "flush"
    /\ reader' = [reader EXCEPT ![e] = Waiting]
    /\ queue' = [queue EXCEPT ![e] = 0]
    /\ IF reader[e].ack THEN Send(e, "PUNCH_ACK", reader[e].from)
       ELSE /\ IF queue[e] > 0 THEN SendData(e, reader[e].from) ELSE UNCHANGED hole
            /\ UNCHANGED net
    /\ UNCHANGED <<st, pump, handler, go, signal, addr, moved, stun, news>>

(* A STUN answer shows that the endpoint changed: all connections are      *)
(* reset, and the next heartbeat makes the server tell the other.  What    *)
(* came before the change has been read by then, or was lost.              *)
ReadStun(e) ==
    /\ reader[e].pc = "idle" /\ e \in stun
    /\ stun' = stun \ {e}
    /\ st' = [st EXCEPT ![e] = "disconnected"]
    /\ news' = news \cup {Other(e)}
    /\ net' = {p \in net : p[1] # e}
    /\ UNCHANGED <<queue, pump, reader, handler, go, signal, addr, hole, moved>>

-----------------------------------------------------------------------------
(* The receiver of the stream.  HandleSignal: a client that is asked to    *)
(* punch does, if it is idle.                                              *)
HandleSignal(e) ==
    /\ handler[e] = "recv" /\ e \in signal
    /\ signal' = signal \ {e}
    /\ handler' = IF st[e] = "disconnected" THEN [handler EXCEPT ![e] = "punch"] ELSE handler
    /\ UNCHANGED <<tableVars, pump, reader, go, net, addr, natVars>>

HandlerPunch(e) ==
    /\ handler[e] = "punch"
    /\ handler' = [handler EXCEPT ![e] = "recv"]
    /\ StartPunch(e)
    /\ UNCHANGED <<queue, pump, reader, net, addr, natVars>>

\* Mutants: the state is kept; the endpoint that was observed is kept.
SyncPeersKeepState(e) ==
    /\ handler[e] = "recv" /\ e \in news
    /\ news' = news \ {e}
    /\ addr' = [addr EXCEPT ![e] = Current(Other(e))]
    /\ UNCHANGED <<tableVars, pump, reader, handler, go, net, signal, hole, moved, stun>>

SyncPeersKeepAddr(e) ==
    /\ handler[e] = "recv" /\ e \in news
    /\ news' = news \ {e}
    /\ st' = [st EXCEPT ![e] = "disconnected"]
    /\ queue' = [queue EXCEPT ![e] = 0]
    /\ UNCHANGED <<pump, reader, handler, go, net, signal, addr, hole, moved, stun>>

(* SyncPeers with a new endpoint of the other. *)
SyncPeers(e) ==
    /\ handler[e] = "recv" /\ e \in news
    /\ news' = news \ {e}
    /\ addr' = [addr EXCEPT ![e] = Current(Other(e))]
    /\ st' = [st EXCEPT ![e] = "disconnected"]
    /\ queue' = [queue EXCEPT ![e] = 0]
    /\ UNCHANGED <<pump, reader, handler, go, net, signal, hole, moved, stun>>

(* The keep-alive sends to peers that are connected or being punched. *)
KeepAlive(e) ==
    /\ st[e] # "disconnected"
    /\ Send(e, "PUNCH", addr[e])
    /\ UNCHANGED <<tableVars, pump, reader, handler, go, signal, addr, moved, stun, news>>

(* The user types punch, whatever the state. *)
Type(e) ==
    /\ e \in Typist
    /\ StartPunch(e)
    /\ UNCHANGED <<queue, pump, reader, handler, net, addr, natVars>>

-----------------------------------------------------------------------------
PunchRun(g) == GoSend(g) \/ GoCheck(g) \/ GoTimeout(g) \/ GoDrop(g)
Pump(e)        == PumpEnqueue(e) \/ PumpCheck(e) \/ PumpPunch(e)
ReadLoop(e)    == ReadLook(e) \/ ReadConnect(e) \/ ReadFlush(e) \/ ReadStun(e)
ReadAny(e)     == \E kind \in Kind, from \in Endpoint : Read(e, kind, from)

Lossless ==
    \/ \E g \in Punch : PunchRun(g)
    \/ \E e \in End :
         \/ PumpRead(e) \/ Pump(e)
         \/ ReadAny(e) \/ ReadLoop(e)
         \/ HandleSignal(e) \/ HandlerPunch(e) \/ SyncPeers(e)
         \/ KeepAlive(e) \/ Type(e) \/ Remap(e)

Next == Lossless \/ Lose

Spec == Init /\ [][Next]_vars

(* A changed endpoint resets the state that a punch has set, and leaves    *)
(* the queue that the punch would have flushed or dropped                  *)
(* (peer_table.go:210-219).                                                *)
Interrupts(e) == st[e] = "punching" /\ queue[e] > 0 /\ ReadStun(e)

(* A list with a new endpoint comes between the reader's update of the     *)
(* endpoint and that of the state (udp_engine.go:163-171), which says      *)
(* connected of an endpoint that nothing came from.                        *)
Overtakes(e) == reader[e].pc \in {"look", "connect"} /\ SyncPeers(e)

(* A packet from the old endpoint comes in after the list, and the reader  *)
(* takes the old endpoint for the current one again (udp_engine.go:163).   *)
Outdated(e) ==
    /\ e \notin news /\ Other(e) \notin stun
    /\ \E kind \in Kind, from \in Endpoint : from # Current(Other(e)) /\ Read(e, kind, from)

Uninterrupted == Init /\ [][Next /\ \A e \in End : ~Interrupts(e)]_vars
InOrder       == Init /\ [][Next /\ \A e \in End : ~Overtakes(e) /\ ~Outdated(e)]_vars

(* The goroutines run, the keep-alive's ticker fires, and lists arrive.    *)
(* Packets and requests that are sent again and again get through in the   *)
(* end; which of several kinds of packets does is left open.               *)
Fairness ==
    /\ \A g \in Punch : WF_vars(PunchRun(g))
    /\ \A e \in End :
         /\ WF_vars(Pump(e)) /\ WF_vars(ReadLoop(e)) /\ WF_vars(KeepAlive(e))
         /\ WF_vars(HandlerPunch(e)) /\ SF_vars(SyncPeers(e))
         /\ SF_vars(HandleSignal(e))
         /\ SF_vars(ReadAny(e))

(* The applications of Talker never stop sending. *)
TalkingFairness == Fairness /\ \A e \in Talker : WF_vars(PumpRead(e))

-----------------------------------------------------------------------------
(* A packet in the queue is always somebody's business: the pump will      *)
(* start a punch, the reader will flush, a goroutine will drop it, or a    *)
(* punch is going on that will end in one of these.  The pump tests the    *)
(* state, enqueues and tests again while reader, goroutines and stream     *)
(* change the state.  It holds unless a changed endpoint interrupts a      *)
(* punch.                                                                  *)
Cared(e) ==
    \/ pump[e] \in {"check", "punch"}
    \/ reader[e].pc = "flush"
    \/ \E g \in Punch : Owner[g] = e /\ go[g].pc = "drop"
    \/ /\ st[e] = "punching"
       /\ \E g \in Punch : Owner[g] = e /\ go[g].pc \in {"loop", "timeout"}

NoStuckPacket == \A e \in End : queue[e] > 0 => Cared(e)

(* A client that takes the other for connected can reach it and be         *)
(* reached, unless an endpoint changed and the client is about to hear of  *)
(* it: a packet came in, for which both must have sent one.  It holds      *)
(* unless a list overtakes the reader or a packet from the old endpoint    *)
(* comes in after the list.                                                *)
Open(e) ==
    /\ addr[e] = Current(Other(e))
    /\ <<e, Current(Other(e))>> \in hole
    /\ <<Other(e), Current(e)>> \in hole

OpenWhenConnected ==
    \A e \in End : st[e] = "connected" => Open(e) \/ stun # {} \/ e \in news
=============================================================================
