--------------------------- MODULE PunchingProofs ---------------------------
(***************************************************************************)
(* Proofs about Punching, for any number of punches, any number of tries   *)
(* and any limit of the queue: its type invariant, that no packet is stuck *)
(* unless a changed endpoint interrupts a punch, and that connected means  *)
(* reachable unless a list overtakes the reader or a packet from an        *)
(* endpoint that its sender has left comes in after the list.              *)
(***************************************************************************)
EXTENDS Punching, TLAPS

LEMMA OtherType ==
    ASSUME NEW e \in End
    PROVE  Other(e) \in End /\ Other(e) # e /\ Other(Other(e)) = e /\ End = {e, Other(e)}
<1>1. PICK a, b \in End : a # b /\ End = {a, b}
  BY PunchingAssumption
<1>2. \A x \in End : \E y \in End : y # x
  BY <1>1
<1>3. Other(e) \in End /\ Other(e) # e
  BY <1>2 DEF Other
<1>4. Other(Other(e)) \in End /\ Other(Other(e)) # Other(e)
  BY <1>2, <1>3 DEF Other
<1> QED
  BY <1>1, <1>3, <1>4

LEMMA CurrentType == ASSUME NEW e \in End PROVE Current(e) \in Endpoint
  BY DEF Current, Endpoint

-----------------------------------------------------------------------------
(* Types. *)

LEMMA SendType ==
    ASSUME PunchingTypeOK, NEW e \in End, NEW kind \in Kind, NEW i \in Endpoint,
           Send(e, kind, i)
    PROVE  net' \subseteq Packet /\ hole' \subseteq End \X Endpoint
<1>1. <<Other(e), kind, Current(e)>> \in Packet /\ <<e, i>> \in End \X Endpoint
  BY OtherType, CurrentType DEF Packet
<1> QED
  BY <1>1 DEF Send, PunchingTypeOK

LEMMA ReaderType ==
    ASSUME PunchingTypeOK, NEW e \in End
    PROVE  /\ reader[e] \in ReaderState
           /\ reader[e].from \in Endpoint
           /\ addr[e] \in Endpoint
           /\ \A pc \in {"idle", "look", "connect", "flush"} :
                [reader EXCEPT ![e].pc = pc] \in [End -> ReaderState]
           /\ [reader EXCEPT ![e] = Waiting] \in [End -> ReaderState]
<1>1. reader[e] \in ReaderState /\ Waiting \in ReaderState
  BY DEF PunchingTypeOK, Waiting, ReaderState, Endpoint
<1>2. ASSUME NEW pc \in {"idle", "look", "connect", "flush"}
      PROVE  [reader EXCEPT ![e].pc = pc] \in [End -> ReaderState]
  <2>1. [reader[e] EXCEPT !.pc = pc] \in ReaderState
    BY <1>1 DEF ReaderState
  <2> QED
    BY <2>1 DEF PunchingTypeOK
<1>3. reader[e].from \in Endpoint
  BY <1>1 DEF ReaderState
<1> QED
  BY <1>1, <1>2, <1>3 DEF PunchingTypeOK

LEMMA StartPunchType ==
    ASSUME PunchingTypeOK, NEW e \in End, StartPunch(e)
    PROVE  /\ st' \in [End -> {"disconnected", "punching", "connected"}]
           /\ go' \in [Punch -> Goroutine]
           /\ signal' \subseteq End
<1>1. [pc |-> "loop", left |-> Tries] \in Goroutine
  BY PunchingAssumption DEF Goroutine
<1> QED
  BY <1>1, OtherType DEF PunchingTypeOK, StartPunch

LEMMA PunchRunType ==
    ASSUME PunchingTypeOK, NEW g \in Punch, PunchRun(g)
    PROVE  PunchingTypeOK'
<1>1. Owner[g] \in End /\ Tries \in Nat
  BY PunchingAssumption
<1>2. Idle \in Goroutine
  BY <1>1 DEF Idle, Goroutine
<1>3. CASE GoSend(g)
  <2>1. go' \in [Punch -> Goroutine]
    BY <1>1, <1>2, <1>3 DEF GoSend, Finish, PunchingTypeOK, Goroutine
  <2>2. net' \subseteq Packet /\ hole' \subseteq End \X Endpoint
    <3>1. CASE st[Owner[g]] = "connected"
      BY <1>3, <3>1 DEF GoSend, PunchingTypeOK
    <3>2. CASE st[Owner[g]] # "connected"
      BY <1>1, <1>3, <3>2, SendType, ReaderType DEF GoSend, Kind
    <3> QED
      BY <3>1, <3>2
  <2> QED
    BY <1>3, <2>1, <2>2 DEF GoSend, PunchingTypeOK, tableVars
<1>4. CASE GoCheck(g)
  <2>1. go' \in [Punch -> Goroutine]
    BY <1>2, <1>4 DEF GoCheck, Finish, PunchingTypeOK, Goroutine
  <2> QED
    BY <1>4, <2>1 DEF GoCheck, PunchingTypeOK, tableVars, natVars
<1>5. CASE GoTimeout(g)
  <2>1. go' \in [Punch -> Goroutine]
    BY <1>5 DEF GoTimeout, PunchingTypeOK, Goroutine
  <2> QED
    BY <1>1, <1>5, <2>1 DEF GoTimeout, PunchingTypeOK, natVars
<1>6. CASE GoDrop(g)
  <2>1. go' \in [Punch -> Goroutine]
    BY <1>2, <1>6 DEF GoDrop, Finish, PunchingTypeOK
  <2>2. queue' \in [End -> 0..(QueueLimit + 1)]
    BY <1>6, PunchingAssumption DEF GoDrop, PunchingTypeOK
  <2> QED
    BY <1>6, <2>1, <2>2 DEF GoDrop, PunchingTypeOK, natVars
<1> QED
  BY <1>3, <1>4, <1>5, <1>6 DEF PunchRun

LEMMA PumpType ==
    ASSUME PunchingTypeOK, NEW e \in End, PumpRead(e) \/ Pump(e)
    PROVE  PunchingTypeOK'
<1>1. CASE PumpRead(e)
  <2>1. hole' \subseteq End \X Endpoint
    BY <1>1, ReaderType DEF PumpRead, SendData, PunchingTypeOK
  <2> QED
    BY <1>1, <2>1 DEF PumpRead, PunchingTypeOK, tableVars
<1>2. CASE PumpEnqueue(e)
  <2>1. queue' \in [End -> 0..(QueueLimit + 1)]
    BY <1>2, PunchingAssumption DEF PumpEnqueue, Enqueued, PunchingTypeOK
  <2> QED
    BY <1>2, <2>1 DEF PumpEnqueue, PunchingTypeOK, natVars
<1>3. CASE PumpCheck(e)
  BY <1>3 DEF PumpCheck, PunchingTypeOK, tableVars, natVars
<1>4. CASE PumpPunch(e)
  BY <1>4, StartPunchType DEF PumpPunch, PunchingTypeOK, natVars
<1> QED
  BY <1>1, <1>2, <1>3, <1>4 DEF Pump

LEMMA ReadType ==
    ASSUME PunchingTypeOK, NEW e \in End, ReadAny(e)
    PROVE  PunchingTypeOK'
<1>1. PICK kind \in Kind, from \in Endpoint : Read(e, kind, from)
  BY DEF ReadAny
<1>2. addr' \in [End -> Endpoint]
  BY <1>1 DEF Read, PunchingTypeOK
<1>3. [pc |-> "look", ack |-> (kind = "PUNCH"), from |-> from] \in ReaderState
  BY DEF ReaderState
<1>4. reader' \in [End -> ReaderState]
  BY <1>1, <1>3 DEF Read, PunchingTypeOK
<1> QED
  BY <1>1, <1>2, <1>4 DEF Read, PunchingTypeOK, tableVars, natVars

LEMMA ReadLoopType ==
    ASSUME PunchingTypeOK, NEW e \in End, ReadLoop(e)
    PROVE  PunchingTypeOK'
<1>1. CASE ReadLook(e)
  <2>1. reader' \in [End -> ReaderState]
    BY <1>1, ReaderType DEF ReadLook
  <2>2. net' \subseteq Packet /\ hole' \subseteq End \X Endpoint
    <3>1. CASE st[e] = "connected" /\ reader[e].ack
      BY <1>1, <3>1, SendType, ReaderType DEF ReadLook, Kind
    <3>2. CASE ~(st[e] = "connected" /\ reader[e].ack)
      BY <1>1, <3>2 DEF ReadLook, PunchingTypeOK
    <3> QED
      BY <3>1, <3>2
  <2> QED
    BY <1>1, <2>1, <2>2 DEF ReadLook, PunchingTypeOK, tableVars
<1>2. CASE ReadConnect(e)
  <2>1. reader' \in [End -> ReaderState]
    BY <1>2, ReaderType DEF ReadConnect
  <2> QED
    BY <1>2, <2>1 DEF ReadConnect, PunchingTypeOK, natVars
<1>3. CASE ReadFlush(e)
  <2>1. reader' \in [End -> ReaderState]
    BY <1>3, ReaderType DEF ReadFlush
  <2>2. queue' \in [End -> 0..(QueueLimit + 1)]
    BY <1>3, PunchingAssumption DEF ReadFlush, PunchingTypeOK
  <2>3. net' \subseteq Packet /\ hole' \subseteq End \X Endpoint
    <3>1. CASE reader[e].ack
      BY <1>3, <3>1, SendType, ReaderType DEF ReadFlush, Kind
    <3>2. CASE ~reader[e].ack
      <4>1. <<e, reader[e].from>> \in End \X Endpoint
        BY ReaderType
      <4> QED
        BY <1>3, <3>2, <4>1 DEF ReadFlush, SendData, PunchingTypeOK
    <3> QED
      BY <3>1, <3>2
  <2> QED
    BY <1>3, <2>1, <2>2, <2>3 DEF ReadFlush, PunchingTypeOK
<1>4. CASE ReadStun(e)
  <2>1. st' \in [End -> {"disconnected", "punching", "connected"}]
    BY <1>4 DEF ReadStun, PunchingTypeOK
  <2> QED
    BY <1>4, <2>1, OtherType DEF ReadStun, PunchingTypeOK
<1> QED
  BY <1>1, <1>2, <1>3, <1>4 DEF ReadLoop

LEMMA StreamType ==
    ASSUME PunchingTypeOK, NEW e \in End,
           HandleSignal(e) \/ HandlerPunch(e) \/ SyncPeers(e)
    PROVE  PunchingTypeOK'
<1>1. CASE HandleSignal(e)
  BY <1>1 DEF HandleSignal, PunchingTypeOK, tableVars, natVars
<1>2. CASE HandlerPunch(e)
  BY <1>2, StartPunchType DEF HandlerPunch, PunchingTypeOK, natVars
<1>3. CASE SyncPeers(e)
  <2>1. queue' \in [End -> 0..(QueueLimit + 1)]
    BY <1>3, PunchingAssumption DEF SyncPeers, PunchingTypeOK
  <2>2. addr' \in [End -> Endpoint]
    BY <1>3, OtherType, CurrentType DEF SyncPeers, PunchingTypeOK
  <2> QED
    BY <1>3, <2>1, <2>2 DEF SyncPeers, PunchingTypeOK
<1> QED
  BY <1>1, <1>2, <1>3

LEMMA OutsideType ==
    ASSUME PunchingTypeOK, NEW e \in End, KeepAlive(e) \/ Type(e) \/ Remap(e)
    PROVE  PunchingTypeOK'
<1>1. CASE KeepAlive(e)
  <2>1. net' \subseteq Packet /\ hole' \subseteq End \X Endpoint
    BY <1>1, SendType, ReaderType DEF KeepAlive, Kind
  <2> QED
    BY <1>1, <2>1 DEF KeepAlive, PunchingTypeOK, tableVars
<1>2. CASE Type(e)
  BY <1>2, StartPunchType DEF Type, PunchingTypeOK, natVars
<1>3. CASE Remap(e)
  BY <1>3 DEF Remap, PunchingTypeOK, tableVars
<1> QED
  BY <1>1, <1>2, <1>3

LEMMA TypeInit == Init => PunchingTypeOK
  BY PunchingAssumption
     DEF Init, PunchingTypeOK, Waiting, ReaderState, Endpoint, Idle, Goroutine

LEMMA TypeStep == PunchingTypeOK /\ [Next]_vars => PunchingTypeOK'
<1> SUFFICES ASSUME PunchingTypeOK, [Next]_vars
             PROVE  PunchingTypeOK'
  OBVIOUS
<1>1. CASE Lossless
  BY <1>1, PunchRunType, PumpType, ReadType, ReadLoopType, StreamType, OutsideType
     DEF Lossless
<1>2. CASE Lose
  BY <1>2 DEF Lose, PunchingTypeOK, tableVars, natVars
<1>3. CASE UNCHANGED vars
  BY <1>3 DEF vars, tableVars, natVars, PunchingTypeOK
<1> QED
  BY <1>1, <1>2, <1>3 DEF Next

(* Every variable has its type; a queue is longer than its limit by one at *)
(* most (peer_table.go:293).                                               *)
THEOREM PunchingTypeCorrect == Spec => []PunchingTypeOK
  BY TypeInit, TypeStep, PTL DEF Spec

-----------------------------------------------------------------------------
(* No packet is stuck. *)

(* The goroutines of e that are at one of the statements in pcs. *)
Some(e, pcs) == \E g \in Punch : Owner[g] = e /\ go[g].pc \in pcs

(* Who takes care of the packets depends on the state.  While punching, a  *)
(* goroutine goes on; one that leaves before its time has seen a           *)
(* connection, and then the reader will flush what came before; one that   *)
(* took the state back will drop them; what came after that makes the pump *)
(* punch.                                                                  *)
Tended(e) ==
    /\ st[e] = "punching" => Some(e, {"loop", "timeout"})
    /\ queue[e] > 0 =>
         \/ st[e] = "punching"
         \/ pump[e] \in {"check", "punch"}
         \/ reader[e].pc = "flush"
         \/ st[e] = "disconnected" /\ Some(e, {"drop"})

TendedInv == PunchingTypeOK /\ \A e \in End : Tended(e)

LEMMA StartPunchTended ==
    ASSUME PunchingTypeOK, NEW e \in End, NEW f \in End, Tended(f), StartPunch(e),
           queue' = queue, reader' = reader,
           f # e => pump'[f] = pump[f]
    PROVE  Tended(f)'
<1>1. CASE f = e
  <2>1. PICK g \in Punch : Owner[g] = e /\ go'[g].pc = "loop"
    BY DEF StartPunch, PunchingTypeOK
  <2>2. st'[e] = "punching"
    BY DEF StartPunch, PunchingTypeOK
  <2>3. Some(e, {"loop", "timeout"})'
    BY <2>1 DEF Some
  <2> QED
    BY <1>1, <2>2, <2>3 DEF Tended
<1>2. CASE f # e
  <2>1. \A g \in Punch : Owner[g] = f => go'[g] = go[g]
    BY <1>2 DEF StartPunch, PunchingTypeOK
  <2>2. st'[f] = st[f]
    BY <1>2 DEF StartPunch, PunchingTypeOK
  <2> QED
    BY <1>2, <2>1, <2>2 DEF Tended, Some
<1> QED
  BY <1>1, <1>2

LEMMA PunchRunTended ==
    ASSUME PunchingTypeOK, NEW g \in Punch, NEW f \in End, Tended(f), PunchRun(g)
    PROVE  Tended(f)'
<1>1. Owner[g] \in End
  BY PunchingAssumption
<1>2. \A h \in Punch : h # g => go'[h] = go[h]
  BY DEF PunchRun, GoSend, GoCheck, GoTimeout, GoDrop, Finish, PunchingTypeOK
<1>3. CASE f # Owner[g]
  <2>1. st'[f] = st[f] /\ queue'[f] = queue[f] /\ pump'[f] = pump[f] /\ reader'[f] = reader[f]
    BY <1>1, <1>3 DEF PunchRun, GoSend, GoCheck, GoTimeout, GoDrop,
                      PunchingTypeOK, tableVars
  <2>2. \A h \in Punch : Owner[h] = f => go'[h] = go[h]
    BY <1>2, <1>3
  <2> QED
    BY <2>1, <2>2 DEF Tended, Some
<1>4. CASE f = Owner[g] /\ GoSend(g)
  <2>1. /\ st' = st /\ queue' = queue /\ pump' = pump /\ reader' = reader
        /\ go[g].pc = "loop"
    BY <1>4 DEF GoSend, tableVars
  <2>2. st[f] # "connected" => go'[g].pc = "loop"
    BY <1>4 DEF GoSend, PunchingTypeOK, Goroutine
  <2> QED
    BY <1>2, <2>1, <2>2 DEF Tended, Some
<1>5. CASE f = Owner[g] /\ GoCheck(g)
  <2>1. /\ st' = st /\ queue' = queue /\ pump' = pump /\ reader' = reader
        /\ go[g].pc = "loop"
    BY <1>5 DEF GoCheck, tableVars
  <2>2. st[f] = "punching" => go'[g].pc = "timeout"
    BY <1>5 DEF GoCheck, PunchingTypeOK, Goroutine
  <2> QED
    BY <1>2, <2>1, <2>2 DEF Tended, Some
<1>6. CASE f = Owner[g] /\ GoTimeout(g)
  <2>1. st'[f] = "disconnected" /\ go'[g].pc = "drop"
    BY <1>1, <1>6 DEF GoTimeout, PunchingTypeOK, Goroutine
  <2> QED
    BY <1>6, <2>1 DEF Tended, Some
<1>7. CASE f = Owner[g] /\ GoDrop(g)
  <2>1. queue'[f] = 0 /\ st' = st /\ go[g].pc = "drop"
    BY <1>1, <1>7 DEF GoDrop, PunchingTypeOK
  <2> QED
    BY <1>2, <2>1 DEF Tended, Some
<1> QED
  BY <1>3, <1>4, <1>5, <1>6, <1>7 DEF PunchRun

LEMMA PumpTended ==
    ASSUME PunchingTypeOK, NEW e \in End, NEW f \in End, Tended(f), PumpRead(e) \/ Pump(e)
    PROVE  Tended(f)'
<1>1. CASE PumpRead(e)
  <2>1. /\ st' = st /\ queue' = queue /\ reader' = reader /\ go' = go
        /\ pump[f] \in {"check", "punch"} => pump'[f] = pump[f]
    BY <1>1 DEF PumpRead, PunchingTypeOK, tableVars
  <2> QED
    BY <2>1 DEF Tended, Some
<1>2. CASE PumpEnqueue(e)
  BY <1>2 DEF PumpEnqueue, Tended, Some, PunchingTypeOK
<1>3. CASE PumpCheck(e)
  BY <1>3 DEF PumpCheck, Tended, Some, PunchingTypeOK, tableVars
<1>4. CASE PumpPunch(e)
  <2>1. queue' = queue /\ reader' = reader /\ (f # e => pump'[f] = pump[f])
    BY <1>4 DEF PumpPunch, PunchingTypeOK
  <2> QED
    BY <1>4, <2>1, StartPunchTended DEF PumpPunch
<1> QED
  BY <1>1, <1>2, <1>3, <1>4 DEF Pump

(* The reader: it is about to flush when it makes the connection. *)
LEMMA ReaderTended ==
    ASSUME PunchingTypeOK, NEW e \in End, NEW f \in End, Tended(f),
           ReadAny(e) \/ ReadLook(e) \/ ReadConnect(e) \/ ReadFlush(e)
    PROVE  Tended(f)'
<1>1. CASE ReadAny(e) \/ ReadLook(e)
  <2>1. /\ st' = st /\ queue' = queue /\ pump' = pump /\ go' = go
        /\ reader[f].pc = "flush" => reader'[f].pc = "flush"
    BY <1>1 DEF ReadAny, Read, ReadLook, PunchingTypeOK, tableVars
  <2> QED
    BY <2>1 DEF Tended, Some
<1>2. CASE ReadConnect(e)
  <2>1. /\ queue' = queue /\ pump' = pump /\ go' = go
        /\ f # e => st'[f] = st[f] /\ reader'[f] = reader[f]
        /\ st'[e] = "connected" /\ reader'[e].pc = "flush"
    BY <1>2 DEF ReadConnect, PunchingTypeOK, ReaderState
  <2> QED
    BY <2>1 DEF Tended, Some
<1>3. CASE ReadFlush(e)
  <2>1. /\ st' = st /\ pump' = pump /\ go' = go
        /\ f # e => queue'[f] = queue[f] /\ reader'[f] = reader[f]
        /\ queue'[e] = 0
    BY <1>3 DEF ReadFlush, PunchingTypeOK
  <2> QED
    BY <2>1 DEF Tended, Some
<1> QED
  BY <1>1, <1>2, <1>3

LEMMA TendedInit == Init => TendedInv
  BY TypeInit DEF Init, TendedInv, Tended

LEMMA TendedStep ==
    ASSUME TendedInv, [Next /\ \A e \in End : ~Interrupts(e)]_vars
    PROVE  TendedInv'
<1>1. PunchingTypeOK'
  BY TypeStep DEF TendedInv
<1>2. ASSUME NEW f \in End
      PROVE  Tended(f)'
  <2>1. PunchingTypeOK /\ Tended(f)
    BY DEF TendedInv
  <2>2. ASSUME NEW g \in Punch, PunchRun(g)
        PROVE  Tended(f)'
    BY <2>1, <2>2, PunchRunTended
  <2>3. ASSUME NEW e \in End, PumpRead(e) \/ Pump(e)
        PROVE  Tended(f)'
    BY <2>1, <2>3, PumpTended
  <2>4. ASSUME NEW e \in End,
               ReadAny(e) \/ ReadLook(e) \/ ReadConnect(e) \/ ReadFlush(e)
        PROVE  Tended(f)'
    BY <2>1, <2>4, ReaderTended
  <2>5. ASSUME NEW e \in End, HandlerPunch(e) \/ Type(e)
        PROVE  Tended(f)'
    <3>1. StartPunch(e) /\ queue' = queue /\ reader' = reader /\ pump' = pump
      BY <2>5 DEF HandlerPunch, Type
    <3> QED
      BY <2>1, <3>1, StartPunchTended
  <2>6. ASSUME NEW e \in End, HandleSignal(e) \/ KeepAlive(e)
        PROVE  Tended(f)'
    BY <2>1, <2>6 DEF HandleSignal, KeepAlive, Tended, Some, tableVars
  <2>7. CASE Lose \/ UNCHANGED vars
    BY <2>1, <2>7 DEF Lose, Tended, Some, vars, tableVars
  <2>8. ASSUME NEW e \in End, Remap(e)
        PROVE  Tended(f)'
    BY <2>1, <2>8 DEF Remap, Tended, Some, tableVars
  <2>9. ASSUME NEW e \in End, SyncPeers(e)
        PROVE  Tended(f)'
    BY <2>1, <2>9 DEF SyncPeers, Tended, Some, PunchingTypeOK
  <2>10. ASSUME NEW e \in End, ReadStun(e), ~Interrupts(e)
         PROVE  Tended(f)'
    <3>1. /\ UNCHANGED <<queue, pump, reader, go>>
          /\ st'[f] = IF f = e THEN "disconnected" ELSE st[f]
          /\ reader[e].pc = "idle" /\ ~(st[e] = "punching" /\ queue[e] > 0)
      BY <2>1, <2>10 DEF ReadStun, Interrupts, PunchingTypeOK
    <3> QED
      BY <2>1, <3>1 DEF Tended, Some
  <2> QED
    BY <2>2, <2>3, <2>4, <2>5, <2>6, <2>7, <2>8, <2>9, <2>10 DEF Next, Lossless, ReadLoop
<1> QED
  BY <1>1, <1>2 DEF TendedInv

(* A packet that waits in the queue is somebody's business, however pump,  *)
(* reader, stream and any number of punches interleave, unless a changed   *)
(* endpoint interrupts a punch that packets wait for (node.go:175-190,     *)
(* udp_engine.go:166-195, 244-262, peer_table.go:210-219).                 *)
THEOREM NoStuckPacketCorrect == Uninterrupted => []NoStuckPacket
<1>1. Init => TendedInv
  BY TendedInit
<1>2. TendedInv /\ [Next /\ \A e \in End : ~Interrupts(e)]_vars => TendedInv'
  BY TendedStep
<1>3. TendedInv => NoStuckPacket
  BY DEF TendedInv, Tended, Some, NoStuckPacket, Cared
<1> QED
  BY <1>1, <1>2, <1>3, PTL DEF Uninterrupted

-----------------------------------------------------------------------------
(* Connected means reachable. *)

(* A packet from the sender's present endpoint went through the sender's   *)
(* NAT, unless the receiver's endpoint changed since.                      *)
Passed(p) ==
    /\ p[3] = 1 => Other(p[1]) \in moved
    /\ p[3] = Current(Other(p[1])) => <<Other(p[1]), Current(p[1])>> \in hole \/ p[1] \in stun

(* What the reader believes of the packet at hand is so, or a list is      *)
(* going to tell.                                                          *)
Believed(e) ==
    reader[e].pc \in {"look", "connect"} =>
        /\ addr[e] = reader[e].from
        /\ reader[e].from = 1 => Other(e) \in moved
        /\ \/ Open(e) \/ e \in stun
           \/ reader[e].from # Current(Other(e)) /\ (Other(e) \in stun \/ e \in news)

(* A client that is connected can reach the other and be reached, or will  *)
(* hear that it cannot.                                                    *)
Reaches(e) == st[e] = "connected" => Open(e) \/ stun # {} \/ e \in news

OpenInv ==
    /\ PunchingTypeOK
    /\ \A p \in net : Passed(p)
    /\ \A e \in End : Believed(e) /\ Reaches(e)

LEMMA OpenInit == Init => OpenInv
  BY TypeInit DEF OpenInv, Believed, Reaches, Init, Waiting

(* A step that opens NATs, sends through open ones, and makes no client    *)
(* connected without reason or reading keeps the invariant.                *)
LEMMA OpenKept ==
    ASSUME OpenInv, PunchingTypeOK', UNCHANGED <<addr, moved, stun, news>>,
           hole \subseteq hole',
           \A p \in net' : p \in net \/ Passed(p)',
           \A e \in End : st'[e] = "connected" =>
                st[e] = "connected" \/ Open(e) \/ stun # {} \/ e \in news,
           \A e \in End : reader'[e].pc \in {"look", "connect"} =>
                reader[e].pc \in {"look", "connect"} /\ reader'[e].from = reader[e].from
    PROVE  OpenInv'
<1>1. \A e : Current(e)' = Current(e)
  BY DEF Current
<1>2. ASSUME NEW e \in End, Open(e)
      PROVE  Open(e)'
  BY <1>1, <1>2 DEF Open
<1>3. ASSUME NEW p \in net'
      PROVE  Passed(p)'
  <2>1. CASE p \in net
    BY <1>1, <2>1 DEF OpenInv, Passed
  <2> QED
    BY <1>3, <2>1
<1>4. ASSUME NEW e \in End
      PROVE  Believed(e)'
  BY <1>1, <1>2 DEF OpenInv, Believed
<1>5. ASSUME NEW e \in End
      PROVE  Reaches(e)'
  BY <1>2 DEF OpenInv, Reaches
<1> QED
  BY <1>3, <1>4, <1>5 DEF OpenInv

(* sendControlPacket. *)
LEMMA SendOpen ==
    ASSUME OpenInv, NEW e \in End, NEW kind, NEW i, Send(e, kind, i), UNCHANGED <<moved, stun>>
    PROVE  hole \subseteq hole' /\ \A p \in net' : p \in net \/ Passed(p)'
<1>1. hole \subseteq hole' /\ <<e, i>> \in hole'
  BY DEF Send
<1>2. ASSUME NEW p \in net', p[1] = Other(e), p[3] = Current(e), i = Current(Other(e))
      PROVE  Passed(p)'
  <2>1. Other(Other(e)) = e
    BY OtherType
  <2>2. \A f : Current(f)' = Current(f)
    BY DEF Current
  <2>3. Current(e) = 1 => e \in moved
    BY DEF Current
  <2> QED
    BY <1>1, <1>2, <2>1, <2>2, <2>3 DEF Passed
<1>3. ASSUME NEW p \in net', p \notin net
      PROVE  p[1] = Other(e) /\ p[3] = Current(e) /\ i = Current(Other(e))
  BY <1>3 DEF Send
<1> QED
  BY <1>1, <1>2, <1>3

(* A packet comes in, which is not from an endpoint left long ago.         *)
LEMMA ReadOpen ==
    ASSUME OpenInv, PunchingTypeOK', NEW e \in End, ReadAny(e), ~Outdated(e)
    PROVE  OpenInv'
<1>1. PICK kind \in Kind, from \in Endpoint : Read(e, kind, from)
  BY DEF ReadAny
<1>2. from = Current(Other(e)) \/ e \in news \/ Other(e) \in stun
  BY <1>1 DEF Outdated
<1> DEFINE read == <<e, kind, from>>
<1>3. /\ read \in net
      /\ <<e, from>> \in hole \/ e \in stun
      /\ net' \subseteq net
      /\ addr' = [addr EXCEPT ![e] = from]
      /\ reader' = [reader EXCEPT ![e] =
                       [pc |-> "look", ack |-> (kind = "PUNCH"), from |-> from]]
      /\ UNCHANGED <<st, hole, moved, stun, news>>
  BY <1>1 DEF Read, tableVars, natVars
<1>4. read[1] = e /\ read[3] = from
  OBVIOUS
<1>5. Passed(read)
  BY <1>3 DEF OpenInv
<1> HIDE DEF read
<1>6. /\ from = 1 => Other(e) \in moved
      /\ from = Current(Other(e)) => <<Other(e), Current(e)>> \in hole \/ e \in stun
  BY <1>4, <1>5 DEF Passed
<1>7. addr'[e] = from /\ reader'[e].from = from
  BY <1>3 DEF OpenInv, PunchingTypeOK
<1>8. \A f : Current(f)' = Current(f)
  BY <1>3 DEF Current
<1>9. from = Current(Other(e)) => Open(e)' \/ e \in stun
  BY <1>3, <1>6, <1>7, <1>8 DEF Open
<1>10. ASSUME NEW f \in End
       PROVE  Believed(f)' /\ Reaches(f)'
  <2>1. CASE f = e
    <3>1. Believed(e)'
      BY <1>2, <1>3, <1>6, <1>7, <1>8, <1>9 DEF Believed
    <3>2. Reaches(e)'
      BY <1>2, <1>3, <1>9 DEF Reaches
    <3> QED
      BY <2>1, <3>1, <3>2
  <2>2. CASE f # e
    <3>1. addr'[f] = addr[f] /\ reader'[f] = reader[f]
      BY <1>3, <2>2 DEF OpenInv, PunchingTypeOK
    <3>2. Open(f)' <=> Open(f)
      BY <1>3, <1>8, <3>1 DEF Open
    <3> QED
      BY <1>3, <1>8, <3>1, <3>2 DEF OpenInv, Believed, Reaches
  <2> QED
    BY <2>1, <2>2
<1>11. \A p \in net' : Passed(p)'
  BY <1>3, <1>8 DEF OpenInv, Passed
<1> QED
  BY <1>10, <1>11 DEF OpenInv

(* The rest of what the reader does with a packet.                         *)
LEMMA ReadLoopOpen ==
    ASSUME OpenInv, PunchingTypeOK', NEW e \in End,
           ReadLook(e) \/ ReadConnect(e) \/ ReadFlush(e)
    PROVE  OpenInv'
<1>1. CASE ReadLook(e)
  <2>1. /\ UNCHANGED <<st, addr, moved, stun, news>>
        /\ reader[e].pc = "look"
        /\ reader' = [reader EXCEPT ![e] = Waiting]
           \/ reader' = [reader EXCEPT ![e].pc = "connect"]
    BY <1>1 DEF ReadLook, tableVars
  <2>2. hole \subseteq hole' /\ \A p \in net' : p \in net \/ Passed(p)'
    <3>1. CASE st[e] = "connected" /\ reader[e].ack
      BY <1>1, <2>1, <3>1, SendOpen DEF ReadLook
    <3>2. CASE ~(st[e] = "connected" /\ reader[e].ack)
      BY <1>1, <3>2 DEF ReadLook
    <3> QED
      BY <3>1, <3>2
  <2>3. \A f \in End : reader'[f].pc \in {"look", "connect"} =>
          reader[f].pc \in {"look", "connect"} /\ reader'[f].from = reader[f].from
    <3>1. CASE reader' = [reader EXCEPT ![e] = Waiting]
      BY <3>1 DEF Waiting, OpenInv, PunchingTypeOK
    <3>2. CASE reader' = [reader EXCEPT ![e].pc = "connect"]
      BY <2>1, <3>2 DEF OpenInv, PunchingTypeOK, ReaderState
    <3> QED
      BY <2>1, <3>1, <3>2
  <2> QED
    BY <2>1, <2>2, <2>3, OpenKept
<1>2. CASE ReadConnect(e)
  <2>1. \A f \in End : reader'[f].pc \in {"look", "connect"} =>
          reader[f].pc \in {"look", "connect"} /\ reader'[f].from = reader[f].from
    BY <1>2 DEF ReadConnect, OpenInv, PunchingTypeOK, ReaderState
  <2>2. Open(e) \/ stun # {} \/ e \in news
    BY <1>2 DEF ReadConnect, OpenInv, Believed
  <2>3. \A f \in End : f # e => st'[f] = st[f]
    BY <1>2 DEF ReadConnect, OpenInv, PunchingTypeOK
  <2> QED
    BY <1>2, <2>1, <2>2, <2>3, OpenKept DEF ReadConnect, natVars
<1>3. CASE ReadFlush(e)
  <2>1. UNCHANGED <<st, addr, moved, stun, news>>
    BY <1>3 DEF ReadFlush
  <2>2. hole \subseteq hole' /\ \A p \in net' : p \in net \/ Passed(p)'
    <3>1. CASE reader[e].ack
      BY <1>3, <2>1, <3>1, SendOpen DEF ReadFlush
    <3>2. CASE ~reader[e].ack
      BY <1>3, <3>2 DEF ReadFlush, SendData
    <3> QED
      BY <3>1, <3>2
  <2>3. \A f \in End : reader'[f].pc \in {"look", "connect"} =>
          reader[f].pc \in {"look", "connect"} /\ reader'[f].from = reader[f].from
    BY <1>3 DEF ReadFlush, Waiting, OpenInv, PunchingTypeOK
  <2> QED
    BY <2>1, <2>2, <2>3, OpenKept
<1> QED
  BY <1>1, <1>2, <1>3

(* An endpoint changes: all that is in flight from the old one is outdated *)
(* from now on, and the STUN answer is going to tell.                      *)
LEMMA RemapOpen ==
    ASSUME OpenInv, PunchingTypeOK', NEW e \in End, Remap(e)
    PROVE  OpenInv'
<1>1. /\ e \notin moved /\ moved' = moved \cup {e} /\ stun' = stun \cup {e}
      /\ net' \subseteq net
      /\ UNCHANGED <<st, addr, reader, news>>
  BY DEF Remap, tableVars
<1>2. Current(e)' = 1
  BY <1>1 DEF Current
<1>3. ASSUME NEW p \in net'
      PROVE  Passed(p)'
  <2>1. p[1] \in End
    BY DEF PunchingTypeOK, Packet
  <2>2. CASE p[1] = e
    BY <1>1, <2>2 DEF OpenInv, Passed
  <2>3. CASE p[1] # e
    <3>1. Other(p[1]) = e
      BY <2>1, <2>3, OtherType
    <3>2. p[3] # 1
      BY <1>1, <3>1 DEF OpenInv, Passed
    <3> QED
      BY <1>2, <3>1, <3>2 DEF Passed
  <2> QED
    BY <2>2, <2>3
<1>4. ASSUME NEW f \in End
      PROVE  Believed(f)'
  <2>1. CASE f = e
    BY <1>1, <2>1 DEF OpenInv, Believed
  <2>2. CASE f # e
    <3>1. Other(f) = e
      BY <2>2, OtherType
    <3> QED
      BY <1>1, <1>2, <3>1 DEF OpenInv, Believed
  <2> QED
    BY <2>1, <2>2
<1>5. \A f \in End : Reaches(f)'
  BY <1>1 DEF Reaches
<1> QED
  BY <1>3, <1>4, <1>5 DEF OpenInv

LEMMA ReadStunOpen ==
    ASSUME OpenInv, PunchingTypeOK', NEW e \in End, ReadStun(e)
    PROVE  OpenInv'
<1>1. /\ reader[e].pc = "idle" /\ stun' = stun \ {e} /\ news' = news \cup {Other(e)}
      /\ net' = {p \in net : p[1] # e} /\ st' = [st EXCEPT ![e] = "disconnected"]
      /\ UNCHANGED <<addr, reader, hole, moved>>
  BY DEF ReadStun
<1>2. \A f : Current(f)' = Current(f)
  BY <1>1 DEF Current
<1>3. \A f : Open(f)' <=> Open(f)
  BY <1>1, <1>2 DEF Open
<1>4. \A p \in net' : Passed(p)'
  BY <1>1, <1>2 DEF OpenInv, Passed
<1>5. ASSUME NEW f \in End
      PROVE  Believed(f)' /\ Reaches(f)'
  <2>1. CASE f = e
    BY <1>1, <2>1 DEF Believed, Reaches, OpenInv, PunchingTypeOK
  <2>2. CASE f # e
    <3>1. f \in news' /\ (f \in stun => f \in stun')
      BY <1>1, <2>2, OtherType
    <3> QED
      BY <1>1, <1>2, <1>3, <3>1 DEF Believed, Reaches, OpenInv
  <2> QED
    BY <2>1, <2>2
<1> QED
  BY <1>4, <1>5 DEF OpenInv

LEMMA SyncPeersOpen ==
    ASSUME OpenInv, PunchingTypeOK', NEW e \in End, SyncPeers(e), ~Overtakes(e)
    PROVE  OpenInv'
<1>1. /\ reader[e].pc \notin {"look", "connect"}
      /\ news' = news \ {e} /\ st' = [st EXCEPT ![e] = "disconnected"]
      /\ addr' = [addr EXCEPT ![e] = Current(Other(e))]
      /\ UNCHANGED <<net, reader, hole, moved, stun>>
  BY DEF SyncPeers, Overtakes
<1>2. \A f : Current(f)' = Current(f)
  BY <1>1 DEF Current
<1>3. \A p \in net' : Passed(p)'
  BY <1>1, <1>2 DEF OpenInv, Passed
<1>4. ASSUME NEW f \in End
      PROVE  Believed(f)' /\ Reaches(f)'
  <2>1. CASE f = e
    BY <1>1, <2>1 DEF Believed, Reaches, OpenInv, PunchingTypeOK
  <2>2. CASE f # e
    <3>1. addr'[f] = addr[f] /\ st'[f] = st[f]
      BY <1>1, <2>2 DEF OpenInv, PunchingTypeOK
    <3>2. Open(f)' <=> Open(f)
      BY <1>1, <1>2, <3>1 DEF Open
    <3> QED
      BY <1>1, <1>2, <2>2, <3>1, <3>2 DEF Believed, Reaches, OpenInv
  <2> QED
    BY <2>1, <2>2
<1> QED
  BY <1>3, <1>4 DEF OpenInv

LEMMA OpenStep ==
    ASSUME OpenInv, [Next /\ \A e \in End : ~Overtakes(e) /\ ~Outdated(e)]_vars
    PROVE  OpenInv'
<1>1. PunchingTypeOK /\ PunchingTypeOK'
  BY TypeStep DEF OpenInv
<1>2. ASSUME NEW g \in Punch, PunchRun(g)
      PROVE  OpenInv'
  <2>1. Owner[g] \in End
    BY PunchingAssumption
  <2>2. CASE GoSend(g)
    <3>1. hole \subseteq hole' /\ \A p \in net' : p \in net \/ Passed(p)'
      <4>1. CASE st[Owner[g]] = "connected"
        BY <2>2, <4>1 DEF GoSend
      <4>2. CASE st[Owner[g]] # "connected"
        BY <2>1, <2>2, <4>2, SendOpen DEF GoSend
      <4> QED
        BY <4>1, <4>2
    <3> QED
      BY <1>1, <2>2, <3>1, OpenKept DEF GoSend, tableVars
  <2>3. CASE GoCheck(g)
    BY <1>1, <2>3, OpenKept DEF GoCheck, tableVars, natVars
  <2>4. CASE GoTimeout(g)
    BY <1>1, <2>1, <2>4, OpenKept DEF GoTimeout, natVars, PunchingTypeOK
  <2>5. CASE GoDrop(g)
    BY <1>1, <2>5, OpenKept DEF GoDrop, natVars
  <2> QED
    BY <1>2, <2>2, <2>3, <2>4, <2>5 DEF PunchRun
<1>3. ASSUME NEW e \in End, StartPunch(e), UNCHANGED <<reader, net, addr, natVars>>
      PROVE  OpenInv'
  BY <1>1, <1>3, OpenKept DEF StartPunch, PunchingTypeOK, natVars
<1>4. ASSUME NEW e \in End, PumpRead(e) \/ Pump(e)
      PROVE  OpenInv'
  <2>1. CASE PumpRead(e)
    BY <1>1, <2>1, OpenKept DEF PumpRead, SendData, tableVars
  <2>2. CASE PumpEnqueue(e) \/ PumpCheck(e)
    BY <1>1, <2>2, OpenKept DEF PumpEnqueue, PumpCheck, tableVars, natVars
  <2>3. CASE PumpPunch(e)
    BY <1>3, <2>3 DEF PumpPunch
  <2> QED
    BY <1>4, <2>1, <2>2, <2>3 DEF Pump
<1>5. ASSUME NEW e \in End, HandleSignal(e) \/ HandlerPunch(e) \/ Type(e)
      PROVE  OpenInv'
  <2>1. CASE HandleSignal(e)
    BY <1>1, <2>1, OpenKept DEF HandleSignal, tableVars, natVars
  <2>2. CASE HandlerPunch(e) \/ Type(e)
    BY <1>3, <2>2 DEF HandlerPunch, Type
  <2> QED
    BY <1>5, <2>1, <2>2
<1>6. ASSUME NEW e \in End, KeepAlive(e)
      PROVE  OpenInv'
  <2>1. hole \subseteq hole' /\ \A p \in net' : p \in net \/ Passed(p)'
    BY <1>6, SendOpen DEF KeepAlive
  <2> QED
    BY <1>1, <1>6, <2>1, OpenKept DEF KeepAlive, tableVars
<1>7. CASE Lose \/ UNCHANGED vars
  BY <1>1, <1>7, OpenKept DEF Lose, vars, tableVars, natVars
<1>8. ASSUME NEW e \in End, ReadAny(e), ~Outdated(e)
      PROVE  OpenInv'
  BY <1>1, <1>8, ReadOpen
<1>9. ASSUME NEW e \in End, ReadLook(e) \/ ReadConnect(e) \/ ReadFlush(e)
      PROVE  OpenInv'
  BY <1>1, <1>9, ReadLoopOpen
<1>10. ASSUME NEW e \in End, Remap(e) \/ ReadStun(e)
       PROVE  OpenInv'
  BY <1>1, <1>10, RemapOpen, ReadStunOpen
<1>11. ASSUME NEW e \in End, SyncPeers(e), ~Overtakes(e)
       PROVE  OpenInv'
  BY <1>1, <1>11, SyncPeersOpen
<1> QED
  BY <1>2, <1>4, <1>5, <1>6, <1>7, <1>8, <1>9, <1>10, <1>11 DEF Next, Lossless, ReadLoop

(* A client that takes the other for connected can reach it and be         *)
(* reached, or will hear that an endpoint changed: it read a packet, which *)
(* both NATs had been opened for, late or not.  The exceptions are a list  *)
(* that comes between the reader's update of the endpoint and that of the  *)
(* state, and a packet that comes in after the list from the endpoint that *)
(* the list replaced (udp_engine.go:92-195, peer_table.go:110-128,         *)
(* 210-219).                                                               *)
THEOREM OpenWhenConnectedCorrect == InOrder => []OpenWhenConnected
<1>1. Init => OpenInv
  BY OpenInit
<1>2. OpenInv /\ [Next /\ \A e \in End : ~Overtakes(e) /\ ~Outdated(e)]_vars => OpenInv'
  BY OpenStep
<1>3. OpenInv => OpenWhenConnected
  BY DEF OpenInv, Reaches, OpenWhenConnected
<1> QED
  BY <1>1, <1>2, <1>3, PTL DEF InOrder

-----------------------------------------------------------------------------
(* Endpoints that do not change. *)

Settled == Mover = {}

(* No client is told that an endpoint changed, and every packet is from    *)
(* the endpoint that its sender has always had.                            *)
Quiet == PunchingTypeOK /\ news = {} /\ \A p \in net : p[3] = 0

LEMMA QuietInit == Init => Quiet
  BY TypeInit DEF Quiet, Init

LEMMA NothingMoves ==
    ASSUME Settled, Quiet, NEW e \in End
    PROVE  /\ ~Remap(e) /\ ~ReadStun(e) /\ ~SyncPeers(e)
           /\ Current(e) = 0
  BY DEF Settled, Quiet, PunchingTypeOK, Remap, ReadStun, SyncPeers, Current

LEMMA SendQuiet ==
    ASSUME Settled, Quiet, NEW e \in End, NEW kind, NEW i, Send(e, kind, i)
    PROVE  \A p \in net' : p[3] = 0
<1>1. Current(e) = 0
  BY NothingMoves
<1>2. \A p \in net' : p \in net \/ p = <<Other(e), kind, Current(e)>>
  BY DEF Send
<1> QED
  BY <1>1, <1>2 DEF Quiet

LEMMA QuietStep ==
    ASSUME Settled, Quiet, [Next]_vars
    PROVE  Quiet'
<1>1. PunchingTypeOK'
  BY TypeStep DEF Quiet
<1>2. news' = news
  BY NothingMoves
     DEF Next, Lossless, Lose, PunchRun, Pump, ReadLoop, ReadAny, GoSend, GoCheck,
         GoTimeout, GoDrop, PumpRead, PumpEnqueue, PumpCheck, PumpPunch, Read, ReadLook,
         ReadConnect, ReadFlush, HandleSignal, HandlerPunch, KeepAlive, Type, vars, natVars
<1>3. \A p \in net' : p[3] = 0
  <2>1. ASSUME NEW g \in Punch, PunchRun(g) PROVE net' = net \/ \A p \in net' : p[3] = 0
    <3>1. Owner[g] \in End
      BY PunchingAssumption
    <3> QED
      BY <2>1, <3>1, SendQuiet DEF PunchRun, GoSend, GoCheck, GoTimeout, GoDrop
  <2>2. ASSUME NEW e \in End, KeepAlive(e) \/ ReadLook(e) \/ ReadFlush(e)
        PROVE  net' = net \/ \A p \in net' : p[3] = 0
    BY <2>2, SendQuiet DEF KeepAlive, ReadLook, ReadFlush
  <2>3. ASSUME NEW e \in End,
               \/ PumpRead(e) \/ Pump(e) \/ ReadAny(e) \/ ReadConnect(e)
               \/ HandleSignal(e) \/ HandlerPunch(e) \/ Type(e)
        PROVE  net' \subseteq net
    BY <2>3 DEF Pump, PumpRead, PumpEnqueue, PumpCheck, PumpPunch, ReadAny, Read,
                ReadConnect, HandleSignal, HandlerPunch, Type
  <2>4. CASE Lose \/ UNCHANGED vars
    BY <2>4 DEF Lose, vars, Quiet
  <2> QED
    BY <2>1, <2>2, <2>3, <2>4, NothingMoves DEF Next, Lossless, ReadLoop, Quiet
<1> QED
  BY <1>1, <1>2, <1>3 DEF Quiet

(* The exceptions all need an endpoint that changes (udp_engine.go:106-118). *)
THEOREM SettledIsOrderly ==
    ASSUME Settled
    PROVE  Spec => Uninterrupted /\ InOrder
<1>1. Init => Quiet
  BY QuietInit
<1>2. Quiet /\ [Next]_vars => Quiet'
  BY QuietStep
<1>3. Quiet /\ [Next]_vars => [Next /\ \A e \in End : ~Interrupts(e)]_vars
  BY NothingMoves DEF Interrupts
<1>4. ASSUME Quiet, NEW e \in End PROVE ~Outdated(e)
  <2>1. Current(Other(e)) = 0
    BY <1>4, NothingMoves, OtherType
  <2>2. ASSUME NEW kind \in Kind, NEW from \in Endpoint, Read(e, kind, from) PROVE from = 0
    BY <1>4, <2>2 DEF Read, Quiet
  <2> QED
    BY <2>1, <2>2 DEF Outdated
<1>5. Quiet /\ [Next]_vars => [Next /\ \A e \in End : ~Overtakes(e) /\ ~Outdated(e)]_vars
  BY <1>4, NothingMoves DEF Overtakes
<1> QED
  BY <1>1, <1>2, <1>3, <1>5, PTL DEF Spec, Uninterrupted, InOrder
=============================================================================
