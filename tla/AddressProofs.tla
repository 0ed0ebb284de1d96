---------------------------- MODULE AddressProofs ----------------------------
(***************************************************************************)
(* Proofs about who has an address: that two nodes never hold the same one *)
(* unless a restart or a timeout took it from one of them, however streams *)
(* break and whichever end sees it first, and that the registry's books    *)
(* agree whatever the server and its clients go through.                   *)
(***************************************************************************)
EXTENDS SignalingProofs, RegistryProofs

-----------------------------------------------------------------------------
(* Distinct addresses.                                                     *)
(*                                                                         *)
(* An address passes from the registry to a node, from the node to the one *)
(* call that serves it, and when that call has ended back to the registry. *)
Served(s) == pc[s] # "done"

(* A node that was granted an address keeps asking for it. *)
Placed ==
    \A n \in Node : state[n] \in {"registered", "streaming", "backoff"} => virtualIP[n] \in IP

(* Nothing that a node or a call has is free. *)
InUse ==
    /\ \A n \in Node : Holds(n) => virtualIP[n] \in usedIP
    /\ \A s \in Session : Served(s) => VIP(s) \in usedIP /\ state[own[s]] # "new"

(* One call at most serves an address, and it is the one that the address's *)
(* holder has open.                                                         *)
OneCallEach ==
    /\ \A r, s \in Session : Served(r) /\ Served(s) /\ r # s => VIP(r) # VIP(s)
    /\ \A s \in Session, n \in Node :
         Served(s) /\ Holds(n) /\ virtualIP[n] = VIP(s) => state[n] = "streaming" /\ sess[n] = s

AddressInv ==
    /\ SignalingTypeOK
    /\ Placed /\ InUse /\ DistinctAddresses /\ OneCallEach

LEMMA AddressInit == Init => AddressInv
BY TypeInit
   DEF Init, RegistryInit, AddressInv, Served, Holds, Placed, InUse, DistinctAddresses, OneCallEach

(* Who holds an address goes on if its state, its stream and the server's  *)
(* end of the stream do, and no call comes back to life.                   *)
LEMMA HoldsBefore ==
    ASSUME SignalingTypeOK, NEW n \in Node, Holds(n)',
           state'[n] = state[n] /\ sess'[n] = sess[n],
           \A s \in Session : Served(s)' => Served(s)
    PROVE  Holds(n)
<1>1. state[n] = "streaming" => sess[n] \in Session
  BY DEF SignalingTypeOK, ClientTypeOK
<1> QED
  BY <1>1 DEF Holds, Served

(* Nothing changes hands when no grant arrives, no call starts, and what   *)
(* is released is nobody's after the step.                                 *)
LEMMA HandsKept ==
    ASSUME AddressInv, UNCHANGED <<virtualIP, own>>,
           \A ip \in usedIP \ usedIP' : ~Taken(ip)',
           \A s \in Session : Served(s)' => Served(s),
           \A n \in Node : \/ state'[n] = state[n] /\ sess'[n] = sess[n]
                           \/ state'[n] \in {"refused", "halted"}
                           \/ state'[n] = "backoff" /\ state[n] = "streaming"
    PROVE  Placed' /\ InUse' /\ DistinctAddresses' /\ OneCallEach'
<1>1. \A n \in Node : Holds(n)' => Holds(n) /\ state'[n] = state[n] /\ sess'[n] = sess[n]
  BY HoldsBefore DEF Holds, AddressInv
<1>2. \A s \in Session : VIP(s)' = VIP(s) /\ own[s] \in Node
  BY DEF VIP, AddressInv, SignalingTypeOK, SessionTypeOK, ViewTypeOK
<1>3. Placed'
  BY DEF AddressInv, Placed
<1>4. InUse'
  <2>1. \A n \in Node : Holds(n)' => virtualIP'[n] \in usedIP'
    BY <1>1 DEF AddressInv, InUse, Taken
  <2>2. \A s \in Session : Served(s)' => VIP(s)' \in usedIP'
    BY <1>2 DEF AddressInv, InUse, Taken, Served
  <2>3. \A s \in Session : Served(s)' => state'[own[s]] # "new"
    BY <1>2 DEF AddressInv, InUse
  <2> QED
    BY <2>1, <2>2, <2>3 DEF InUse
<1>5. DistinctAddresses'
  BY <1>1 DEF AddressInv, DistinctAddresses
<1>6. OneCallEach'
  BY <1>1, <1>2 DEF AddressInv, OneCallEach
<1> QED
  BY <1>3, <1>4, <1>5, <1>6

LEMMA AddressHandler ==
    ASSUME AddressInv, NEW s \in Session, Handler(s)
    PROVE  AddressInv'
<1>0. /\ SignalingTypeOK'
      /\ pc \in [Session -> {"opened", "added", "routed", "subscribed", "loop",
                             "refresh", "remove", "done"}]
  BY TypeStep DEF AddressInv, Next, SignalingTypeOK, SessionTypeOK, ViewTypeOK
<1>1. UNCHANGED <<virtualIP, own, state, sess>> /\ pc[s] # "done"
  BY DEF Handler, HbFirst, HbRegisterChannel, HbSubscribe, HbSendFirst, HbErr, HbUpdate,
     HbRefresh, HbSignal, HbClosed, HbRemove, clientVars
<1>2. \A r \in Session : r # s => pc'[r] = pc[r]
  BY <1>0 DEF Handler, HbFirst, HbRegisterChannel, HbSubscribe, HbSendFirst, HbErr, HbUpdate,
     HbRefresh, HbSignal, HbClosed, HbRemove, SendList, Return, Goto
<1>3. \A r \in Session : (Served(r)' => Served(r)) /\ VIP(r)' = VIP(r)
  BY <1>1, <1>2 DEF Served, VIP
<1>4. \A ip \in usedIP \ usedIP' : ~Taken(ip)'
  <2>1. CASE ~HbRemove(s)
    <3>1. usedIP' = usedIP
      BY <2>1 DEF Handler, HbFirst, HbRegisterChannel, HbSubscribe, HbSendFirst, HbErr, HbUpdate,
         HbRefresh, HbSignal, HbClosed, AddOrUpdatePeer, RegisterChannel, Subscribe, SendList, registryVars
    <3> QED
      BY <3>1
  <2>2. CASE HbRemove(s) /\ RemoveBlocked({VIP(s)} \cap Online)
    BY <2>2 DEF RemoveBlocked, registryVars
  (* nobody has the address any more: its holder's stream was this one *)
  <2>3. CASE Goto(s, "done") /\ RemovePeer(VIP(s))
    <3>1. pc' = [pc EXCEPT ![s] = "done"]
      BY <2>3 DEF Goto
    <3>2. ASSUME NEW n \in Node, Holds(n)', virtualIP'[n] = VIP(s) PROVE FALSE
      <4>1. Holds(n) /\ virtualIP[n] = VIP(s)
        BY <1>1, <1>3, <3>2, HoldsBefore DEF AddressInv
      <4>2. state[n] = "streaming" /\ sess[n] = s
        BY <1>1, <4>1 DEF AddressInv, OneCallEach, Served
      <4> QED
        BY <1>0, <1>1, <3>1, <3>2, <4>2 DEF Holds
    <3>3. ASSUME NEW q \in Session, pc'[q] # "done", VIP(q)' = VIP(s) PROVE FALSE
      <4>1. q # s /\ Served(q) /\ Served(s)
        BY <1>0, <1>1, <3>1, <3>3 DEF Served
      <4> QED
        BY <1>3, <3>3, <4>1 DEF AddressInv, OneCallEach
    <3>4. {VIP(s)} \cap Online \in SUBSET IP
      BY DEF Online
    <3>5. usedIP' = usedIP \ ({VIP(s)} \cap Online)
      BY <2>3, <3>4, RemoveAllType DEF RemovePeer, AddressInv, SignalingTypeOK
    <3>6. \A ip \in usedIP \ usedIP' : ip = VIP(s)
      BY <3>5
    <3> QED
      BY <3>2, <3>3, <3>6 DEF Taken
  <2> QED
    BY <2>1, <2>2, <2>3 DEF HbRemove, Blocked
<1>5. Placed' /\ InUse' /\ DistinctAddresses' /\ OneCallEach'
  BY <1>1, <1>3, <1>4, HandsKept
<1> QED
  BY <1>0, <1>5 DEF AddressInv

LEMMA AddressReceiver ==
    ASSUME AddressInv, NEW s \in Session, Receiver(s)
    PROVE  AddressInv'
<1>1. SignalingTypeOK'
  BY TypeStep DEF AddressInv, Next
<1>2. UNCHANGED <<usedIP, virtualIP, own, state, sess, pc>>
  BY DEF Receiver, RecvHeartbeat, RecvErr, AddOrUpdatePeer, registryVars, clientVars
<1>3. Placed' /\ InUse' /\ DistinctAddresses' /\ OneCallEach'
  BY <1>2, HandsKept DEF Served
<1> QED
  BY <1>1, <1>3 DEF AddressInv

(* A grant gives a node an address that nobody has.                        *)
LEMMA AddressRegisterOk ==
    ASSUME AddressInv, NEW n \in Node, RegisterOk(n)
    PROVE  AddressInv'
<1>0. /\ SignalingTypeOK'
      /\ \A s \in Session : own[s] \in Node
      /\ virtualIP \in [Node -> IP \cup {NoIP}] /\ NoIP \notin IP
      /\ state \in [Node -> {"new", "registered", "streaming", "backoff", "refused", "halted"}]
  BY TypeStep, PoolAssumption
     DEF AddressInv, Next, NodeStep, SignalingTypeOK, SessionTypeOK, ViewTypeOK, ClientTypeOK
<1>1. PICK ip \in IP : \E name : /\ Grant(n, name, ip)
                                 /\ virtualIP' = [virtualIP EXCEPT ![n] = ip]
  BY DEF RegisterOk
<1>2. /\ ip \notin usedIP /\ usedIP' = usedIP \cup {ip}
      /\ virtualIP[n] # NoIP => ip = virtualIP[n]
  BY <1>1 DEF Grant, Allocate, Available
<1>3. /\ state[n] \in {"new", "backoff"}
      /\ state' = [state EXCEPT ![n] = "registered"] /\ sess' = sess
      /\ UNCHANGED <<pc, own>>
  BY <1>1 DEF RegisterOk, Grant, sessionVars
(* no call of the node's is left: it would keep the address in use *)
<1>4. \A s \in Session : Served(s) => own[s] # n
  <2> SUFFICES ASSUME NEW s \in Session, Served(s), own[s] = n PROVE FALSE
    OBVIOUS
  <2>1. virtualIP[n] \in usedIP /\ state[n] = "backoff"
    BY <1>3 DEF AddressInv, InUse, VIP
  <2>2. virtualIP[n] \in IP
    BY <2>1 DEF AddressInv, Placed
  <2> QED
    BY <1>0, <1>2, <2>1, <2>2
<1>5. \A s \in Session : /\ Served(s)' = Served(s)
                         /\ Served(s) => VIP(s)' = VIP(s) /\ VIP(s) \in usedIP /\ VIP(s) # ip
  BY <1>0, <1>1, <1>2, <1>3, <1>4 DEF Served, VIP, AddressInv, InUse
<1>6. \A m \in Node : \/ m = n /\ virtualIP'[m] = ip
                      \/ /\ m # n /\ virtualIP'[m] = virtualIP[m] /\ state'[m] = state[m]
                         /\ Holds(m)' = Holds(m)
                         /\ Holds(m) => virtualIP[m] \in usedIP /\ virtualIP[m] # ip
  BY <1>0, <1>1, <1>2, <1>3 DEF Holds, AddressInv, InUse
<1>7. Placed'
  BY <1>6 DEF AddressInv, Placed
<1>8. InUse'
  <2>1. \A m \in Node : Holds(m)' => virtualIP'[m] \in usedIP'
    BY <1>2, <1>6
  <2>2. \A s \in Session : Served(s)' => VIP(s)' \in usedIP' /\ state'[own[s]] # "new"
    BY <1>0, <1>2, <1>3, <1>4, <1>5 DEF AddressInv, InUse
  <2> QED
    BY <1>3, <2>1, <2>2 DEF InUse
<1>9. DistinctAddresses'
  BY <1>6 DEF AddressInv, DistinctAddresses
<1>10. OneCallEach'
  <2>1. \A r, s \in Session : Served(r)' /\ Served(s)' /\ r # s => VIP(r)' # VIP(s)'
    BY <1>5 DEF AddressInv, OneCallEach
  <2>2. \A s \in Session, m \in Node :
          Served(s)' /\ Holds(m)' /\ virtualIP'[m] = VIP(s)' => state'[m] = "streaming" /\ sess'[m] = s
    BY <1>3, <1>5, <1>6 DEF AddressInv, OneCallEach
  <2> QED
    BY <2>1, <2>2 DEF OneCallEach
<1> QED
  BY <1>0, <1>7, <1>8, <1>9, <1>10 DEF AddressInv

(* The node opens the only call of its address.                            *)
LEMMA AddressOpenStream ==
    ASSUME AddressInv, NEW n \in Node, NEW s \in Session, OpenStream(n, s)
    PROVE  AddressInv'
<1>0. /\ SignalingTypeOK'
      /\ own \in [Session -> Node] /\ sess \in [Node -> Session \cup {NoSession}]
      /\ state \in [Node -> {"new", "registered", "streaming", "backoff", "refused", "halted"}]
      /\ pc \in [Session -> {"opened", "added", "routed", "subscribed", "loop",
                             "refresh", "remove", "done"}]
      /\ \A m \in Node : state[m] = "streaming" => sess[m] \in Session
  BY TypeStep DEF AddressInv, Next, NodeStep, SignalingTypeOK,
     SessionTypeOK, ViewTypeOK, ClientTypeOK
<1>1. /\ state[n] = "registered" /\ Unused(s)
      /\ state' = [state EXCEPT ![n] = "streaming"] /\ sess' = [sess EXCEPT ![n] = s]
      /\ pc' = [pc EXCEPT ![s] = "opened"] /\ own' = [own EXCEPT ![s] = n]
      /\ UNCHANGED <<usedIP, virtualIP>>
  BY DEF OpenStream, Goto, registryVars
<1>2. \A r \in Session : /\ r = s => ~Served(r) /\ Served(r)' /\ VIP(r)' = virtualIP[n]
                         /\ r # s => Served(r)' = Served(r) /\ VIP(r)' = VIP(r) /\ own'[r] = own[r]
  BY <1>0, <1>1 DEF Unused, Served, VIP
<1>3. \A m \in Node : Holds(m)' = Holds(m)
  BY <1>0, <1>1 DEF Holds, Unused
<1>4. Holds(n) /\ virtualIP[n] \in usedIP
  BY <1>1 DEF Holds, AddressInv, InUse
<1>5. \A r \in Session : Served(r) => VIP(r) # virtualIP[n]
  BY <1>1, <1>4 DEF AddressInv, OneCallEach
<1>6. Placed' /\ DistinctAddresses'
  BY <1>0, <1>1, <1>3 DEF AddressInv, Placed, DistinctAddresses
<1>7. InUse'
  <2>1. \A r \in Session : Served(r)' => VIP(r)' \in usedIP' /\ state'[own'[r]] # "new"
    BY <1>0, <1>1, <1>2, <1>4 DEF AddressInv, InUse
  <2> QED
    BY <1>1, <1>3, <2>1 DEF AddressInv, InUse
<1>8. OneCallEach'
  <2>1. \A q, r \in Session : Served(q)' /\ Served(r)' /\ q # r => VIP(q)' # VIP(r)'
    BY <1>2, <1>5 DEF AddressInv, OneCallEach
  <2>2. ASSUME NEW r \in Session, NEW m \in Node, Served(r)', Holds(m)', virtualIP'[m] = VIP(r)'
        PROVE  state'[m] = "streaming" /\ sess'[m] = r
    <3>1. CASE r = s
      <4>1. m = n
        BY <1>1, <1>2, <1>3, <1>4, <2>2, <3>1 DEF AddressInv, DistinctAddresses
      <4> QED
        BY <1>0, <1>1, <3>1, <4>1
    <3>2. CASE r # s
      <4>1. Served(r) /\ VIP(r) = virtualIP[m] /\ m # n
        BY <1>1, <1>2, <1>5, <2>2, <3>2
      <4> QED
        BY <1>0, <1>1, <1>3, <2>2, <4>1 DEF AddressInv, OneCallEach
    <3> QED
      BY <3>1, <3>2
  <2> QED
    BY <2>1, <2>2 DEF OneCallEach
<1> QED
  BY <1>0, <1>6, <1>7, <1>8 DEF AddressInv

LEMMA AddressNode ==
    ASSUME AddressInv, NEW n \in Node, NodeStep(n)
    PROVE  AddressInv'
<1>0. /\ SignalingTypeOK'
      /\ state \in [Node -> {"new", "registered", "streaming", "backoff", "refused", "halted"}]
      /\ sess \in [Node -> Session \cup {NoSession}]
  BY TypeStep DEF AddressInv, Next, SignalingTypeOK, ClientTypeOK
<1>1. CASE RegisterOk(n)
  BY <1>1, AddressRegisterOk
<1>2. CASE \E s \in Session : OpenStream(n, s)
  BY <1>2, AddressOpenStream
<1>3. ASSUME UNCHANGED <<virtualIP, own, pc>>, usedIP \subseteq usedIP',
             \A m \in Node : \/ state'[m] = state[m] /\ sess'[m] = sess[m]
                             \/ state'[m] \in {"refused", "halted"}
                             \/ state'[m] = "backoff" /\ state[m] = "streaming"
      PROVE  AddressInv'
  <2>1. Placed' /\ InUse' /\ DistinctAddresses' /\ OneCallEach'
    BY <1>3, HandsKept DEF Served
  <2> QED
    BY <1>0, <2>1 DEF AddressInv
<1>4. CASE RegisterLost(n)
  <2>1. PICK ip \in IP : \E name : Grant(n, name, ip)
    BY <1>4 DEF RegisterLost
  <2>2. usedIP \subseteq usedIP' /\ UNCHANGED <<own, pc>>
    BY <2>1 DEF Grant, Allocate, sessionVars
  <2>3. \A m \in Node : state'[m] = state[m] \/ state'[m] = "halted"
    BY <1>0, <1>4 DEF RegisterLost
  <2> QED
    BY <1>3, <1>4, <2>2, <2>3 DEF RegisterLost
<1>5. CASE RegisterSearch(n) \/ RegisterConflict(n) \/ Disconnect(n) \/ Crash(n)
  <2>1. UNCHANGED <<virtualIP, own, pc, usedIP>>
    BY <1>5 DEF RegisterSearch, RegisterConflict, Disconnect, Crash, registryVars, sessionVars
  <2>2. \A m \in Node : \/ state'[m] = state[m] /\ sess'[m] = sess[m]
                        \/ state'[m] \in {"refused", "halted"}
                        \/ state'[m] = "backoff" /\ state[m] = "streaming"
    BY <1>0, <1>5 DEF RegisterSearch, RegisterConflict, Disconnect, Crash
  <2> QED
    BY <1>3, <2>1, <2>2
<1>6. CASE SendHeartbeat(n) \/ (\E a \in Addr : Remap(n, a)) \/ \E ip \in IP : SignalRoute(n, ip)
  <2>1. UNCHANGED <<virtualIP, own, pc, usedIP, state, sess>>
    BY <1>6 DEF SendHeartbeat, Remap, SignalRoute, Route, registryVars, sessionVars, clientVars
  <2> QED
    BY <1>3, <2>1
<1> QED
  BY <1>1, <1>2, <1>4, <1>5, <1>6 DEF NodeStep

(* Timers, the clean-up loop and time take nothing that somebody has.      *)
LEMMA AddressTimeouts ==
    ASSUME AddressInv,
           \/ \E t \in timers : OrphanCheck(t) \/ (OrphanRelease(t) /\ ~Taken(t.ip))
           \/ CleanUp /\ \A ip \in Expired : ~Taken(ip)
           \/ Tick
    PROVE  AddressInv'
<1>1. SignalingTypeOK'
  BY TypeStep DEF AddressInv, Next, Orphan
<1>2. UNCHANGED <<virtualIP, own, pc, state, sess>>
  BY DEF OrphanCheck, OrphanRelease, CleanUp, Tick, sessionVars, clientVars
<1>3. \A ip \in usedIP \ usedIP' : ~Taken(ip)
  <2>1. CASE CleanExpired /\ \A ip \in Expired : ~Taken(ip)
    <3>1. RemoveAll(Expired) /\ Expired \in SUBSET IP
      BY <2>1 DEF CleanExpired, Expired, Online
    <3>2. usedIP' = usedIP \ Expired
      BY <3>1, RemoveAllType DEF AddressInv, SignalingTypeOK
    <3> QED
      BY <2>1, <3>2
  <2>2. ASSUME NEW t \in timers, OrphanRelease(t), ~Taken(t.ip) PROVE \A ip \in usedIP \ usedIP' : ~Taken(ip)
    BY <2>2 DEF OrphanRelease, Release, ReleaseAll
  <2>3. ASSUME UNCHANGED usedIP PROVE \A ip \in usedIP \ usedIP' : ~Taken(ip)
    BY <2>3
  <2> QED
    BY <2>1, <2>2, <2>3 DEF OrphanCheck, CleanUp, Blocked, RemoveBlocked, Tick, registryVars
<1>4. \A ip \in usedIP \ usedIP' : ~Taken(ip)'
  BY <1>2, <1>3 DEF Taken, Holds, VIP
<1>5. Placed' /\ InUse' /\ DistinctAddresses' /\ OneCallEach'
  BY <1>2, <1>4, HandsKept DEF Served
<1> QED
  BY <1>1, <1>5 DEF AddressInv

LEMMA AddressStep == AddressInv /\ [CarefulNext]_vars => AddressInv'
<1> SUFFICES ASSUME AddressInv, [CarefulNext]_vars PROVE AddressInv'
  OBVIOUS
<1>1. CASE UNCHANGED vars
  <2>1. SignalingTypeOK'
    BY <1>1, TypeStep DEF AddressInv
  <2>2. UNCHANGED <<usedIP, virtualIP, own, pc, state, sess>>
    BY <1>1 DEF vars, registryVars, sessionVars, clientVars
  <2> QED
    BY <2>1, <2>2, HandsKept DEF AddressInv, Served
<1> QED
  BY <1>1, AddressHandler, AddressReceiver, AddressNode, AddressTimeouts DEF CarefulNext

(* Two nodes hold one address, from the grant until one end of the stream  *)
(* breaks, only after the server was restarted, or a peer expired or a     *)
(* timer fired while a node still held the address or a call still served  *)
(* it (registry.go:33-87, service.go:55-93, manager.go:71-87, 116-130,     *)
(* node.go:300-385).                                                       *)
THEOREM DistinctUnlessTimedOut == CarefulSpec => []DistinctAddresses
<1>1. Init => AddressInv
  BY AddressInit
<1>2. AddressInv /\ [CarefulNext]_vars => AddressInv'
  BY AddressStep
<1>3. AddressInv => DistinctAddresses
  BY DEF AddressInv
<1> QED
  BY <1>1, <1>2, <1>3, PTL DEF CarefulSpec

(* In particular, never while nothing expires, however often streams break *)
(* and whichever end sees it first (the run `lists').                      *)
THEOREM DistinctWhileQuick == QuickSpec => []DistinctAddresses
<1>1. [QuickNext]_vars => [CarefulNext]_vars
  BY DEF QuickNext, CarefulNext
<1> QED
  BY <1>1, DistinctUnlessTimedOut, PTL DEF QuickSpec, CarefulSpec
-----------------------------------------------------------------------------
(* Names.                                                                  *)

(* What a step of the server or of a client does to the registry.          *)
LEMMA RegistrySteps ==
    ASSUME SignalingTypeOK, [Next]_vars
    PROVE  \/ UNCHANGED registryVars
           \/ RegistryInit'
           \/ \E S \in SUBSET IP : ReleaseAll(S)
           \/ \E n \in Node, ip \in IP : \E name \in GrantedNames(hostname[n], ip) :
                Allocate(hostname[n], virtualIP[n], name, ip)
<1>1. ASSUME NEW s \in Session, Handler(s) \/ Receiver(s), ~HbRemove(s)
      PROVE  UNCHANGED registryVars
  BY <1>1 DEF Handler, Receiver, HbFirst, HbRegisterChannel, HbSubscribe, HbSendFirst, HbErr,
     HbUpdate, HbRefresh, HbSignal, HbClosed, RecvHeartbeat, RecvErr, AddOrUpdatePeer,
     RegisterChannel, Subscribe, SendList
<1>2. ASSUME NEW s \in Session, HbRemove(s)
      PROVE  UNCHANGED registryVars \/ \E S \in SUBSET IP : ReleaseAll(S)
  <2>1. {VIP(s)} \cap Online \in SUBSET IP
    BY DEF Online
  <2> QED
    BY <1>2, <2>1 DEF HbRemove, RemovePeer, RemoveAll, Blocked, RemoveBlocked
<1>3. ASSUME NEW t \in timers, Orphan(t)
      PROVE  UNCHANGED registryVars \/ \E S \in SUBSET IP : ReleaseAll(S)
  <2>1. {t.ip} \in SUBSET IP
    BY DEF SignalingTypeOK, ServerTypeOK, Timer
  <2> QED
    BY <1>3, <2>1 DEF Orphan, OrphanCheck, OrphanRelease, Release
<1>4. ASSUME NEW n \in Node, RegisterOk(n) \/ RegisterLost(n)
      PROVE  \E ip \in IP : \E name \in GrantedNames(hostname[n], ip) :
               Allocate(hostname[n], virtualIP[n], name, ip)
  BY <1>4 DEF RegisterOk, RegisterLost, Grant
<1>5. ASSUME NEW n \in Node, NodeStep(n), ~RegisterOk(n), ~RegisterLost(n)
      PROVE  UNCHANGED registryVars
  BY <1>5 DEF NodeStep, RegisterSearch, RegisterConflict, OpenStream, SendHeartbeat, Disconnect,
     Crash, Remap, SignalRoute, Route
<1>6. CASE CleanUp
  <2>1. Expired \in SUBSET IP
    BY DEF Expired, Online
  <2> QED
    BY <1>6, <2>1 DEF CleanUp, CleanExpired, RemoveAll, Blocked, RemoveBlocked
<1>7. CASE ServerRestart
  BY <1>7 DEF ServerRestart, RegistryInit
<1>8. CASE Tick \/ UNCHANGED vars
  BY <1>8 DEF Tick, vars
<1> QED
  BY <1>1, <1>2, <1>3, <1>4, <1>5, <1>6, <1>7, <1>8 DEF Next

(* Every host asks for a name, the first time and when it comes back.      *)
BooksInv ==
    /\ SignalingTypeOK /\ RegistryInv
    /\ \A n \in Node : hostname[n] # NoName

LEMMA BooksInit ==
    ASSUME Named
    PROVE  Init => BooksInv
<1> SUFFICES ASSUME Init PROVE BooksInv
  OBVIOUS
<1>1. SignalingTypeOK /\ RegistryInv
  BY TypeInit, RegistryInvInit DEF Init
<1>2. \A n \in Node : FirstRequest[n] \in Requests
  BY SignalingAssumption
<1> QED
  BY <1>1, <1>2 DEF Init, Named, BooksInv

LEMMA BooksStep == BooksInv /\ [Next]_vars => BooksInv'
<1> SUFFICES ASSUME BooksInv, [Next]_vars PROVE BooksInv'
  OBVIOUS
<1>1. /\ SignalingTypeOK /\ SignalingTypeOK'
      /\ hostname \in [Node -> Name] /\ virtualIP \in [Node -> IP \cup {NoIP}]
  BY TypeStep DEF BooksInv, SignalingTypeOK, ClientTypeOK
<1>2. RegistryInv'
  <2>1. ASSUME NEW n \in Node, NEW ip \in IP, NEW name \in GrantedNames(hostname[n], ip),
               Allocate(hostname[n], virtualIP[n], name, ip)
        PROVE  RegistryInv'
    <3>1. hostname[n] \in Name /\ virtualIP[n] \in IP \cup {NoIP} /\ hostname[n] # NoName
      BY <1>1 DEF BooksInv
    <3> QED
      BY <2>1, <3>1, AllocateKeeps DEF BooksInv
  <2>2. ASSUME NEW S \in SUBSET IP, ReleaseAll(S) PROVE RegistryInv'
    BY <2>2, ReleaseAllKeeps DEF BooksInv
  <2>3. CASE UNCHANGED registryVars
    BY <2>3 DEF registryVars, BooksInv, RegistryInv, RegistryTypeOK, BooksAgree, NamesDistinct
  <2>4. CASE RegistryInit'
    BY <2>4, NoNameIsName, PoolAssumption
       DEF RegistryInit, RegistryInv, RegistryTypeOK, BooksAgree, NamesDistinct
  <2> QED
    BY <1>1, <2>1, <2>2, <2>3, <2>4, RegistrySteps
<1>3. \A n \in Node : hostname'[n] # NoName
  <2>1. ASSUME NEW n \in Node, RegisterOk(n) PROVE \A m \in Node : hostname'[m] # NoName
    <3>1. PICK ip \in IP : \E name \in GrantedNames(hostname[n], ip) :
                 hostname' = [hostname EXCEPT ![n] = name]
      BY <2>1 DEF RegisterOk
    <3>2. PICK name \in GrantedNames(hostname[n], ip) : hostname' = [hostname EXCEPT ![n] = name]
      BY <3>1
    <3>3. name # NoName
      BY <1>1, GrantedNameFree DEF BooksInv
    <3> QED
      BY <1>1, <3>2, <3>3 DEF BooksInv
  <2>2. CASE \A n \in Node : ~RegisterOk(n)
    <3>1. hostname' = hostname
      BY <2>2 DEF Next, Handler, Receiver, Orphan, NodeStep, HbFirst, HbRegisterChannel,
         HbSubscribe, HbSendFirst, HbErr, HbUpdate, HbRefresh, HbSignal, HbClosed, HbRemove,
         RecvHeartbeat, RecvErr, OrphanCheck, OrphanRelease, RegisterLost, RegisterSearch, RegisterConflict,
         OpenStream, SendHeartbeat, Disconnect, Crash, Remap, SignalRoute, CleanUp,
         ServerRestart, Tick, vars, clientVars
    <3> QED
      BY <3>1 DEF BooksInv
  <2> QED
    BY <2>1, <2>2
<1> QED
  BY <1>1, <1>2, <1>3 DEF BooksInv

(* Whatever the server and its clients go through, crashes, restarts,      *)
(* timers and expiries included, the addresses and the names in use        *)
(* correspond one to one, if every host asks for a name                    *)
(* (registry.go:33-92, service.go:32-62, manager.go:71-87).                *)
THEOREM ServerBooksCorrect ==
    ASSUME Named
    PROVE  Spec => [](BooksAgree /\ NamesDistinct)
<1>1. Init => BooksInv
  BY BooksInit
<1>2. BooksInv /\ [Next]_vars => BooksInv'
  BY BooksStep
<1>3. BooksInv => BooksAgree /\ NamesDistinct
  BY DEF BooksInv, RegistryInv
<1> QED
  BY <1>1, <1>2, <1>3, PTL DEF Spec

(* An address that stays in use keeps its name.                            *)
LEMMA NameStays ==
    ASSUME SignalingTypeOK, [Next]_vars, NEW ip \in usedIP, ip \in usedIP'
    PROVE  ipToName'[ip] = ipToName[ip]
<1>1. ip \in IP /\ ipToName \in [IP -> Name]
  BY DEF SignalingTypeOK, RegistryTypeOK
<1>2. ASSUME NEW n \in Node, NEW jp \in IP, NEW name, Allocate(hostname[n], virtualIP[n], name, jp)
      PROVE  ipToName'[ip] = ipToName[ip]
  <2>1. jp # ip
    BY <1>2 DEF Allocate, Available
  <2> QED
    BY <1>1, <1>2, <2>1 DEF Allocate
<1> QED
  BY <1>1, <1>2, RegistrySteps DEF ReleaseAll, RegistryInit, registryVars

(* A node that has an address carries the name that the registry keeps for *)
(* it.                                                                     *)
NameHeld == \A n \in Node : Holds(n) => ipToName[virtualIP[n]] = hostname[n]

NamesInv == AddressInv /\ BooksInv /\ NameHeld

(* Only its registration gives a node an address or a name.                *)
LEMMA HoldsStays ==
    ASSUME SignalingTypeOK, [CarefulNext]_vars, NEW n \in Node, Holds(n)', ~RegisterOk(n)
    PROVE  Holds(n) /\ virtualIP'[n] = virtualIP[n] /\ hostname'[n] = hostname[n]
<1>1. /\ state \in [Node -> {"new", "registered", "streaming", "backoff", "refused", "halted"}]
      /\ virtualIP \in [Node -> IP \cup {NoIP}] /\ hostname \in [Node -> Name]
      /\ sess \in [Node -> Session \cup {NoSession}]
      /\ pc \in [Session -> {"opened", "added", "routed", "subscribed", "loop",
                             "refresh", "remove", "done"}]
  BY DEF SignalingTypeOK, SessionTypeOK, ViewTypeOK, ClientTypeOK
<1>2. ASSUME UNCHANGED clientVars, \A s \in Session : Served(s)' => Served(s)
      PROVE  Holds(n) /\ virtualIP'[n] = virtualIP[n] /\ hostname'[n] = hostname[n]
  BY <1>2, HoldsBefore DEF clientVars
<1>3. ASSUME NEW m \in Node, NodeStep(m)
      PROVE  Holds(n) /\ virtualIP'[n] = virtualIP[n] /\ hostname'[n] = hostname[n]
  <2>1. CASE RegisterOk(m)
    <3>1. m # n /\ state' = [state EXCEPT ![m] = "registered"]
      BY <2>1 DEF RegisterOk
    <3>2. PICK ip \in IP : \E name \in GrantedNames(hostname[m], ip) :
            /\ virtualIP' = [virtualIP EXCEPT ![m] = ip]
            /\ hostname' = [hostname EXCEPT ![m] = name]
      BY <2>1 DEF RegisterOk
    <3>3. UNCHANGED <<pc, sess>>
      BY <2>1 DEF RegisterOk, Grant, sessionVars
    <3> QED
      BY <1>1, <3>1, <3>2, <3>3 DEF Holds
  <2>2. CASE RegisterLost(m) \/ RegisterSearch(m) \/ RegisterConflict(m) \/ Disconnect(m) \/ Crash(m)
    <3>1. UNCHANGED <<pc, virtualIP, hostname>>
      BY <2>2 DEF RegisterLost, RegisterSearch, RegisterConflict, Disconnect, Crash, Grant, sessionVars
    <3>2. state'[n] = state[n] /\ sess'[n] = sess[n]
      BY <1>1, <2>2 DEF RegisterLost, RegisterSearch, RegisterConflict, Disconnect, Crash, Holds
    <3> QED
      BY <3>1, <3>2, HoldsBefore DEF Served
  <2>3. ASSUME NEW s \in Session, OpenStream(m, s)
        PROVE  Holds(n) /\ virtualIP'[n] = virtualIP[n] /\ hostname'[n] = hostname[n]
    <3>1. UNCHANGED <<virtualIP, hostname>> /\ state[m] = "registered" /\ Unused(s)
      BY <2>3 DEF OpenStream
    <3>2. CASE n = m
      BY <3>1, <3>2 DEF Holds
    <3>3. CASE n # m
      <4>1. state'[n] = state[n] /\ sess'[n] = sess[n] /\ sess[n] # s
        BY <2>3, <3>1, <3>3 DEF OpenStream, Unused
      <4>2. \A r \in Session : r # s => pc'[r] = pc[r]
        BY <1>1, <2>3 DEF OpenStream, Goto
      <4>3. state[n] = "streaming" => sess[n] \in Session
        BY DEF SignalingTypeOK, ClientTypeOK
      <4> QED
        BY <3>1, <4>1, <4>2, <4>3 DEF Holds
    <3> QED
      BY <3>2, <3>3
  <2>4. ASSUME NEW a \in Addr, Remap(m, a)
        PROVE  Holds(n) /\ virtualIP'[n] = virtualIP[n] /\ hostname'[n] = hostname[n]
    BY <2>4 DEF Remap, Holds, sessionVars
  <2>5. CASE SendHeartbeat(m) \/ \E ip \in IP : SignalRoute(m, ip)
    <3>1. UNCHANGED <<pc, clientVars>>
      BY <2>5 DEF SendHeartbeat, SignalRoute, sessionVars
    <3> QED
      BY <1>2, <3>1 DEF Served
  <2> QED
    BY <1>3, <2>1, <2>2, <2>3, <2>4, <2>5 DEF NodeStep
<1>4. ASSUME NEW s \in Session, Handler(s) \/ Receiver(s)
      PROVE  Holds(n) /\ virtualIP'[n] = virtualIP[n] /\ hostname'[n] = hostname[n]
  <2>1. UNCHANGED clientVars
    BY <1>4 DEF Handler, Receiver, HbFirst, HbRegisterChannel, HbSubscribe, HbSendFirst, HbErr,
       HbUpdate, HbRefresh, HbSignal, HbClosed, HbRemove, RecvHeartbeat, RecvErr
  <2>2. pc' = pc \/ (pc[s] # "done" /\ \A r \in Session : r # s => pc'[r] = pc[r])
    BY <1>1, <1>4 DEF Handler, Receiver, HbFirst, HbRegisterChannel, HbSubscribe, HbSendFirst, HbErr,
       HbUpdate, HbRefresh, HbSignal, HbClosed, HbRemove, RecvHeartbeat, RecvErr, SendList, Return, Goto
  <2> QED
    BY <1>2, <2>1, <2>2 DEF Served
<1>5. CASE \/ \E t \in timers : OrphanCheck(t) \/ OrphanRelease(t)
           \/ CleanUp \/ Tick \/ UNCHANGED vars
  <2>1. UNCHANGED <<pc, clientVars>>
    BY <1>5 DEF OrphanCheck, OrphanRelease, CleanUp, Tick, vars, sessionVars
  <2> QED
    BY <1>2, <2>1 DEF Served
<1> QED
  BY <1>3, <1>4, <1>5 DEF CarefulNext

LEMMA NamesStep == NamesInv /\ [CarefulNext]_vars => NamesInv'
<1> SUFFICES ASSUME NamesInv, [CarefulNext]_vars PROVE NamesInv'
  OBVIOUS
<1>1. [Next]_vars
  BY DEF CarefulNext, Next, Orphan
<1>2. AddressInv' /\ BooksInv' /\ SignalingTypeOK
  BY <1>1, AddressStep, BooksStep DEF NamesInv, AddressInv
<1>3. ASSUME NEW n \in Node, Holds(n)' PROVE ipToName'[virtualIP'[n]] = hostname'[n]
  <2>1. CASE RegisterOk(n)
    <3>1. PICK ip \in IP : \E name \in GrantedNames(hostname[n], ip) :
            /\ Grant(n, name, ip)
            /\ virtualIP' = [virtualIP EXCEPT ![n] = ip]
            /\ hostname' = [hostname EXCEPT ![n] = name]
      BY <2>1 DEF RegisterOk
    <3> QED
      BY <1>2, <3>1 DEF Grant, Allocate, SignalingTypeOK, RegistryTypeOK, ClientTypeOK
  <2>2. CASE ~RegisterOk(n)
    <3>1. Holds(n) /\ virtualIP'[n] = virtualIP[n] /\ hostname'[n] = hostname[n]
      BY <1>2, <1>3, <2>2, HoldsStays
    <3>2. virtualIP[n] \in usedIP /\ virtualIP[n] \in usedIP'
      BY <1>2, <1>3, <3>1 DEF NamesInv, AddressInv, InUse
    <3> QED
      BY <1>1, <1>2, <3>1, <3>2, NameStays DEF NamesInv, NameHeld
  <2> QED
    BY <2>1, <2>2
<1> QED
  BY <1>2, <1>3 DEF NamesInv, NameHeld

(* Two nodes that hold addresses have different names, however often they  *)
(* lose their stream and come back, and whichever end sees it first, with  *)
(* the exceptions of DistinctUnlessTimedOut, and if every host asks for a  *)
(* name (registry.go:62-73, node.go:195-213, 360-385).                     *)
THEOREM DistinctNamesCorrect ==
    ASSUME Named
    PROVE  CarefulSpec => []DistinctNames
<1>1. Init => NamesInv
  BY AddressInit, BooksInit DEF NamesInv, NameHeld, Holds, Init
<1>2. NamesInv /\ [CarefulNext]_vars => NamesInv'
  BY NamesStep
<1>3. NamesInv => DistinctNames
  BY DEF NamesInv, AddressInv, InUse, DistinctAddresses, NameHeld, BooksInv, RegistryInv,
     NamesDistinct, DistinctNames
<1> QED
  BY <1>1, <1>2, <1>3, PTL DEF CarefulSpec
=============================================================================
