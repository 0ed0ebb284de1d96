-------------------------- MODULE SignalingProofs --------------------------
(***************************************************************************)
(* Proofs about Signaling: its type invariant, that no address is leaked,  *)
(* that no closed channel is used, and that no notification is lost.       *)
(***************************************************************************)
EXTENDS Signaling, TLAPS

-----------------------------------------------------------------------------
(* The operations of the registry. *)

(* Whatever name is granted is a name (registry.go:62-73). *)
LEMMA GrantedNamesType ==
    ASSUME NEW reqName \in Name, NEW ip \in IP, usedName \in SUBSET Name,
           NEW name \in GrantedNames(reqName, ip)
    PROVE  name \in Name
<1>1. CASE reqName = NoName
  <2>1. name = <<Client, LastNum[ip]>>
    BY <1>1 DEF GrantedNames
  <2>2. LastNum[ip] \in Nat
    BY PoolAssumption
  <2> QED
    BY <2>1, <2>2 DEF Name
<1>2. CASE reqName # NoName
  <2>1. PICK k \in 1..(Cardinality(usedName) + 1) : name = Candidate(reqName, k)
    BY <1>2 DEF GrantedNames
  <2>2. k \in Nat
    BY <2>1
  <2> QED
    BY <2>1, <2>2 DEF Candidate, Name
<1> QED
  BY <1>1, <1>2

(* Allocate keeps the registry's types and adds one address. *)
LEMMA AllocateType ==
    ASSUME RegistryTypeOK, NEW reqName \in Name, NEW reqIP \in IP \cup {NoIP},
           NEW ip \in IP, NEW name, Allocate(reqName, reqIP, name, ip)
    PROVE  RegistryTypeOK' /\ usedIP' = usedIP \cup {ip}
<1>1. name \in Name
  BY GrantedNamesType DEF Allocate, RegistryTypeOK
<1>2. nextIP' \in First..Last
  BY PoolAssumption DEF Allocate, Available, Succ, RegistryTypeOK
<1> QED
  BY <1>1, <1>2 DEF Allocate, RegistryTypeOK

(* ReleaseAll keeps the registry's types and takes its addresses away. *)
LEMMA ReleaseAllType ==
    ASSUME RegistryTypeOK, NEW S \in SUBSET IP, ReleaseAll(S)
    PROVE  RegistryTypeOK' /\ usedIP' = usedIP \ S
<1>1. NoName \in Name
  BY DEF NoName, Name
<1> QED
  BY <1>1 DEF ReleaseAll, RegistryTypeOK

-----------------------------------------------------------------------------
(* The operations of the peer manager. *)

(* AddOrUpdatePeer brings one peer online and leaves the registry alone. *)
LEMMA AddOrUpdatePeerType ==
    ASSUME ManagerTypeOK, NEW ip, NEW name \in Name, NEW addr \in Addr,
           NEW key \in Node, AddOrUpdatePeer(ip, name, addr, key)
    PROVE  /\ ManagerTypeOK'
           /\ Online \subseteq Online'
           /\ UNCHANGED <<registryVars, router, closed>>
<1> DEFINE p == [name |-> name, addr |-> addr, key |-> key, age |-> 0]
<1>1. p \in Peer /\ p # NoPeer
  BY ManagerAssumption, NoPeerAssumption DEF Peer
<1>2. peers' = [peers EXCEPT ![ip] = p]
  BY DEF AddOrUpdatePeer
<1>3. peers' \in [IP -> Peer \cup {NoPeer}]
  BY <1>1, <1>2 DEF ManagerTypeOK
<1>4. Online \subseteq Online'
  BY <1>1, <1>2 DEF ManagerTypeOK, Online
<1>5. pending' \in SUBSET Session
  BY DEF AddOrUpdatePeer, Notify, ManagerTypeOK
<1> QED
  BY <1>3, <1>4, <1>5 DEF AddOrUpdatePeer, ManagerTypeOK

(* A peer that gets older stays a peer. *)
LEMMA AgedPeerType ==
    ASSUME NEW p \in Peer
    PROVE  [p EXCEPT !.age = Older(@, ExpireTicks + 1)] \in Peer
BY ManagerAssumption DEF Peer, Older

(* RemoveAll takes its addresses offline, closes their channels and        *)
(* releases them.                                                          *)
LEMMA RemoveAllType ==
    ASSUME RegistryTypeOK, ManagerTypeOK, NEW S \in SUBSET IP, RemoveAll(S)
    PROVE  /\ RegistryTypeOK' /\ ManagerTypeOK'
           /\ Online' = Online \ S
           /\ usedIP' = usedIP \ S
<1>1. RegistryTypeOK' /\ usedIP' = usedIP \ S
  BY ReleaseAllType DEF RemoveAll
<1>2. Online' = Online \ S
  BY DEF RemoveAll, Online, ManagerTypeOK
<1>3. pending' \in SUBSET Session
  BY DEF RemoveAll, Notify, ManagerTypeOK
<1>4. closed' \in SUBSET Session
  BY DEF RemoveAll, ManagerTypeOK
<1>5. /\ peers' \in [IP -> Peer \cup {NoPeer}]
      /\ router' \in [IP -> Session \cup {NoSession}]
  BY DEF RemoveAll, ManagerTypeOK
<1> QED
  BY <1>1, <1>2, <1>3, <1>4, <1>5 DEF RemoveAll, ManagerTypeOK

(* A removal that waits for the registry touches one peer and its channel. *)
LEMMA RemoveBlockedType ==
    ASSUME ManagerTypeOK, NEW S \in SUBSET IP, RemoveBlocked(S)
    PROVE  ManagerTypeOK' /\ UNCHANGED registryVars
<1>1. PICK ip \in S : /\ peers' = [peers EXCEPT ![ip] = NoPeer]
                      /\ router' = [router EXCEPT ![ip] = NoSession]
                      /\ closed' = closed \cup ({router[ip]} \ {NoSession})
  BY DEF RemoveBlocked
<1>2. closed' \in SUBSET Session
  BY <1>1 DEF ManagerTypeOK
<1> QED
  BY <1>1, <1>2 DEF RemoveBlocked, ManagerTypeOK

(* A peer list says something of some addresses (manager.go:98-113). *)
LEMMA PeerListType ==
    ASSUME ManagerTypeOK
    PROVE  DOMAIN PeerList \subseteq IP /\ PeerList \in [DOMAIN PeerList -> ListEntry]
<1>1. DOMAIN PeerList = Online /\ Online \subseteq IP
  BY DEF PeerList, Online
<1>2. \A ip \in Online : peers[ip] \in Peer
  BY DEF Online, ManagerTypeOK
<1>3. PeerList \in [Online -> ListEntry]
  BY <1>2 DEF PeerList, ListEntry, Peer
<1> QED
  BY <1>1, <1>3

LEMMA NoListType == DOMAIN <<>> \subseteq IP /\ <<>> \in [DOMAIN <<>> -> ListEntry]
OBVIOUS

(* The view of one call is replaced by a list. *)
LEMMA ViewType ==
    ASSUME ViewTypeOK, NEW s \in Session, NEW l,
           DOMAIN l \subseteq IP, l \in [DOMAIN l -> ListEntry],
           view' = [view EXCEPT ![s] = l]
    PROVE  ViewTypeOK'
<1>1. \A r \in Session : view'[r] = IF r = s THEN l ELSE view[r]
  BY DEF ViewTypeOK
<1>2. view' = [r \in Session |-> view'[r]]
  BY DEF ViewTypeOK
<1> QED
  BY <1>1, <1>2 DEF ViewTypeOK

(* A handler that returns keeps the types of what it leaves. *)
LEMMA ReturnType ==
    ASSUME ManagerTypeOK, SessionTypeOK, NEW s \in Session, Return(s)
    PROVE  /\ pc' = [pc EXCEPT ![s] = "remove"]
           /\ subs' \in SUBSET Session /\ pending' \in SUBSET Session
           /\ ViewTypeOK'
BY NoListType, ViewType DEF Return, Goto, Unsubscribe, ManagerTypeOK, SessionTypeOK, ViewTypeOK

LEMMA SendListType ==
    ASSUME ManagerTypeOK, SessionTypeOK, NEW s \in Session, SendList(s)
    PROVE  /\ \/ pc' = [pc EXCEPT ![s] = "remove"]
              \/ pc' = [pc EXCEPT ![s] = "loop"]
           /\ ManagerTypeOK'
           /\ ViewTypeOK'
<1>1. CASE Return(s)
  BY <1>1, ReturnType DEF SendList, ManagerTypeOK
<1>2. CASE view' = [view EXCEPT ![s] = PeerList] /\ Goto(s, "loop") /\ UNCHANGED <<subs, pending>>
  BY <1>2, PeerListType, ViewType DEF SendList, Goto, ManagerTypeOK, SessionTypeOK, ViewTypeOK
<1> QED
  BY <1>1, <1>2 DEF SendList

-----------------------------------------------------------------------------
(* The type invariant. *)

LEMMA TypeInit == Init => SignalingTypeOK
<1> SUFFICES ASSUME Init PROVE SignalingTypeOK
  OBVIOUS
<1>1. NoName \in Name
  BY DEF NoName, Name
<1>2. RegistryTypeOK
  BY <1>1, PoolAssumption DEF Init, RegistryInit, RegistryTypeOK
<1>3. ManagerTypeOK
  BY DEF Init, ManagerInit, ManagerTypeOK
<1>4. ServerTypeOK
  BY SignalingAssumption DEF Init, ServerTypeOK
<1>5. SessionTypeOK
  <2>1. AnyNode \in Node
    BY SignalingAssumption DEF AnyNode
  <2> QED
    BY <1>1, <2>1, NoListType DEF Init, SessionTypeOK, ViewTypeOK
<1>6. ClientTypeOK
  <2>1. \A n \in Node : FirstRequest[n] \in Name \X (IP \cup {NoIP})
    BY SignalingAssumption, RequestsAssumption
  <2>2. \A n \in Node : FirstRequest[n][1] \in Name /\ FirstRequest[n][2] \in IP \cup {NoIP}
    BY <2>1
  <2> QED
    BY <2>2 DEF Init, ClientTypeOK
<1> QED
  BY <1>2, <1>3, <1>4, <1>5, <1>6 DEF SignalingTypeOK

(* A registration that the server grants, whatever becomes of its answer:  *)
(* the address is in use and has a timer.                                  *)
LEMMA GrantType ==
    ASSUME SignalingTypeOK, NEW n \in Node, NEW ip \in IP, NEW name,
           Grant(n, name, ip)
    PROVE  /\ RegistryTypeOK' /\ ManagerTypeOK' /\ ServerTypeOK' /\ SessionTypeOK'
           /\ usedIP' = usedIP \cup {ip}
           /\ timers \subseteq timers' /\ \E t \in timers' : t.ip = ip
<1> DEFINE t == [reg |-> grants + 1, ip |-> ip, age |-> 0, woken |-> FALSE]
<1>1. RegistryTypeOK' /\ usedIP' = usedIP \cup {ip}
  BY AllocateType DEF Grant, SignalingTypeOK, ClientTypeOK
<1>2. ManagerTypeOK' /\ SessionTypeOK'
  BY DEF Grant, SignalingTypeOK, ManagerTypeOK, managerVars, SessionTypeOK, ViewTypeOK, sessionVars
<1>3. t \in Timer /\ grants' \in 0..MaxGrants
  BY SignalingAssumption DEF Grant, SignalingTypeOK, ServerTypeOK, Timer
<1>4. timers' = timers \cup {t} /\ UNCHANGED <<restarts, stuck>>
  BY DEF Grant, faultVars
<1>5. ServerTypeOK'
  BY <1>3, <1>4 DEF SignalingTypeOK, ServerTypeOK
<1>6. t \in timers' /\ t.ip = ip
  BY <1>4
<1> HIDE DEF t
<1> QED
  BY <1>1, <1>2, <1>4, <1>5, <1>6

LEMMA TypeRegister ==
    ASSUME SignalingTypeOK, NEW n \in Node,
           \/ RegisterOk(n) \/ RegisterLost(n)
           \/ RegisterSearch(n) \/ RegisterConflict(n)
    PROVE  SignalingTypeOK'
<1>1. CASE RegisterOk(n)
  <2>0. PICK ip \in IP : \E name \in GrantedNames(hostname[n], ip) :
          /\ Grant(n, name, ip)
          /\ virtualIP' = [virtualIP EXCEPT ![n] = ip]
          /\ hostname' = [hostname EXCEPT ![n] = name]
    BY <1>1 DEF RegisterOk
  <2>1. PICK name \in GrantedNames(hostname[n], ip) :
          /\ Grant(n, name, ip)
          /\ virtualIP' = [virtualIP EXCEPT ![n] = ip]
          /\ hostname' = [hostname EXCEPT ![n] = name]
    BY <2>0
  <2>2. name \in Name
    BY GrantedNamesType DEF SignalingTypeOK, RegistryTypeOK, ClientTypeOK
  <2>3. ClientTypeOK'
    BY <1>1, <2>1, <2>2 DEF RegisterOk, SignalingTypeOK, ClientTypeOK
  <2> QED
    BY <2>1, <2>3, GrantType DEF SignalingTypeOK
<1>2. CASE RegisterLost(n)
  <2>0. PICK ip \in IP : \E name \in GrantedNames(hostname[n], ip) : Grant(n, name, ip)
    BY <1>2 DEF RegisterLost
  <2>1. PICK name \in GrantedNames(hostname[n], ip) : Grant(n, name, ip)
    BY <2>0
  <2>2. ClientTypeOK'
    BY <1>2 DEF RegisterLost, SignalingTypeOK, ClientTypeOK
  <2> QED
    BY <2>1, <2>2, GrantType DEF SignalingTypeOK
<1>3. CASE RegisterSearch(n) \/ RegisterConflict(n)
  BY <1>3 DEF RegisterSearch, RegisterConflict, registryVars, managerVars, serverVars, sessionVars, faultVars,
     SignalingTypeOK, RegistryTypeOK, ManagerTypeOK, ServerTypeOK, SessionTypeOK, ViewTypeOK, ClientTypeOK
<1> QED
  BY <1>1, <1>2, <1>3

LEMMA TypeOrphan ==
    ASSUME SignalingTypeOK, NEW t \in timers, Orphan(t)
    PROVE  SignalingTypeOK'
<1>1. t \in Timer /\ timers \subseteq Timer
  BY DEF SignalingTypeOK, ServerTypeOK
<1>2. [t EXCEPT !.woken = TRUE] \in Timer
  BY <1>1 DEF Timer
<1>3. timers' \subseteq Timer
  BY <1>1, <1>2 DEF Orphan, OrphanCheck, OrphanRelease
<1>4. ServerTypeOK' /\ ManagerTypeOK' /\ SessionTypeOK' /\ ClientTypeOK'
  BY <1>3 DEF Orphan, OrphanCheck, OrphanRelease, managerVars, sessionVars, clientVars, faultVars,
     SignalingTypeOK, ManagerTypeOK, ServerTypeOK, SessionTypeOK, ViewTypeOK, ClientTypeOK
<1>5. RegistryTypeOK'
  <2>1. CASE OrphanCheck(t)
    BY <2>1 DEF OrphanCheck, registryVars, SignalingTypeOK, RegistryTypeOK
  <2>2. CASE OrphanRelease(t)
    <3>1. ReleaseAll({t.ip}) /\ {t.ip} \in SUBSET IP
      BY <1>1, <2>2 DEF OrphanRelease, Release, Timer
    <3> QED
      BY <3>1, ReleaseAllType DEF SignalingTypeOK
  <2> QED
    BY <2>1, <2>2 DEF Orphan
<1> QED
  BY <1>4, <1>5 DEF SignalingTypeOK

(* The steps of a call that change no shared table but the subscriptions   *)
(* and their own queue.                                                    *)
LEMMA TypeHandlerLocal ==
    ASSUME SignalingTypeOK, NEW s \in Session,
           \/ HbRegisterChannel(s) \/ HbSubscribe(s) \/ HbSendFirst(s) \/ HbErr(s)
           \/ HbUpdate(s) \/ HbRefresh(s) \/ HbSignal(s) \/ HbClosed(s)
    PROVE  SignalingTypeOK'
<1> USE DEF SignalingTypeOK
<1>1. RegistryTypeOK' /\ ServerTypeOK' /\ ClientTypeOK'
  BY DEF HbRegisterChannel, HbSubscribe, HbSendFirst, HbErr, HbUpdate, HbRefresh,
     HbSignal, HbClosed, RegisterChannel, Subscribe, SendList, registryVars, serverVars,
     clientVars, faultVars, RegistryTypeOK, ServerTypeOK, ClientTypeOK
<1>2. CASE HbRegisterChannel(s)
  <2>1. queue' \in [Session -> Seq(Node)]
    BY <1>2 DEF HbRegisterChannel, RegisterChannel, ManagerTypeOK
  <2>2. router' \in [IP -> Session \cup {NoSession}]
    BY <1>2 DEF HbRegisterChannel, RegisterChannel, ManagerTypeOK
  <2>3. ManagerTypeOK'
    BY <1>2, <2>1, <2>2 DEF HbRegisterChannel, RegisterChannel, ManagerTypeOK
  <2>4. SessionTypeOK'
    BY <1>2 DEF HbRegisterChannel, Goto, SessionTypeOK, ViewTypeOK
  <2> QED
    BY <1>1, <2>3, <2>4
<1>3. CASE HbSubscribe(s)
  BY <1>1, <1>3 DEF HbSubscribe, Subscribe, Goto, ManagerTypeOK, SessionTypeOK, ViewTypeOK
<1>4. CASE HbSendFirst(s)
  BY <1>1, <1>4, SendListType DEF HbSendFirst, SessionTypeOK, ViewTypeOK
<1>5. CASE HbErr(s)
  BY <1>1, <1>5, ReturnType DEF HbErr, ManagerTypeOK, SessionTypeOK, ViewTypeOK
<1>6. CASE HbUpdate(s)
  BY <1>1, <1>6 DEF HbUpdate, Goto, ManagerTypeOK, SessionTypeOK, ViewTypeOK
<1>7. CASE HbRefresh(s)
  BY <1>1, <1>7, SendListType DEF HbRefresh, SessionTypeOK, ViewTypeOK
<1>8. CASE HbSignal(s)
  <2>1. queue[s] \in Seq(Node) /\ queue[s] # <<>>
    BY <1>8 DEF HbSignal, ManagerTypeOK
  <2>2. queue' \in [Session -> Seq(Node)]
    BY <1>8, <2>1 DEF HbSignal, ManagerTypeOK
  <2>3. CASE UNCHANGED <<pc, view, subs, pending>>
    BY <1>1, <1>8, <2>2, <2>3 DEF HbSignal, ManagerTypeOK, SessionTypeOK, ViewTypeOK
  <2>4. CASE Return(s)
    BY <1>1, <1>8, <2>2, <2>4, ReturnType DEF HbSignal, ManagerTypeOK, SessionTypeOK, ViewTypeOK
  <2> QED
    BY <1>8, <2>3, <2>4 DEF HbSignal
<1>9. CASE HbClosed(s)
  BY <1>1, <1>9, ReturnType DEF HbClosed, ManagerTypeOK, SessionTypeOK, ViewTypeOK
<1> QED
  BY <1>2, <1>3, <1>4, <1>5, <1>6, <1>7, <1>8, <1>9

(* The steps of a call that change the peer table. *)
LEMMA TypeHandlerShared ==
    ASSUME SignalingTypeOK, NEW s \in Session,
           HbFirst(s) \/ HbRemove(s) \/ Receiver(s)
    PROVE  SignalingTypeOK'
<1> USE DEF SignalingTypeOK
<1>1. msg[s].name \in Name /\ msg[s].addr \in Addr /\ own[s] \in Node
  BY DEF SessionTypeOK, ViewTypeOK
<1>2. ServerTypeOK' /\ ClientTypeOK'
  BY DEF HbFirst, HbRemove, Blocked, Receiver, RecvHeartbeat, RecvErr, serverVars, clientVars,
     faultVars, ServerTypeOK, ClientTypeOK
<1>3. SessionTypeOK'
  BY DEF HbFirst, HbRemove, Receiver, RecvHeartbeat, RecvErr, Goto, SessionTypeOK, ViewTypeOK
<1>4. ASSUME AddOrUpdatePeer(VIP(s), msg[s].name, msg[s].addr, own[s])
      PROVE  RegistryTypeOK' /\ ManagerTypeOK'
  BY <1>1, <1>4, AddOrUpdatePeerType DEF registryVars, RegistryTypeOK
<1>5. ASSUME RemovePeer(VIP(s))
      PROVE  RegistryTypeOK' /\ ManagerTypeOK'
  <2>1. {VIP(s)} \cap Online \in SUBSET IP
    BY DEF Online
  <2> QED
    BY <1>5, <2>1, RemoveAllType DEF RemovePeer
<1>6. ASSUME UNCHANGED <<registryVars, managerVars>>
      PROVE  RegistryTypeOK' /\ ManagerTypeOK'
  BY <1>6 DEF registryVars, managerVars, RegistryTypeOK, ManagerTypeOK
<1>7. ASSUME RemoveBlocked({VIP(s)} \cap Online)
      PROVE  RegistryTypeOK' /\ ManagerTypeOK'
  <2>1. {VIP(s)} \cap Online \in SUBSET IP
    BY DEF Online
  <2> QED
    BY <1>7, <2>1, RemoveBlockedType DEF registryVars, RegistryTypeOK
<1> QED
  BY <1>2, <1>3, <1>4, <1>5, <1>6, <1>7
     DEF HbFirst, HbRemove, Blocked, Receiver, RecvHeartbeat, RecvErr

LEMMA TypeClient ==
    ASSUME SignalingTypeOK, NEW n \in Node, NodeStep(n)
    PROVE  SignalingTypeOK'
<1> USE DEF SignalingTypeOK
<1>1. CASE \/ RegisterOk(n) \/ RegisterLost(n)
           \/ RegisterSearch(n) \/ RegisterConflict(n)
  BY <1>1, TypeRegister
<1>2. CASE \E s \in Session : OpenStream(n, s)
  <2>1. PICK s \in Session : OpenStream(n, s)
    BY <1>2
  <2>2. SessionTypeOK'
    BY <2>1, NoListType DEF OpenStream, Goto, SessionTypeOK, ViewTypeOK, ClientTypeOK
  <2>3. ClientTypeOK'
    BY <2>1 DEF OpenStream, ClientTypeOK
  <2> QED
    BY <2>1, <2>2, <2>3 DEF OpenStream, registryVars, managerVars, serverVars, faultVars,
       RegistryTypeOK, ManagerTypeOK, ServerTypeOK
<1>3. CASE SendHeartbeat(n)
  <2>1. SessionTypeOK'
    BY <1>3 DEF SendHeartbeat, SessionTypeOK, ViewTypeOK, ClientTypeOK
  <2> QED
    BY <1>3, <2>1 DEF SendHeartbeat, registryVars, managerVars, serverVars, clientVars, faultVars,
       RegistryTypeOK, ManagerTypeOK, ServerTypeOK, ClientTypeOK
<1>4. CASE Disconnect(n) \/ Crash(n) \/ \E a \in Addr : Remap(n, a)
  <2>1. ClientTypeOK'
    BY <1>4 DEF Disconnect, Crash, Remap, ClientTypeOK
  <2> QED
    BY <1>4, <2>1 DEF Disconnect, Crash, Remap, registryVars, managerVars, serverVars,
       sessionVars, faultVars, RegistryTypeOK, ManagerTypeOK, ServerTypeOK, SessionTypeOK, ViewTypeOK
<1>5. CASE \E ip \in IP : SignalRoute(n, ip)
  <2>1. PICK ip \in IP : SignalRoute(n, ip)
    BY <1>5
  <2>2. router[ip] \in Session
    BY <2>1 DEF SignalRoute, Route, ManagerTypeOK
  <2>3. ManagerTypeOK'
    BY <2>1, <2>2 DEF SignalRoute, Route, ManagerTypeOK
  <2> QED
    BY <2>1, <2>3 DEF SignalRoute, Route, registryVars, serverVars, sessionVars, clientVars, faultVars,
       RegistryTypeOK, ServerTypeOK, SessionTypeOK, ViewTypeOK, ClientTypeOK
<1> QED
  BY <1>1, <1>2, <1>3, <1>4, <1>5 DEF NodeStep

LEMMA TypeEnvironment ==
    ASSUME SignalingTypeOK, CleanUp \/ ServerRestart \/ Tick
    PROVE  SignalingTypeOK'
<1> USE DEF SignalingTypeOK
<1>1. CASE CleanUp
  <2>1. Expired \in SUBSET IP
    BY DEF Expired, Online
  <2>2. ASSUME CleanExpired PROVE RegistryTypeOK' /\ ManagerTypeOK'
    BY <2>1, <2>2, RemoveAllType DEF CleanExpired
  <2>3. ASSUME RemoveBlocked(Expired) PROVE RegistryTypeOK' /\ ManagerTypeOK'
    BY <2>1, <2>3, RemoveBlockedType DEF registryVars, RegistryTypeOK
  <2> QED
    BY <1>1, <2>2, <2>3 DEF CleanUp, Blocked, serverVars, sessionVars, clientVars,
       faultVars, ServerTypeOK, SessionTypeOK, ViewTypeOK, ClientTypeOK
<1>2. CASE ServerRestart
  <2>1. NoName \in Name
    BY DEF NoName, Name
  <2>2. RegistryTypeOK'
    BY <1>2, <2>1, PoolAssumption DEF ServerRestart, RegistryTypeOK
  <2>3. ManagerTypeOK'
    BY <1>2 DEF ServerRestart, ManagerTypeOK
  <2>4. ServerTypeOK'
    BY <1>2, SignalingAssumption DEF ServerRestart, ServerTypeOK
  <2>5. SessionTypeOK' /\ ClientTypeOK'
    BY <1>2 DEF ServerRestart, clientVars, SessionTypeOK, ViewTypeOK, ClientTypeOK
  <2> QED
    BY <2>2, <2>3, <2>4, <2>5
<1>3. CASE Tick
  <2>1. \A t \in timers : [t EXCEPT !.age = Older(@, OrphanTicks)] \in Timer
    BY SignalingAssumption DEF ServerTypeOK, Timer, Older
  <2>2. ServerTypeOK'
    BY <1>3, <2>1 DEF Tick, faultVars, ServerTypeOK
  <2>3. \A ip \in IP : peers[ip] # NoPeer =>
          [peers[ip] EXCEPT !.age = Older(@, ExpireTicks + 1)] \in Peer
    BY AgedPeerType DEF ManagerTypeOK
  <2>4. ManagerTypeOK'
    BY <1>3, <2>3 DEF Tick, ManagerTypeOK
  <2> QED
    BY <1>3, <2>2, <2>4 DEF Tick, registryVars, sessionVars, clientVars,
       RegistryTypeOK, SessionTypeOK, ViewTypeOK, ClientTypeOK
<1> QED
  BY <1>1, <1>2, <1>3

(* Every step of the server and its clients keeps every variable within    *)
(* its type.                                                               *)
LEMMA TypeStep == SignalingTypeOK /\ [Next]_vars => SignalingTypeOK'
<1> SUFFICES ASSUME SignalingTypeOK, [Next]_vars PROVE SignalingTypeOK'
  OBVIOUS
<1>1. CASE \E s \in Session : Handler(s) \/ Receiver(s)
  BY <1>1, TypeHandlerLocal, TypeHandlerShared DEF Handler
<1>2. CASE \E t \in timers : Orphan(t)
  BY <1>2, TypeOrphan
<1>3. CASE \E n \in Node : NodeStep(n)
  BY <1>3, TypeClient
<1>4. CASE CleanUp \/ ServerRestart \/ Tick
  BY <1>4, TypeEnvironment
<1>5. CASE UNCHANGED vars
  BY <1>5 DEF vars, registryVars, managerVars, serverVars, sessionVars, clientVars, faultVars,
     SignalingTypeOK, RegistryTypeOK, ManagerTypeOK, ServerTypeOK, SessionTypeOK, ViewTypeOK, ClientTypeOK
<1> QED
  BY <1>1, <1>2, <1>3, <1>4, <1>5 DEF Next

(* The type invariant of the server and its clients (registry.go,          *)
(* manager.go, signal_router.go, event_bus.go, service.go, node.go).       *)
THEOREM TypeCorrect == Spec => []SignalingTypeOK
<1>1. Init => SignalingTypeOK
  BY TypeInit
<1>2. SignalingTypeOK /\ [Next]_vars => SignalingTypeOK'
  BY TypeStep
<1> QED
  BY <1>1, <1>2, PTL DEF Spec

-----------------------------------------------------------------------------
(* No address is leaked. *)

(* An address stays accounted for when the peers and the timers stay and   *)
(* the registry does not change.                                           *)
LEMMA NoLeakKept ==
    ASSUME NoLeak, Online \subseteq Online', UNCHANGED <<usedIP, timers>>,
           stuck = "both" => stuck' = "both"
    PROVE  NoLeak'
BY DEF NoLeak

LEMMA NoLeakRemove ==
    ASSUME SignalingTypeOK, NoLeak, NEW S \in SUBSET IP, RemoveAll(S),
           UNCHANGED <<timers, stuck>>
    PROVE  NoLeak'
BY RemoveAllType DEF SignalingTypeOK, NoLeak

LEMMA NoLeakStep == SignalingTypeOK /\ NoLeak /\ [Next]_vars => NoLeak'
<1> SUFFICES ASSUME SignalingTypeOK, NoLeak, [Next]_vars PROVE NoLeak'
  OBVIOUS
<1>1. ASSUME NEW s \in Session, HbFirst(s) \/ HbRemove(s) \/ Receiver(s)
      PROVE  NoLeak'
  <2>1. timers' = timers /\ (stuck' = stuck \/ stuck' = "both")
    BY <1>1 DEF HbFirst, HbRemove, Blocked, Receiver, RecvHeartbeat, RecvErr, serverVars, faultVars
  <2>2. msg[s].name \in Name /\ msg[s].addr \in Addr /\ own[s] \in Node
    BY DEF SignalingTypeOK, SessionTypeOK, ViewTypeOK
  <2>3. CASE AddOrUpdatePeer(VIP(s), msg[s].name, msg[s].addr, own[s])
    BY <2>1, <2>2, <2>3, AddOrUpdatePeerType, NoLeakKept DEF SignalingTypeOK, registryVars
  <2>4. CASE RemovePeer(VIP(s)) /\ UNCHANGED stuck
    <3>1. {VIP(s)} \cap Online \in SUBSET IP
      BY DEF Online
    <3> QED
      BY <2>1, <2>4, <3>1, NoLeakRemove DEF RemovePeer
  <2>5. CASE UNCHANGED <<registryVars, managerVars>>
    BY <2>1, <2>5, NoLeakKept DEF registryVars, managerVars, Online
  <2>6. CASE stuck' = "both"
    BY <2>6 DEF NoLeak
  <2> QED
    BY <1>1, <2>3, <2>4, <2>5, <2>6 DEF HbFirst, HbRemove, Blocked, Receiver, RecvHeartbeat, RecvErr
<1>2. ASSUME NEW s \in Session,
             \/ HbRegisterChannel(s) \/ HbSubscribe(s) \/ HbSendFirst(s) \/ HbErr(s)
             \/ HbUpdate(s) \/ HbRefresh(s) \/ HbSignal(s) \/ HbClosed(s)
      PROVE  NoLeak'
  <2>1. UNCHANGED <<peers, usedIP, timers, stuck>>
    BY <1>2 DEF HbRegisterChannel, HbSubscribe, HbSendFirst, HbErr, HbUpdate, HbRefresh,
       HbSignal, HbClosed, RegisterChannel, Subscribe, SendList, registryVars, serverVars, faultVars
  <2> QED
    BY <2>1, NoLeakKept DEF Online
<1>3. ASSUME NEW t \in timers, OrphanCheck(t)
      PROVE  NoLeak'
  (* the timer either finds a peer or stays *)
  <2>1. UNCHANGED <<usedIP, peers, stuck>>
    BY <1>3 DEF OrphanCheck, registryVars, managerVars, faultVars
  <2>2. CASE t.ip \in Online
    BY <1>3, <2>1, <2>2 DEF OrphanCheck, NoLeak, Online
  <2>3. CASE t.ip \notin Online
    <3> DEFINE u == [t EXCEPT !.woken = TRUE]
    <3>1. u \in timers' /\ \A v \in timers : v = t \/ v \in timers'
      BY <1>3, <2>3 DEF OrphanCheck
    <3>2. u.ip = t.ip
      BY DEF SignalingTypeOK, ServerTypeOK, Timer
    <3> HIDE DEF u
    <3> QED
      BY <2>1, <3>1, <3>2 DEF NoLeak, Online
  <2> QED
    BY <2>2, <2>3
<1>4. ASSUME NEW t \in timers, OrphanRelease(t)
      PROVE  NoLeak'
  <2>1. /\ usedIP' = usedIP \ {t.ip} /\ timers' = timers \ {t}
        /\ UNCHANGED <<peers, stuck>>
    BY <1>4 DEF OrphanRelease, Release, ReleaseAll, managerVars, faultVars
  <2> QED
    BY <2>1 DEF NoLeak, Online
<1>5. ASSUME NEW n \in Node, RegisterOk(n) \/ RegisterLost(n)
      PROVE  NoLeak'
  <2>1. PICK ip \in IP : \E name : Grant(n, name, ip)
    BY <1>5 DEF RegisterOk, RegisterLost
  <2>2. /\ usedIP' = usedIP \cup {ip}
        /\ timers \subseteq timers' /\ \E t \in timers' : t.ip = ip
    BY <2>1, GrantType
  <2>3. UNCHANGED <<peers, stuck>>
    BY <2>1 DEF Grant, managerVars, faultVars
  <2> QED
    BY <2>2, <2>3 DEF NoLeak, Online
<1>6. ASSUME NEW n \in Node, NodeStep(n), ~RegisterOk(n), ~RegisterLost(n)
      PROVE  NoLeak'
  <2>1. UNCHANGED <<peers, usedIP, timers>> /\ (stuck = "both" => stuck' = "both")
    BY <1>6 DEF NodeStep, RegisterSearch, RegisterConflict, OpenStream, SendHeartbeat, Disconnect,
       Crash, Remap, SignalRoute, Route, RegistryFree, registryVars, managerVars, serverVars, faultVars
  <2> QED
    BY <2>1, NoLeakKept DEF Online
<1>7. CASE CleanUp
  <2>1. Expired \in SUBSET IP
    BY DEF Expired, Online
  <2>2. CASE CleanExpired /\ UNCHANGED stuck
    BY <1>7, <2>1, <2>2, NoLeakRemove DEF CleanUp, CleanExpired, serverVars
  <2> QED
    BY <1>7, <2>2 DEF CleanUp, Blocked, NoLeak
<1>8. CASE ServerRestart
  BY <1>8 DEF ServerRestart, NoLeak
<1>9. CASE Tick
  <2>1. Online' = Online
    <3>1. \A ip \in Online :
            [peers[ip] EXCEPT !.age = Older(@, ExpireTicks + 1)] # NoPeer
      BY AgedPeerType, NoPeerAssumption DEF Online, SignalingTypeOK, ManagerTypeOK
    <3> QED
      BY <1>9, <3>1 DEF Tick, Online
  <2>2. \A t \in timers : \E u \in timers' : u.ip = t.ip
    <3>1. \A t \in timers : [t EXCEPT !.age = Older(@, OrphanTicks)].ip = t.ip
      BY DEF SignalingTypeOK, ServerTypeOK, Timer
    <3> QED
      BY <1>9, <3>1 DEF Tick
  <2>3. UNCHANGED <<usedIP, stuck>>
    BY <1>9 DEF Tick, registryVars, faultVars
  <2> QED
    BY <2>1, <2>2, <2>3 DEF NoLeak
<1>10. CASE UNCHANGED vars
  BY <1>10, NoLeakKept DEF vars, registryVars, managerVars, serverVars, faultVars, Online
<1> QED
  BY <1>1, <1>2, <1>3, <1>4, <1>5, <1>6, <1>7, <1>8, <1>9, <1>10
     DEF Next, Handler, Orphan

(* No address is forgotten: an address in use is listed, so that a         *)
(* disconnect or its expiry releases it, or an orphan timer is going to    *)
(* look at it (service.go:55-62, manager.go:71-87, registry.go:81-87),     *)
(* except while a removal waits for ever for a registry whose pool is full.*)
THEOREM NoLeakCorrect == Spec => []NoLeak
<1>1. Init => NoLeak
  BY DEF Init, RegistryInit, NoLeak
<1>2. SignalingTypeOK /\ NoLeak /\ [Next]_vars => NoLeak'
  BY NoLeakStep
<1> QED
  BY <1>1, <1>2, TypeCorrect, PTL DEF Spec

-----------------------------------------------------------------------------
(* No closed channel is used.                                              *)
(*                                                                         *)
(* Closing the channel of one address must not close what another address  *)
(* is routed to.  That is so because a call registers one channel, once:   *)
(* what the router holds belongs to a call that is past Router.Register,   *)
(* and to one address.                                                     *)
OneRouteEach ==
    \A ip \in IP : router[ip] # NoSession =>
        /\ pc[router[ip]] \notin {"opened", "added"}
        /\ \A jp \in IP : router[jp] = router[ip] => jp = ip

ChannelInv == SignalingTypeOK /\ OneRouteEach /\ ChannelsOpen

LEMMA ChannelInit == Init => ChannelInv
BY TypeInit, ManagerAssumption
   DEF Init, ManagerInit, ChannelInv, OneRouteEach, ChannelsOpen

(* Steps that leave the router and the closed channels alone, and put no   *)
(* routed call back before Router.Register.                                *)
LEMMA ChannelKept ==
    ASSUME OneRouteEach, ChannelsOpen, UNCHANGED <<router, closed>>,
           \A s \in Session : \/ pc'[s] = pc[s] \/ pc'[s] \notin {"opened", "added"}
                            \/ \A ip \in IP : router[ip] # s,
           router \in [IP -> Session \cup {NoSession}]
    PROVE  OneRouteEach' /\ ChannelsOpen'
BY DEF OneRouteEach, ChannelsOpen

LEMMA ChannelRemove ==
    ASSUME ChannelInv, NEW S \in SUBSET IP, RemoveAll(S),
           \A s \in Session : pc'[s] = pc[s] \/ pc'[s] \notin {"opened", "added"}
    PROVE  OneRouteEach' /\ ChannelsOpen'
<1>1. router \in [IP -> Session \cup {NoSession}] /\ closed \subseteq Session
  BY DEF ChannelInv, SignalingTypeOK, ManagerTypeOK
<1>2. \A ip \in IP : router'[ip] = IF ip \in S THEN NoSession ELSE router[ip]
  BY DEF RemoveAll
<1>3. closed' = closed \cup ({router[ip] : ip \in S} \ {NoSession})
  BY DEF RemoveAll
<1>4. OneRouteEach'
  BY <1>1, <1>2 DEF ChannelInv, OneRouteEach
<1>5. ASSUME NEW ip \in IP PROVE router'[ip] \notin closed'
  <2>1. CASE router'[ip] = NoSession
    BY <1>1, <1>3, <2>1, ManagerAssumption
  <2>2. CASE router'[ip] # NoSession
    <3>1. ip \notin S /\ router'[ip] = router[ip]
      BY <1>2, <2>2
    <3>2. \A jp \in S : router[jp] # router[ip]
      BY <2>2, <3>1 DEF ChannelInv, OneRouteEach
    <3> QED
      BY <1>3, <3>1, <3>2 DEF ChannelInv, ChannelsOpen
  <2> QED
    BY <2>1, <2>2
<1> QED
  BY <1>4, <1>5 DEF ChannelsOpen

LEMMA ChannelRemoveBlocked ==
    ASSUME ChannelInv, NEW S \in SUBSET IP, RemoveBlocked(S), UNCHANGED pc
    PROVE  OneRouteEach' /\ ChannelsOpen'
<1>1. router \in [IP -> Session \cup {NoSession}] /\ closed \subseteq Session
  BY DEF ChannelInv, SignalingTypeOK, ManagerTypeOK
<1>2. PICK ip \in S : /\ router' = [router EXCEPT ![ip] = NoSession]
                      /\ closed' = closed \cup ({router[ip]} \ {NoSession})
  BY DEF RemoveBlocked
<1>3. \A jp \in IP : router'[jp] = IF jp = ip THEN NoSession ELSE router[jp]
  BY <1>1, <1>2
<1>4. OneRouteEach'
  BY <1>1, <1>3 DEF ChannelInv, OneRouteEach
<1>5. ChannelsOpen'
  BY <1>1, <1>2, <1>3, ManagerAssumption DEF ChannelInv, OneRouteEach, ChannelsOpen
<1> QED
  BY <1>4, <1>5

LEMMA ChannelStep == ChannelInv /\ [Next]_vars => ChannelInv'
<1> SUFFICES ASSUME ChannelInv, [Next]_vars PROVE OneRouteEach' /\ ChannelsOpen'
  BY TypeStep DEF ChannelInv
<1>0. /\ router \in [IP -> Session \cup {NoSession}]
      /\ pc \in [Session -> {"opened", "added", "routed", "subscribed", "loop",
                             "refresh", "remove", "done"}]
      /\ closed \subseteq Session
      /\ OneRouteEach /\ ChannelsOpen
  BY DEF ChannelInv, SignalingTypeOK, ManagerTypeOK, SessionTypeOK, ViewTypeOK
<1>1. ASSUME NEW s \in Session, HbRegisterChannel(s)
      PROVE  OneRouteEach' /\ ChannelsOpen'
  <2>1. router' = [router EXCEPT ![VIP(s)] = s] /\ closed' = closed \ {s}
    BY <1>1 DEF HbRegisterChannel, RegisterChannel
  <2>2. pc' = [pc EXCEPT ![s] = "routed"] /\ pc[s] = "added"
    BY <1>1 DEF HbRegisterChannel, Goto
  <2>3. \A ip \in IP : router[ip] # s
    BY <1>0, <2>2, ManagerAssumption DEF OneRouteEach
  <2>4. \A ip \in IP : router'[ip] = router[ip] \/ (router'[ip] = s /\ ip = VIP(s))
    BY <1>0, <2>1
  <2>5. OneRouteEach'
    BY <1>0, <2>2, <2>3, <2>4 DEF OneRouteEach
  <2>6. ChannelsOpen'
    BY <1>0, <2>1, <2>4 DEF ChannelsOpen
  <2> QED
    BY <2>5, <2>6
<1>2. ASSUME NEW s \in Session, HbFirst(s) \/ Receiver(s)
      PROVE  OneRouteEach' /\ ChannelsOpen'
  (* a call that is being added is not routed yet *)
  <2>1. UNCHANGED <<router, closed>>
    BY <1>2 DEF HbFirst, Receiver, RecvHeartbeat, RecvErr, AddOrUpdatePeer, managerVars
  <2>2. CASE UNCHANGED pc
    BY <1>0, <2>1, <2>2, ChannelKept
  <2>3. CASE HbFirst(s)
    <3>1. pc[s] = "opened" /\ \A r \in Session : r # s => pc'[r] = pc[r]
      BY <1>0, <2>3 DEF HbFirst, Goto
    <3>2. \A ip \in IP : router[ip] # s
      BY <1>0, <3>1, ManagerAssumption DEF OneRouteEach
    <3> QED
      BY <1>0, <2>1, <3>1, <3>2, ChannelKept
  <2> QED
    BY <1>2, <2>2, <2>3 DEF Receiver, RecvHeartbeat, RecvErr
<1>3. ASSUME NEW s \in Session,
             \/ HbSubscribe(s) \/ HbSendFirst(s) \/ HbErr(s) \/ HbUpdate(s)
             \/ HbRefresh(s) \/ HbSignal(s) \/ HbClosed(s)
      PROVE  OneRouteEach' /\ ChannelsOpen'
  <2>1. UNCHANGED <<router, closed>>
    BY <1>3 DEF HbSubscribe, HbSendFirst, HbErr, HbUpdate, HbRefresh, HbSignal,
       HbClosed, Subscribe, SendList
  <2>2. \A r \in Session : pc'[r] = pc[r] \/ pc'[r] \notin {"opened", "added"}
    BY <1>0, <1>3 DEF HbSubscribe, HbSendFirst, HbErr, HbUpdate, HbRefresh, HbSignal,
       HbClosed, SendList, Return, Goto
  <2> QED
    BY <1>0, <2>1, <2>2, ChannelKept
<1>4. ASSUME NEW s \in Session, HbRemove(s)
      PROVE  OneRouteEach' /\ ChannelsOpen'
  <2>1. {VIP(s)} \cap Online \in SUBSET IP
    BY DEF Online
  <2>2. CASE RemovePeer(VIP(s)) /\ Goto(s, "done")
    <3>1. \A r \in Session : pc'[r] = pc[r] \/ pc'[r] \notin {"opened", "added"}
      BY <1>0, <2>2 DEF Goto
    <3> QED
      BY <2>1, <2>2, <3>1, ChannelRemove DEF RemovePeer
  <2> QED
    BY <1>4, <2>1, <2>2, ChannelRemoveBlocked DEF HbRemove, Blocked
<1>5. ASSUME NEW n \in Node, NEW s \in Session, OpenStream(n, s)
      PROVE  OneRouteEach' /\ ChannelsOpen'
  <2>1. UNCHANGED <<router, closed>> /\ \A ip \in IP : router[ip] # s
    BY <1>5 DEF OpenStream, Unused, managerVars
  <2>2. \A r \in Session : r # s => pc'[r] = pc[r]
    BY <1>0, <1>5 DEF OpenStream, Goto
  <2> QED
    BY <1>0, <2>1, <2>2, ChannelKept
<1>6. ASSUME NEW n \in Node, NodeStep(n), \A s \in Session : ~OpenStream(n, s)
      PROVE  OneRouteEach' /\ ChannelsOpen'
  <2>1. UNCHANGED <<router, closed, pc>>
    BY <1>6 DEF NodeStep, RegisterOk, RegisterLost, RegisterSearch, RegisterConflict, Grant, SendHeartbeat,
       Disconnect, Crash, Remap, SignalRoute, Route, managerVars, sessionVars
  <2> QED
    BY <1>0, <2>1, ChannelKept
<1>7. CASE \E t \in timers : Orphan(t)
  <2>1. UNCHANGED <<router, closed, pc>>
    BY <1>7 DEF Orphan, OrphanCheck, OrphanRelease, managerVars, sessionVars
  <2> QED
    BY <1>0, <2>1, ChannelKept
<1>8. CASE CleanUp
  <2>1. Expired \in SUBSET IP /\ UNCHANGED pc
    BY <1>8 DEF CleanUp, sessionVars, Expired, Online
  <2> QED
    BY <1>8, <2>1, ChannelRemove, ChannelRemoveBlocked DEF CleanUp, CleanExpired, Blocked
<1>9. CASE ServerRestart
  BY <1>9 DEF ServerRestart, OneRouteEach, ChannelsOpen
<1>10. CASE Tick \/ UNCHANGED vars
  <2>1. UNCHANGED <<router, closed, pc>>
    BY <1>10 DEF Tick, vars, managerVars, sessionVars
  <2> QED
    BY <1>0, <2>1, ChannelKept
<1> QED
  BY <1>1, <1>2, <1>3, <1>4, <1>5, <1>6, <1>7, <1>8, <1>9, <1>10 DEF Next, Handler

(* The server never sends on a closed channel nor closes one twice, either *)
(* of which would panic: what the router holds is open                     *)
(* (signal_router.go:23-56, manager.go:71-87, 116-130).                    *)
THEOREM ChannelsOpenCorrect == Spec => []ChannelsOpen
<1>1. Init => ChannelInv
  BY ChannelInit
<1>2. ChannelInv /\ [Next]_vars => ChannelInv'
  BY ChannelStep
<1>3. ChannelInv => ChannelsOpen
  BY DEF ChannelInv
<1> QED
  BY <1>1, <1>2, <1>3, PTL DEF Spec
-----------------------------------------------------------------------------
(* No notification is lost.                                                *)
(*                                                                         *)
(* A call that waits without a token was subscribed when it took its       *)
(* snapshot and has been since, so that every change of an endpoint or key *)
(* since then would have left a token.                                     *)
Subscribed ==
    \A s \in Session : pc[s] \in {"subscribed", "loop", "refresh"} => s \in subs

FreshInv == Subscribed /\ ListFresh

(* What the lists say of endpoints and keys stays the same when every peer *)
(* stays where it is, with its endpoint and its key.                       *)
LEMMA SameEndpoints ==
    ASSUME Online' = Online,
           \A ip \in Online : peers'[ip].addr = peers[ip].addr /\ peers'[ip].key = peers[ip].key
    PROVE  Endpoints(PeerList') = Endpoints(PeerList)
<1>1. DOMAIN PeerList = Online /\ DOMAIN PeerList' = Online
  BY DEF PeerList
<1>2. ASSUME NEW ip \in Online
      PROVE  PeerList'[ip].addr = PeerList[ip].addr /\ PeerList'[ip].key = PeerList[ip].key
  BY <1>2 DEF PeerList
<1> QED
  BY <1>1, <1>2 DEF Endpoints

(* A change of the table either shows nothing new or leaves a token with   *)
(* every subscriber (manager.go:53-68, 79-113, event_bus.go:36-45).        *)
LEMMA AddIsAnnounced ==
    ASSUME ManagerTypeOK, NEW ip, NEW name \in Name, NEW addr \in Addr,
           NEW key \in Node, AddOrUpdatePeer(ip, name, addr, key)
    PROVE  /\ pending \subseteq pending' /\ subs' = subs
           /\ subs \subseteq pending' \/ Endpoints(PeerList') = Endpoints(PeerList)
<1> DEFINE p == [name |-> name, addr |-> addr, key |-> key, age |-> 0]
<1>1. pending \subseteq pending' /\ subs' = subs
  BY DEF AddOrUpdatePeer, Notify
<1>2. CASE peers[ip] = NoPeer \/ peers[ip].addr # addr \/ peers[ip].key # key
  BY <1>1, <1>2 DEF AddOrUpdatePeer, Notify
<1>3. CASE ~(peers[ip] = NoPeer \/ peers[ip].addr # addr \/ peers[ip].key # key)
  <2>1. p # NoPeer
    BY ManagerAssumption, NoPeerAssumption DEF Peer
  <2>2. \A jp \in IP : peers'[jp] = IF jp = ip THEN p ELSE peers[jp]
    BY DEF AddOrUpdatePeer, ManagerTypeOK
  <2>3. Online' = Online
    BY <1>3, <2>1, <2>2 DEF Online
  <2>4. p.addr = addr /\ p.key = key
    OBVIOUS
  <2> HIDE DEF p
  <2>5. \A jp \in Online : peers'[jp].addr = peers[jp].addr /\ peers'[jp].key = peers[jp].key
    BY <1>3, <2>2, <2>4 DEF Online
  <2> QED
    BY <1>1, <2>3, <2>5, SameEndpoints
<1> QED
  BY <1>2, <1>3

LEMMA RemovalIsAnnounced ==
    ASSUME ManagerTypeOK, NEW S \in SUBSET IP, RemoveAll(S)
    PROVE  /\ pending \subseteq pending' /\ subs' = subs
           /\ subs \subseteq pending' \/ Endpoints(PeerList') = Endpoints(PeerList)
<1>1. CASE S = {}
  <2>1. peers' = peers
    BY <1>1 DEF RemoveAll, ManagerTypeOK
  <2> QED
    BY <1>1, <2>1, SameEndpoints DEF RemoveAll, Online
<1>2. CASE S # {}
  BY <1>2 DEF RemoveAll, Notify
<1> QED
  BY <1>1, <1>2

(* Whoever waits goes on having a current list when the table changes.     *)
LEMMA FreshKept ==
    ASSUME FreshInv, UNCHANGED view,
           \A s \in Session : pc'[s] = pc[s] \/ pc'[s] \notin {"subscribed", "loop", "refresh"},
           pending \subseteq pending', subs \subseteq subs',
           subs \subseteq pending' \/ Endpoints(PeerList') = Endpoints(PeerList),
           ManagerFree' => ManagerFree
    PROVE  FreshInv'
BY DEF FreshInv, Subscribed, ListFresh

(* Nobody waits for a list that a blocked manager cannot make. *)
LEMMA FreshBlocked ==
    ASSUME FreshInv, UNCHANGED <<pc, subs>>, stuck' = "both"
    PROVE  FreshInv'
BY DEF FreshInv, Subscribed, ListFresh, ManagerFree

(* A step of call s that leaves the table alone and what the other calls   *)
(* know.                                                                   *)
LEMMA FreshOthers ==
    ASSUME FreshInv, NEW s \in Session, UNCHANGED <<peers, stuck>>,
           \A r \in Session \ {s} : /\ pc'[r] = pc[r] /\ view'[r] = view[r]
                                    /\ r \in pending' <=> r \in pending
                                    /\ r \in subs' <=> r \in subs,
           pc'[s] \in {"subscribed", "loop", "refresh"} => s \in subs',
           pc'[s] = "loop" /\ s \notin pending' => Endpoints(view'[s]) = Endpoints(PeerList)
    PROVE  FreshInv'
<1>1. Endpoints(PeerList') = Endpoints(PeerList)
  BY SameEndpoints DEF Online
<1> QED
  BY <1>1 DEF FreshInv, Subscribed, ListFresh, ManagerFree

LEMMA FreshStep == SignalingTypeOK /\ FreshInv /\ [Next]_vars => FreshInv'
<1> SUFFICES ASSUME SignalingTypeOK, FreshInv, [Next]_vars PROVE FreshInv'
  OBVIOUS
<1>0. /\ ManagerTypeOK /\ view = [s \in Session |-> view[s]]
      /\ pc \in [Session -> {"opened", "added", "routed", "subscribed", "loop",
                             "refresh", "remove", "done"}]
  BY DEF SignalingTypeOK, SessionTypeOK, ViewTypeOK
(* the steps that change the table *)
<1>1. ASSUME NEW s \in Session, HbFirst(s) \/ HbRemove(s) \/ Receiver(s)
      PROVE  FreshInv'
  <2>1. /\ UNCHANGED view
        /\ \A r \in Session : pc'[r] = pc[r] \/ pc'[r] \notin {"subscribed", "loop", "refresh"}
        /\ ManagerFree' => ManagerFree
    BY <1>0, <1>1 DEF HbFirst, HbRemove, Blocked, Receiver, RecvHeartbeat, RecvErr, Goto,
       faultVars, ManagerFree
  <2>2. CASE AddOrUpdatePeer(VIP(s), msg[s].name, msg[s].addr, own[s])
    <3>1. msg[s].name \in Name /\ msg[s].addr \in Addr /\ own[s] \in Node
      BY DEF SignalingTypeOK, SessionTypeOK, ViewTypeOK
    <3> QED
      BY <1>0, <2>1, <2>2, <3>1, AddIsAnnounced, FreshKept
  <2>3. CASE RemovePeer(VIP(s))
    <3>1. {VIP(s)} \cap Online \in SUBSET IP
      BY DEF Online
    <3> QED
      BY <1>0, <2>1, <2>3, <3>1, RemovalIsAnnounced, FreshKept DEF RemovePeer
  <2>4. CASE UNCHANGED <<registryVars, managerVars>>
    BY <2>1, <2>4, SameEndpoints, FreshKept DEF managerVars, Online
  <2>5. CASE UNCHANGED pc /\ Blocked({VIP(s)} \cap Online)
    BY <2>5, FreshBlocked DEF Blocked, RemoveBlocked
  <2> QED
    BY <1>1, <2>2, <2>3, <2>4, <2>5 DEF HbFirst, HbRemove, Receiver, RecvHeartbeat, RecvErr
<1>2. CASE CleanUp
  <2>1. Expired \in SUBSET IP /\ UNCHANGED <<pc, view>>
    BY <1>2 DEF CleanUp, Expired, Online, sessionVars
  <2>2. CASE CleanExpired /\ UNCHANGED stuck
    BY <1>0, <2>1, <2>2, RemovalIsAnnounced, FreshKept DEF CleanExpired, ManagerFree
  <2>3. CASE Blocked(Expired)
    BY <2>1, <2>3, FreshBlocked DEF Blocked, RemoveBlocked
  <2> QED
    BY <1>2, <2>2, <2>3 DEF CleanUp
(* the steps of a call between its subscription and its end *)
<1>3. ASSUME NEW s \in Session, HbSubscribe(s)
      PROVE  FreshInv'
  BY <1>0, <1>3, FreshOthers DEF HbSubscribe, Subscribe, Goto, faultVars
<1>4. ASSUME NEW s \in Session, HbSendFirst(s) \/ HbRefresh(s)
      PROVE  FreshInv'
  <2>1. SendList(s) /\ s \in subs /\ UNCHANGED stuck
    BY <1>4 DEF HbSendFirst, HbRefresh, faultVars, FreshInv, Subscribed
  <2>2. CASE Return(s)
    BY <1>0, <2>1, <2>2, FreshOthers DEF SendList, Return, Goto, Unsubscribe
  <2>3. CASE view' = [view EXCEPT ![s] = PeerList] /\ Goto(s, "loop") /\ UNCHANGED <<subs, pending>>
    BY <1>0, <2>1, <2>3, FreshOthers DEF SendList, Goto
  <2> QED
    BY <2>1, <2>2, <2>3 DEF SendList
<1>5. ASSUME NEW s \in Session, HbErr(s) \/ HbClosed(s)
      PROVE  FreshInv'
  BY <1>0, <1>5, FreshOthers DEF HbErr, HbClosed, Return, Goto, Unsubscribe, faultVars
<1>6. ASSUME NEW s \in Session, HbUpdate(s)
      PROVE  FreshInv'
  BY <1>0, <1>6, FreshOthers DEF HbUpdate, Goto, FreshInv, Subscribed, faultVars
<1>7. ASSUME NEW s \in Session, HbSignal(s)
      PROVE  FreshInv'
  <2>1. CASE UNCHANGED <<pc, view, subs, pending>>
    BY <1>7, <2>1, SameEndpoints, FreshKept DEF HbSignal, faultVars, ManagerFree, Online
  <2>2. CASE Return(s)
    BY <1>0, <1>7, <2>2, FreshOthers DEF HbSignal, Return, Goto, Unsubscribe, faultVars
  <2> QED
    BY <1>7, <2>1, <2>2 DEF HbSignal
<1>8. ASSUME NEW n \in Node, NEW s \in Session, OpenStream(n, s)
      PROVE  FreshInv'
  BY <1>0, <1>8, FreshOthers DEF OpenStream, Goto, managerVars, faultVars
(* the steps that concern neither *)
<1>9. ASSUME UNCHANGED <<pc, view, peers, pending, subs>>, ManagerFree' => ManagerFree
      PROVE  FreshInv'
  BY <1>9, SameEndpoints, FreshKept DEF Online
<1>10. ASSUME NEW s \in Session, HbRegisterChannel(s)
       PROVE  FreshInv'
  BY <1>0, <1>10, FreshOthers DEF HbRegisterChannel, RegisterChannel, Goto, faultVars
<1>11. ASSUME NEW n \in Node, NodeStep(n), \A s \in Session : ~OpenStream(n, s)
       PROVE  FreshInv'
  BY <1>9, <1>11 DEF NodeStep, RegisterOk, RegisterLost, RegisterSearch, RegisterConflict, Grant,
     SendHeartbeat, Disconnect, Crash, Remap, SignalRoute, Route, RegistryFree, ManagerFree,
     managerVars, sessionVars, faultVars
<1>12. CASE \E t \in timers : Orphan(t)
  BY <1>9, <1>12 DEF Orphan, OrphanCheck, OrphanRelease, ManagerFree, managerVars, sessionVars, faultVars
<1>13. CASE ServerRestart
  BY <1>13 DEF ServerRestart, FreshInv, Subscribed, ListFresh
<1>14. CASE Tick
  <2>1. UNCHANGED <<pc, view, pending, subs, stuck>>
    BY <1>14 DEF Tick, sessionVars, faultVars
  <2>2. \A ip \in Online :
          /\ [peers[ip] EXCEPT !.age = Older(@, ExpireTicks + 1)] # NoPeer
          /\ [peers[ip] EXCEPT !.age = Older(@, ExpireTicks + 1)].addr = peers[ip].addr
          /\ [peers[ip] EXCEPT !.age = Older(@, ExpireTicks + 1)].key = peers[ip].key
    BY <1>0, AgedPeerType, NoPeerAssumption DEF Online, ManagerTypeOK, Peer
  <2>3. Online' = Online
    BY <1>14, <2>2 DEF Tick, Online
  <2>4. \A ip \in Online : peers'[ip].addr = peers[ip].addr /\ peers'[ip].key = peers[ip].key
    BY <1>14, <2>2 DEF Tick, Online
  <2> QED
    BY <2>1, <2>3, <2>4, SameEndpoints, FreshKept DEF ManagerFree
<1>15. CASE UNCHANGED vars
  BY <1>9, <1>15 DEF vars, ManagerFree, managerVars, sessionVars, faultVars
<1> QED
  BY <1>1, <1>2, <1>3, <1>4, <1>5, <1>6, <1>7, <1>8, <1>10, <1>11, <1>12, <1>13, <1>14, <1>15
     DEF Next, Handler

(* No notification is lost: a call that waits without a token has sent the *)
(* current endpoints and keys, whatever other calls, timers and expiries   *)
(* did meanwhile (event_bus.go:19-45, service.go:96-139,                   *)
(* manager.go:39-130), except while a removal waits for ever for a registry*)
(* whose pool is full.                                                     *)
THEOREM ListFreshCorrect == Spec => []ListFresh
<1>1. Init => FreshInv
  BY DEF Init, FreshInv, Subscribed, ListFresh
<1>2. SignalingTypeOK /\ FreshInv /\ [Next]_vars => FreshInv'
  BY FreshStep
<1>3. FreshInv => ListFresh
  BY DEF FreshInv
<1> QED
  BY <1>1, <1>2, <1>3, TypeCorrect, PTL DEF Spec
=============================================================================
