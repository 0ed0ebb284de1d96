----------------------------- MODULE Signaling -----------------------------
(***************************************************************************)
(* The signaling server and its clients: the Register, Heartbeat and       *)
(* SignalRoute handlers (service.go) with the goroutines they start, the   *)
(* server's clean-up loop, and the control loop of each client (node.go).  *)
(*                                                                         *)
(* A Heartbeat call is a Session.  The server runs two goroutines for it:  *)
(* the handler, whose next statement is pc[s], and the receiver, which     *)
(* applies heartbeats while s \in receiving.  The receiver's error, once   *)
(* sent to errCh, is s \notin receiving.                                   *)
(*                                                                         *)
(* The two ends of a stream see it end separately and in either order: the *)
(* client by Disconnect, the server when its Recv or Send fails.  Each may *)
(* take any time to notice that the other's end is gone, or never.         *)
(***************************************************************************)
EXTENDS PeerManager

CONSTANTS FirstRequest, \* what each node's user asks for on its command line
          OrphanTicks,  \* the sleep of the orphan timer (30 s), in ticks
          MaxGrants,    \* bound: addresses granted in a behaviour
          MaxRestarts   \* bound: restarts of the server

ASSUME SignalingAssumption ==
    /\ FirstRequest \in [Node -> Requests]
    /\ OrphanTicks \in Nat
    /\ MaxGrants \in Nat
    /\ MaxRestarts \in Nat
    /\ Addr # {}
    /\ Node # {}

VARIABLES timers,    \* the orphan timers Register started
          pc,        \* the next statement of each Heartbeat handler
          receiving, \* the sessions whose receiver goroutine still runs
          inTransit, \* the sessions with a heartbeat, not the first, on its way
          msg,       \* the last heartbeat each session's client sent
          own,       \* the client of each session
          view,      \* the last peer list sent in each call, until the call ends
          state,     \* what each client is doing
          sess,      \* the stream each client has open
          virtualIP, hostname, endpoint,  \* node.virtualIP, node.hostname, its
                                          \* public endpoint
          restarts,
          stuck,     \* the locks that a search of a full pool holds, or makes
                     \* others hold, for ever
          grants     \* the number of registrations so far

serverVars  == <<timers, grants>>
faultVars   == <<restarts, stuck>>
sessionVars == <<pc, receiving, inTransit, msg, own, view>>
clientVars  == <<state, sess, virtualIP, hostname, endpoint>>
vars == <<registryVars, managerVars, serverVars, sessionVars, clientVars, faultVars>>

Timer == [reg : 1..MaxGrants, ip : IP, age : 0..OrphanTicks, woken : BOOLEAN]

ListEntry == [name : Name, addr : Addr, key : Node]

ViewTypeOK ==
    /\ view = [s \in Session |-> view[s]]
    /\ \A s \in Session : /\ DOMAIN view[s] \subseteq IP
                          /\ view[s] \in [DOMAIN view[s] -> ListEntry]

ServerTypeOK ==
    /\ timers \in SUBSET Timer
    /\ restarts \in 0..MaxRestarts
    /\ stuck \in {"none", "registry", "both"}
    /\ grants \in 0..MaxGrants

SessionTypeOK ==
    /\ pc \in [Session -> {"opened", "added", "routed", "subscribed", "loop",
                           "refresh", "remove", "done"}]
    /\ receiving \in SUBSET Session
    /\ inTransit \in SUBSET Session
    /\ msg \in [Session -> [name : Name, addr : Addr]]
    /\ own \in [Session -> Node]
    /\ ViewTypeOK

ClientTypeOK ==
    /\ state \in [Node -> {"new", "registered", "streaming", "backoff",
                           "refused", "halted"}]
    /\ sess \in [Node -> Session \cup {NoSession}]
    /\ virtualIP \in [Node -> IP \cup {NoIP}]
    /\ hostname \in [Node -> Name]
    /\ endpoint \in [Node -> Addr]
    /\ \A n \in Node : /\ state[n] = "registered" => virtualIP[n] \in IP
                       /\ state[n] = "streaming" => sess[n] \in Session

SignalingTypeOK ==
    /\ RegistryTypeOK
    /\ ManagerTypeOK
    /\ ServerTypeOK
    /\ SessionTypeOK
    /\ ClientTypeOK

AnyNode == CHOOSE n \in Node : TRUE

Init ==
    /\ RegistryInit
    /\ ManagerInit
    /\ timers = {}
    /\ pc = [s \in Session |-> "done"]
    /\ receiving = {}
    /\ inTransit = {}
    /\ endpoint \in [Node -> Addr]
    /\ own = [s \in Session |-> AnyNode]
    /\ msg = [s \in Session |-> [name |-> NoName, addr |-> endpoint[AnyNode]]]
    /\ view = [s \in Session |-> <<>>]
    /\ state = [n \in Node |-> "new"]
    /\ sess = [n \in Node |-> NoSession]
    /\ hostname = [n \in Node |-> FirstRequest[n][1]]
    /\ virtualIP = [n \in Node |-> FirstRequest[n][2]]
    /\ restarts = 0
    /\ stuck = "none"
    /\ grants = 0

-----------------------------------------------------------------------------
(* The address the session's heartbeats carry.  A node's virtualIP never   *)
(* changes once granted: it registers again with the address it had.       *)
VIP(s) == virtualIP[own[s]]

(* Whether r.mu and m.mu can be had: a search that never ends holds r.mu,  *)
(* and then a removal that waits for r.mu holds m.mu.                      *)
RegistryFree == stuck = "none"
ManagerFree  == stuck # "both"

-----------------------------------------------------------------------------
(* Register: the registry grants an address and a timer is started that    *)
(* looks, 30 s later, whether the node ever sent a heartbeat.              *)
Grant(n, name, ip) ==
    /\ grants < MaxGrants /\ RegistryFree
    /\ Allocate(hostname[n], virtualIP[n], name, ip)
    /\ grants' = grants + 1
    /\ timers' = timers \cup
         {[reg |-> grants + 1, ip |-> ip, age |-> 0, woken |-> FALSE]}
    /\ UNCHANGED <<managerVars, sessionVars, faultVars>>

\* Mutant: the granted address is not stored.
RegisterOkForgetful(n) ==
    /\ state[n] \in {"new", "backoff"}
    /\ \E ip \in IP : \E name \in GrantedNames(hostname[n], ip) :
         /\ Grant(n, name, ip)
         /\ hostname' = [hostname EXCEPT ![n] = name]
    /\ state' = [state EXCEPT ![n] = "registered"]
    /\ UNCHANGED <<virtualIP, sess, endpoint>>

\* Mutant: the granted name is not stored.
RegisterOkNameless(n) ==
    /\ state[n] \in {"new", "backoff"}
    /\ \E ip \in IP : \E name \in GrantedNames(hostname[n], ip) :
         /\ Grant(n, name, ip)
         /\ virtualIP' = [virtualIP EXCEPT ![n] = ip]
    /\ state' = [state EXCEPT ![n] = "registered"]
    /\ UNCHANGED <<hostname, sess, endpoint>>

(* The node gets the answer and goes on to open its heartbeat stream. *)
RegisterOk(n) ==
    /\ state[n] \in {"new", "backoff"}
    /\ \E ip \in IP : \E name \in GrantedNames(hostname[n], ip) :
         /\ Grant(n, name, ip)
         /\ virtualIP' = [virtualIP EXCEPT ![n] = ip]
         /\ hostname' = [hostname EXCEPT ![n] = name]
    /\ state' = [state EXCEPT ![n] = "registered"]
    /\ UNCHANGED <<sess, endpoint>>

(* The answer is lost or late (15 s): the first registration gives up, a   *)
(* later one is tried again.                                               *)
RegisterLost(n) ==
    /\ state[n] \in {"new", "backoff"}
    /\ \E ip \in IP : \E name \in GrantedNames(hostname[n], ip) :
         Grant(n, name, ip)
    /\ state' = [state EXCEPT ![n] = IF @ = "new" THEN "halted" ELSE @]
    /\ UNCHANGED <<sess, virtualIP, hostname, endpoint>>

(* No address is left for a node that asks for any: the search goes on for *)
(* ever with r.mu held, and the node gives up after 15 s.                  *)
RegisterSearch(n) ==
    /\ state[n] = "new" /\ virtualIP[n] = NoIP
    /\ RegistryFree /\ First..Last \subseteq usedIP
    /\ stuck' = "registry"
    /\ state' = [state EXCEPT ![n] = "halted"]
    /\ UNCHANGED <<registryVars, managerVars, serverVars, sessionVars, restarts,
                   sess, virtualIP, hostname, endpoint>>

(* AlreadyExists: the requested address is in use.  The node gives up, at  *)
(* its start with an error, later saying that another node has its address.*)
RegisterConflict(n) ==
    /\ state[n] \in {"new", "backoff"}
    /\ RegistryFree /\ virtualIP[n] \in usedIP
    /\ state' = [state EXCEPT ![n] = IF @ = "new" THEN "halted" ELSE "refused"]
    /\ UNCHANGED <<registryVars, managerVars, serverVars, sessionVars, faultVars,
                   sess, virtualIP, hostname, endpoint>>

\* Mutant: the goroutine looks and never releases.
OrphanCheckOnly(t) ==
    /\ ~t.woken /\ t.age = OrphanTicks /\ ManagerFree
    /\ timers' = timers \ {t}
    /\ UNCHANGED <<registryVars, managerVars, sessionVars, clientVars, faultVars, grants>>

(* The goroutine wakes up after its sleep and asks whether the address is  *)
(* online; the answer may be out of date when it releases the address.     *)
OrphanCheck(t) ==
    /\ ~t.woken /\ t.age = OrphanTicks /\ ManagerFree
    /\ timers' = (timers \ {t}) \cup
         (IF t.ip \in Online THEN {} ELSE {[t EXCEPT !.woken = TRUE]})
    /\ UNCHANGED <<registryVars, managerVars, sessionVars, clientVars, faultVars, grants>>

OrphanRelease(t) ==
    /\ t.woken /\ RegistryFree
    /\ timers' = timers \ {t}
    /\ Release(t.ip)
    /\ UNCHANGED <<managerVars, sessionVars, clientVars, faultVars, grants>>

-----------------------------------------------------------------------------
(* Heartbeat, the handler.                                                 *)
Goto(s, label) == pc' = [pc EXCEPT ![s] = label]

(* The handler returns: the deferred calls run, last one first.  Nobody    *)
(* reads the update channel any more, so that Unsubscribe is part of the   *)
(* step; RemovePeer is a step of its own.                                  *)
Return(s) ==
    /\ Goto(s, "remove")
    /\ Unsubscribe(s)
    /\ view' = [view EXCEPT ![s] = <<>>]

(* The first heartbeat arrives, or the stream ends before it does. *)
HbFirst(s) ==
    /\ pc[s] = "opened"
    /\ \/ /\ ManagerFree
          /\ Goto(s, "added")
          /\ AddOrUpdatePeer(VIP(s), msg[s].name, msg[s].addr, own[s])
       \/ /\ Goto(s, "done")
          /\ UNCHANGED <<registryVars, managerVars>>
    /\ UNCHANGED <<serverVars, clientVars, faultVars,
                   receiving, inTransit, msg, own, view>>

HbRegisterChannel(s) ==
    /\ pc[s] = "added"
    /\ Goto(s, "routed")
    /\ RegisterChannel(VIP(s), s)
    /\ UNCHANGED <<serverVars, clientVars, faultVars,
                   receiving, inTransit, msg, own, view>>

HbSubscribe(s) ==
    /\ pc[s] = "routed"
    /\ Goto(s, "subscribed")
    /\ Subscribe(s)
    /\ UNCHANGED <<serverVars, clientVars, faultVars,
                   receiving, inTransit, msg, own, view>>

(* GetAllPeers and Send, which fails when the server sees the stream broken. *)
SendList(s) ==
    /\ ManagerFree
    /\ \/ /\ view' = [view EXCEPT ![s] = PeerList]
          /\ Goto(s, "loop")
          /\ UNCHANGED <<subs, pending>>
       \/ Return(s)
    /\ UNCHANGED <<registryVars, peers, router, queue, closed>>

(* The first list; the receiver goroutine starts only after it was sent. *)
HbSendFirst(s) ==
    /\ pc[s] = "subscribed"
    /\ SendList(s)
    /\ receiving' = IF pc'[s] = "loop" THEN receiving \cup {s} ELSE receiving
    /\ UNCHANGED <<serverVars, clientVars, faultVars, inTransit, msg, own>>

(* The branches of the select: each is taken when its channel is ready. *)
HbErr(s) ==
    /\ pc[s] = "loop"
    /\ s \notin receiving
    /\ Return(s)
    /\ UNCHANGED <<registryVars, peers, router, queue, closed,
                   serverVars, clientVars, faultVars, receiving, inTransit, msg, own>>

HbUpdate(s) ==
    /\ pc[s] = "loop"
    /\ s \in pending
    /\ pending' = pending \ {s}
    /\ Goto(s, "refresh")
    /\ UNCHANGED <<registryVars, serverVars, clientVars, faultVars,
                   peers, router, queue, closed, subs,
                   receiving, inTransit, msg, own, view>>

HbRefresh(s) ==
    /\ pc[s] = "refresh"
    /\ SendList(s)
    /\ UNCHANGED <<serverVars, clientVars, faultVars, receiving, inTransit, msg, own>>

HbSignal(s) ==
    /\ pc[s] = "loop"
    /\ queue[s] # <<>>
    /\ queue' = [queue EXCEPT ![s] = Tail(@)]
    /\ \/ UNCHANGED <<pc, view, subs, pending>>
       \/ Return(s)
    /\ UNCHANGED <<registryVars, serverVars, clientVars, faultVars,
                   peers, router, closed, receiving, inTransit, msg, own>>

HbClosed(s) ==
    /\ pc[s] = "loop"
    /\ s \in closed /\ queue[s] = <<>>
    /\ Return(s)
    /\ UNCHANGED <<registryVars, peers, router, queue, closed,
                   serverVars, clientVars, faultVars, receiving, inTransit, msg, own>>

(* A removal that waits for r.mu for ever keeps m.mu. *)
Blocked(S) ==
    /\ stuck = "registry" /\ stuck' = "both"
    /\ RemoveBlocked(S)

(* The first deferred call, which runs last. *)
HbRemove(s) ==
    /\ pc[s] = "remove" /\ ManagerFree
    /\ \/ /\ RegistryFree \/ VIP(s) \notin Online
          /\ Goto(s, "done")
          /\ RemovePeer(VIP(s))
          /\ UNCHANGED stuck
       \/ Blocked({VIP(s)} \cap Online) /\ UNCHANGED pc
    /\ UNCHANGED <<serverVars, clientVars, restarts,
                   receiving, inTransit, msg, own, view>>

-----------------------------------------------------------------------------
(* Heartbeat, the receiver.  A heartbeat that was read before the handler  *)
(* returned is applied after it.                                           *)
RecvHeartbeat(s) ==
    /\ s \in receiving /\ s \in inTransit /\ ManagerFree
    /\ inTransit' = inTransit \ {s}
    /\ AddOrUpdatePeer(VIP(s), msg[s].name, msg[s].addr, own[s])
    /\ UNCHANGED <<serverVars, clientVars, faultVars,
                   pc, receiving, msg, own, view>>

(* Recv fails when the server's end of the stream does, whatever the       *)
(* client's, and once the handler has returned; what was not read by then  *)
(* is lost.                                                                *)
RecvErr(s) ==
    /\ s \in receiving
    /\ receiving' = receiving \ {s}
    /\ inTransit' = inTransit \ {s}
    /\ UNCHANGED <<registryVars, managerVars, serverVars, clientVars, faultVars,
                   pc, msg, own, view>>

-----------------------------------------------------------------------------
(* The client.                                                             *)

(* A session name is used again when nothing remembers the earlier call. *)
Unused(s) ==
    /\ pc[s] = "done"
    /\ s \notin receiving
    /\ \A ip \in IP : router[ip] # s
    /\ \A n \in Node : sess[n] # s

(* runHeartbeatStream opens the stream and sends the first heartbeat. *)
OpenStream(n, s) ==
    /\ state[n] = "registered"
    /\ Unused(s)
    /\ state' = [state EXCEPT ![n] = "streaming"]
    /\ sess' = [sess EXCEPT ![n] = s]
    /\ Goto(s, "opened")
    /\ own' = [own EXCEPT ![s] = n]
    /\ msg' = [msg EXCEPT ![s] = [name |-> hostname[n], addr |-> endpoint[n]]]
    /\ view' = [view EXCEPT ![s] = <<>>]
    /\ inTransit' = inTransit \ {s}
    /\ UNCHANGED <<registryVars, managerVars, serverVars, faultVars,
                   receiving, virtualIP, hostname, endpoint>>

(* The ticker's heartbeats; one at most is on its way (they are 10 s apart). *)
(* Those of a call that the server has ended reach nobody.                 *)
SendHeartbeat(n) ==
    /\ state[n] = "streaming"
    /\ LET s == sess[n] IN
         /\ pc[s] \notin {"opened", "done"} /\ s \notin inTransit
         /\ inTransit' = inTransit \cup {s}
         /\ msg' = [msg EXCEPT ![s] = [name |-> hostname[n], addr |-> endpoint[n]]]
    /\ UNCHANGED <<registryVars, managerVars, serverVars, clientVars, faultVars,
                   pc, receiving, own, view>>

(* The stream breaks under the client, which backs off and registers again. *)
Disconnect(n) ==
    /\ state[n] = "streaming"
    /\ state' = [state EXCEPT ![n] = "backoff"]
    /\ sess' = [sess EXCEPT ![n] = NoSession]
    /\ UNCHANGED <<registryVars, managerVars, serverVars, sessionVars, faultVars,
                   virtualIP, hostname, endpoint>>

(* The process ends, at any point of its life. *)
Crash(n) ==
    /\ state[n] # "halted"
    /\ state' = [state EXCEPT ![n] = "halted"]
    /\ sess' = [sess EXCEPT ![n] = NoSession]
    /\ UNCHANGED <<registryVars, managerVars, serverVars, sessionVars, faultVars,
                   virtualIP, hostname, endpoint>>

(* The node's public endpoint changes: the NAT maps it anew, or the node   *)
(* learns its mapped port.                                                 *)
Remap(n, a) ==
    /\ a # endpoint[n] /\ state[n] \notin {"new", "halted"}
    /\ endpoint' = [endpoint EXCEPT ![n] = a]
    /\ UNCHANGED <<registryVars, managerVars, serverVars, sessionVars, faultVars,
                   state, sess, virtualIP, hostname>>

(* SignalRoute: a node asks the server to pass a signal on, whatever its   *)
(* stream is doing, and to whatever address its user named.                *)
SignalRoute(n, ip) ==
    /\ state[n] \notin {"new", "halted"}
    /\ Route(ip, n)
    /\ UNCHANGED <<serverVars, sessionVars, clientVars, faultVars>>

-----------------------------------------------------------------------------
(* The server's clean-up loop, its restart, and the passing of time.       *)
CleanUp ==
    /\ Expired # {} /\ ManagerFree
    /\ \/ RegistryFree /\ CleanExpired /\ UNCHANGED stuck
       \/ Blocked(Expired)
    /\ UNCHANGED <<serverVars, sessionVars, clientVars, restarts>>

ServerRestart ==
    /\ restarts < MaxRestarts
    /\ restarts' = restarts + 1
    /\ nextIP' = First
    /\ usedIP' = {} /\ usedName' = {}
    /\ ipToName' = [ip \in IP |-> NoName]
    /\ peers' = [ip \in IP |-> NoPeer]
    /\ router' = [ip \in IP |-> NoSession]
    /\ queue' = [s \in Session |-> <<>>]
    /\ closed' = {} /\ subs' = {} /\ pending' = {}
    /\ timers' = {} /\ stuck' = "none"
    /\ pc' = [s \in Session |-> "done"]
    /\ receiving' = {} /\ inTransit' = {}
    /\ UNCHANGED <<grants, msg, own, view, clientVars>>

Older(age, max) == IF age < max THEN age + 1 ELSE age

Tick ==
    /\ peers' = [ip \in IP |-> IF peers[ip] = NoPeer THEN NoPeer
                   ELSE [peers[ip] EXCEPT !.age = Older(@, ExpireTicks + 1)]]
    /\ timers' = {[t EXCEPT !.age = Older(@, OrphanTicks)] : t \in timers}
    /\ UNCHANGED <<registryVars, router, queue, closed, subs, pending, grants,
                   sessionVars, clientVars, faultVars>>

-----------------------------------------------------------------------------
Handler(s) ==
    \/ HbFirst(s) \/ HbRegisterChannel(s) \/ HbSubscribe(s) \/ HbSendFirst(s)
    \/ HbErr(s) \/ HbUpdate(s) \/ HbRefresh(s) \/ HbSignal(s) \/ HbClosed(s)
    \/ HbRemove(s)

Receiver(s) == RecvHeartbeat(s) \/ RecvErr(s)

Orphan(t) == OrphanCheck(t) \/ OrphanRelease(t)

NodeStep(n) ==
    \/ RegisterOk(n) \/ RegisterLost(n) \/ RegisterSearch(n) \/ RegisterConflict(n)
    \/ \E s \in Session : OpenStream(n, s)
    \/ SendHeartbeat(n) \/ Disconnect(n) \/ Crash(n)
    \/ \E a \in Addr : Remap(n, a)
    \/ \E ip \in IP : SignalRoute(n, ip)

Next ==
    \/ \E s \in Session : Handler(s) \/ Receiver(s)
    \/ \E t \in timers : Orphan(t)
    \/ \E n \in Node : NodeStep(n)
    \/ CleanUp \/ ServerRestart \/ Tick

Spec == Init /\ [][Next]_vars

(* Time passes, the clean-up loop runs and sleeping goroutines wake up, as *)
(* long as they get their locks.  Nothing is assumed of the network, the   *)
(* nodes or the handlers: the server need never notice that a stream is    *)
(* broken.                                                                 *)
Fairness ==
    /\ WF_vars(Tick)
    /\ WF_vars(CleanUp)
    /\ WF_vars(\E t \in timers : Orphan(t))

FairSpec == Spec /\ Fairness

(* The behaviours that last less than a tick, so that nothing expires. *)
QuickNext ==
    \/ \E s \in Session : Handler(s) \/ Receiver(s)
    \/ \E n \in Node : NodeStep(n)

QuickSpec == Init /\ [][QuickNext]_vars

(* A node holds its address from the grant until one end of its stream     *)
(* breaks: until it leaves the stream, or the server is done with the call,*)
(* which is when the server gives the address to others.  The node may not *)
(* know that yet.                                                          *)
Holds(n) ==
    \/ state[n] = "registered"
    \/ state[n] = "streaming" /\ pc[sess[n]] # "done"

(* The behaviours without a restart in which the timeouts are right: what  *)
(* expires and what a timer releases is an address that no node holds and  *)
(* no call serves any more.                                                *)

Taken(ip) ==
    \/ \E n \in Node : Holds(n) /\ virtualIP[n] = ip
    \/ \E s \in Session : pc[s] # "done" /\ VIP(s) = ip

CarefulNext ==
    \/ \E s \in Session : Handler(s) \/ Receiver(s)
    \/ \E t \in timers : OrphanCheck(t) \/ (OrphanRelease(t) /\ ~Taken(t.ip))
    \/ \E n \in Node : NodeStep(n)
    \/ CleanUp /\ \A ip \in Expired : ~Taken(ip)
    \/ Tick

CarefulSpec == Init /\ [][CarefulNext]_vars

-----------------------------------------------------------------------------
(* No address is forgotten: for every address in use there is a peer that  *)
(* will be removed when it disconnects or expires, or an orphan timer that *)
(* will look at it (service.go:55-62, manager.go:71-87).  The hand-over    *)
(* from the timer to the peer table has no lock around it.  The exception  *)
(* is a removal that waits for r.mu for ever.                              *)
NoLeak == usedIP \subseteq Online \cup {t.ip : t \in timers} \/ stuck = "both"

(* Nobody can send on a closed channel or close one twice, which would     *)
(* panic the server: a channel the router still holds is open, although    *)
(* several calls for one address may register and remove channels.         *)
ChannelsOpen == \A ip \in IP : router[ip] \notin closed

(* No notification is lost: while a call waits in its select without a     *)
(* token, the endpoints and keys it last sent are the current ones.        *)
(* Subscribing before the first snapshot, taking the token before the next *)
(* one, and one token for many changes are what this rests on.  The        *)
(* exception is a removal that waits for r.mu for ever, which no list      *)
(* follows.                                                                *)
Endpoints(list) == [ip \in DOMAIN list |-> [addr |-> list[ip].addr, key |-> list[ip].key]]

ListFresh ==
    \A s \in Session :
        pc[s] = "loop" /\ s \notin pending /\ ManagerFree => Endpoints(view[s]) = Endpoints(PeerList)

(* Two nodes never hold one address at the same time, from the grant until *)
(* one end of the stream breaks.  It rests on every release being made by  *)
(* the call that the address was granted for, and after that call's last   *)
(* use of it.  It holds in the careful behaviours; after a restart, or a   *)
(* timeout that was not right, a node may still hold what the server has   *)
(* given to another.  A node whose stream broke at the server's end first  *)
(* may carry on with its address when another has it.                      *)
DistinctAddresses ==
    \A n, m \in Node : Holds(n) /\ Holds(m) /\ n # m => virtualIP[n] # virtualIP[m]

(* Nor do they carry one name, in the same behaviours: a node that comes   *)
(* back asks for the name it was granted, which it may have lost to        *)
(* another meanwhile, and may be granted a name with one more suffix.      *)
DistinctNames ==
    \A n, m \in Node : Holds(n) /\ Holds(m) /\ n # m => hostname[n] # hostname[m]

(* When all nodes are gone, however they went, every address comes back    *)
(* and no peer stays listed, unless one of them asked for any address when *)
(* none was left and its search stopped the registry.                      *)
AllGone == \A n \in Node : state[n] \in {"refused", "halted"}

Reclaimed == AllGone ~> (usedIP = {} /\ Online = {}) \/ ~RegistryFree

-----------------------------------------------------------------------------
(* What comments and messages of the code say, and the code does not do.   *)

(* node.go:376, the address "has been occupied by another node". *)
RefusedForAnotherNode ==
    \A n \in Node : state[n] = "refused" =>
        \E m \in Node \ {n} : virtualIP[m] = virtualIP[n]
=============================================================================
