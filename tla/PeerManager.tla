---------------------------- MODULE PeerManager ----------------------------
(***************************************************************************)
(* The server's shared tables: the online peers (manager.go), the signal   *)
(* channels (signal_router.go) and the update subscriptions (event_bus.go).*)
(*                                                                         *)
(* Every operation is one action.  An operation that changes peers holds   *)
(* m.mu from its first read to its last write, and the locks it takes      *)
(* inside (the router's, the bus's, the registry's) are leaves: nobody who *)
(* holds one waits for another.  The registry's may be held for ever.      *)
(*                                                                         *)
(* A Go channel is named by the Heartbeat call that made it: call s makes  *)
(* the signal channel queue[s] and the update channel whose token is       *)
(* s \in pending.                                                          *)
(***************************************************************************)
EXTENDS Registry

CONSTANTS Session,     \* Heartbeat calls
          NoSession,
          Node,        \* client processes; each has its own public key
          Addr,        \* public endpoints (IP and port) as the server sees them
          NoPeer,
          QueueCap,    \* capacity of a signal channel (10 in the code)
          ExpireTicks  \* CleanExpired's timeout (30 s), in ticks

ASSUME ManagerAssumption ==
    /\ NoSession \notin Session
    /\ QueueCap \in Nat \ {0}
    /\ ExpireTicks \in Nat

(* age is the time since LastHeartbeat; past the timeout it stops counting. *)
Peer == [name : Name, addr : Addr, key : Node, age : 0..(ExpireTicks + 1)]

ASSUME NoPeerAssumption == NoPeer \notin Peer

VARIABLES peers,    \* m.peers
          router,   \* r.channels
          queue,    \* the signals in each signal channel
          closed,   \* the signal channels that are closed
          subs,     \* b.subscribers
          pending   \* the update channels that hold a token

managerVars == <<peers, router, queue, closed, subs, pending>>

ManagerTypeOK ==
    /\ peers \in [IP -> Peer \cup {NoPeer}]
    /\ router \in [IP -> Session \cup {NoSession}]
    /\ queue \in [Session -> Seq(Node)]
    /\ closed \in SUBSET Session
    /\ subs \in SUBSET Session
    /\ pending \in SUBSET Session

ManagerInit ==
    /\ peers = [ip \in IP |-> NoPeer]
    /\ router = [ip \in IP |-> NoSession]
    /\ queue = [s \in Session |-> <<>>]
    /\ closed = {}
    /\ subs = {}
    /\ pending = {}

-----------------------------------------------------------------------------
Online == {ip \in IP : peers[ip] # NoPeer}

(* GetAllPeers: what a peer list says of each address that is online. *)
PeerList ==
    [ip \in Online |-> [name |-> peers[ip].name, addr |-> peers[ip].addr,
                        key |-> peers[ip].key]]

(* Notify puts a token into every subscriber's channel that has none. *)
Notify == pending' = pending \cup subs

\* Mutant: a changed endpoint is no news.
AddOrUpdatePeerQuiet(ip, name, addr, key) ==
    /\ peers' = [peers EXCEPT ![ip] =
                   [name |-> name, addr |-> addr, key |-> key, age |-> 0]]
    /\ IF peers[ip] = NoPeer \/ peers[ip].key # key THEN Notify ELSE UNCHANGED pending
    /\ UNCHANGED <<router, queue, closed, subs, registryVars>>

(* AddOrUpdatePeer.  Only a new peer, endpoint or key is news: a changed   *)
(* host name is stored without a notification.                             *)
AddOrUpdatePeer(ip, name, addr, key) ==
    /\ peers' = [peers EXCEPT ![ip] =
                   [name |-> name, addr |-> addr, key |-> key, age |-> 0]]
    /\ IF \/ peers[ip] = NoPeer
          \/ peers[ip].addr # addr
          \/ peers[ip].key # key
       THEN Notify
       ELSE UNCHANGED pending
    /\ UNCHANGED <<router, queue, closed, subs, registryVars>>

\* Mutants: onRemove is not called; the closed channel stays in the router;
\* the removal is not announced.
RemoveAllKeepAddress(S) ==
    /\ peers' = [ip \in IP |-> IF ip \in S THEN NoPeer ELSE peers[ip]]
    /\ router' = [ip \in IP |-> IF ip \in S THEN NoSession ELSE router[ip]]
    /\ closed' = closed \cup ({router[ip] : ip \in S} \ {NoSession})
    /\ IF S = {} THEN UNCHANGED pending ELSE Notify
    /\ UNCHANGED <<queue, subs, registryVars>>

RemoveAllKeepChannel(S) ==
    /\ peers' = [ip \in IP |-> IF ip \in S THEN NoPeer ELSE peers[ip]]
    /\ closed' = closed \cup ({router[ip] : ip \in S} \ {NoSession})
    /\ ReleaseAll(S)
    /\ IF S = {} THEN UNCHANGED pending ELSE Notify
    /\ UNCHANGED <<router, queue, subs>>

RemoveAllQuiet(S) ==
    /\ peers' = [ip \in IP |-> IF ip \in S THEN NoPeer ELSE peers[ip]]
    /\ router' = [ip \in IP |-> IF ip \in S THEN NoSession ELSE router[ip]]
    /\ closed' = closed \cup ({router[ip] : ip \in S} \ {NoSession})
    /\ ReleaseAll(S)
    /\ UNCHANGED <<queue, subs, pending>>

(* removePeerLocked for each address of S, and one notification: the peer  *)
(* leaves the table, its signal channel is closed, its address released.   *)
RemoveAll(S) ==
    /\ peers' = [ip \in IP |-> IF ip \in S THEN NoPeer ELSE peers[ip]]
    /\ router' = [ip \in IP |-> IF ip \in S THEN NoSession ELSE router[ip]]
    /\ closed' = closed \cup ({router[ip] : ip \in S} \ {NoSession})
    /\ ReleaseAll(S)
    /\ IF S = {} THEN UNCHANGED pending ELSE Notify
    /\ UNCHANGED <<queue, subs>>

(* The same while r.mu is held for ever: the first peer of S, whichever    *)
(* that is, leaves the table and its channel is closed; its address is not *)
(* released and nobody is notified.                                        *)
RemoveBlocked(S) ==
    /\ \E ip \in S :
         /\ peers' = [peers EXCEPT ![ip] = NoPeer]
         /\ router' = [router EXCEPT ![ip] = NoSession]
         /\ closed' = closed \cup ({router[ip]} \ {NoSession})
    /\ UNCHANGED <<queue, subs, pending, registryVars>>

(* RemovePeer does nothing for an address that is not online. *)
RemovePeer(ip) == RemoveAll({ip} \cap Online)

Expired == {ip \in Online : peers[ip].age > ExpireTicks}

CleanExpired == RemoveAll(Expired)

(* Router.Register: call s's new channel replaces whatever channel the     *)
(* address had; the old one is neither closed nor reachable any more.      *)
RegisterChannel(ip, s) ==
    /\ router' = [router EXCEPT ![ip] = s]
    /\ queue' = [queue EXCEPT ![s] = <<>>]
    /\ closed' = closed \ {s}
    /\ UNCHANGED <<peers, subs, pending, registryVars>>

(* Route succeeds when the address has a channel with room for one more. *)
Route(ip, from) ==
    /\ router[ip] # NoSession
    /\ Len(queue[router[ip]]) < QueueCap
    /\ queue' = [queue EXCEPT ![router[ip]] = Append(@, from)]
    /\ UNCHANGED <<peers, router, closed, subs, pending, registryVars>>

Subscribe(s) ==
    /\ subs' = subs \cup {s}
    /\ pending' = pending \ {s}
    /\ UNCHANGED <<peers, router, queue, closed, registryVars>>

(* Without the frame: the call that ends may take from its queue as well. *)
Unsubscribe(s) ==
    /\ subs' = subs \ {s}
    /\ pending' = pending \ {s}
=============================================================================
