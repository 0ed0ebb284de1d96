---------------------------- MODULE ServerLocks ----------------------------
(***************************************************************************)
(* The locks of the server: what Registry and PeerManager do in one action *)
(* each, here from lock to lock (registry.go, manager.go, and the calls of *)
(* service.go and cmd/server/main.go that lead there).                     *)
(*                                                                         *)
(* m.mu guards the peers, r.mu the registry.  Allocate keeps r.mu while it *)
(* searches the pool.  Who removes peers keeps m.mu while it waits for     *)
(* r.mu, once per peer.  The other order does not occur.  The locks of the *)
(* router and of the event bus are held for a moment and never while       *)
(* waiting, so that they are part of the steps below.                      *)
(*                                                                         *)
(* Of a peer only its address is kept, of the time only that any peer may  *)
(* have expired when the clean-up loop looks.                              *)
(***************************************************************************)
EXTENDS Registry

CONSTANTS Goroutine, \* handlers, receivers, orphan timers, the clean-up loop
          Job,       \* what each of them calls
          Nobody

ASSUME GoroutineAssumption ==
    /\ Nobody \notin Goroutine
    /\ Job \in [Goroutine -> SUBSET {"register", "add", "remove", "clean", "look"}]

VARIABLES online,  \* the addresses in m.peers
          mMu,     \* who has m.mu locked for writing
          rMu,     \* who has r.mu locked
          pc,      \* the next step of each goroutine
          todo,    \* the addresses its call is about
          reqName, \* the name its call asks for
          start    \* where the cursor stood when the search began

lockVars == <<online, mMu, rMu, pc, todo, reqName, start>>
vars == <<registryVars, lockVars>>

LocksTypeOK ==
    /\ online \subseteq IP
    /\ mMu \in Goroutine \cup {Nobody} /\ rMu \in Goroutine \cup {Nobody}
    /\ pc \in [Goroutine -> {"idle", "register", "search", "add", "remove",
                             "clean", "sweep", "evict", "look", "drop"}]
    /\ todo \in [Goroutine -> SUBSET (IP \cup {NoIP})]
    /\ reqName \in [Goroutine -> Name]
    /\ start \in First..Last
    /\ \A g \in Goroutine : /\ mMu = g <=> pc[g] \in {"sweep", "evict"}
                            /\ rMu = g <=> pc[g] = "search"

Init ==
    /\ RegistryInit
    /\ online = {}
    /\ mMu = Nobody /\ rMu = Nobody
    /\ pc = [g \in Goroutine |-> "idle"]
    /\ todo = [g \in Goroutine |-> {}]
    /\ reqName = [g \in Goroutine |-> NoName]
    /\ start = First

-----------------------------------------------------------------------------
(* A call begins: a request, a heartbeat, the end of a call, the clean-up  *)
(* loop's turn, the end of an orphan timer's sleep.                        *)
Call(g, job, label, ips, name) ==
    /\ pc[g] = "idle" /\ job \in Job[g]
    /\ pc' = [pc EXCEPT ![g] = label]
    /\ todo' = [todo EXCEPT ![g] = ips]
    /\ reqName' = [reqName EXCEPT ![g] = name]
    /\ UNCHANGED <<registryVars, online, mMu, rMu, start>>

CallRegister(g) == \E r \in Requests : Call(g, "register", "register", {r[2]}, r[1])
CallAdd(g)      == \E ip \in IP : Call(g, "add", "add", {ip}, NoName)
CallRemove(g)   == \E ip \in IP : Call(g, "remove", "remove", {ip}, NoName)
CallClean(g)    == Call(g, "clean", "clean", {}, NoName)
CallOrphan(g)   == \E ip \in IP : Call(g, "look", "look", {ip}, NoName)

Goto(g, label) == pc' = [pc EXCEPT ![g] = label] /\ UNCHANGED <<todo, reqName>>

Return(g) ==
    /\ pc' = [pc EXCEPT ![g] = "idle"]
    /\ todo' = [todo EXCEPT ![g] = {}]
    /\ reqName' = [reqName EXCEPT ![g] = NoName]

-----------------------------------------------------------------------------
(* Allocate with a requested address: granted or refused at once.          *)
AllocateRequested(g) ==
    /\ pc[g] = "register" /\ todo[g] # {NoIP} /\ rMu = Nobody
    /\ \E ip \in todo[g] :
         IF ip \in usedIP THEN UNCHANGED registryVars
         ELSE \E name \in GrantedNames(reqName[g], ip) : Allocate(reqName[g], ip, name, ip)
    /\ Return(g)
    /\ UNCHANGED <<online, mMu, rMu, start>>

(* Without one it locks r.mu and searches.                                 *)
BeginSearch(g) ==
    /\ pc[g] = "register" /\ todo[g] = {NoIP} /\ rMu = Nobody
    /\ rMu' = g
    /\ start' = nextIP
    /\ Goto(g, "search")
    /\ UNCHANGED <<registryVars, online, mMu>>

\* Mutant: the cursor moves only when the address is taken.
ProbeStill(g) ==
    /\ pc[g] = "search"
    /\ IF nextIP \in usedIP
       THEN UNCHANGED <<registryVars, rMu, start, pc, todo, reqName>>
       ELSE /\ nextIP' = Succ(nextIP)
            /\ \E name \in GrantedNames(reqName[g], nextIP) :
                 /\ usedIP' = usedIP \cup {nextIP}
                 /\ usedName' = usedName \cup {name}
                 /\ ipToName' = [ipToName EXCEPT ![nextIP] = name]
            /\ rMu' = Nobody
            /\ start' = First
            /\ Return(g)
    /\ UNCHANGED <<online, mMu>>

(* One round of the loop: the cursor moves on, whether the address was in  *)
(* use or is taken now.  In a full pool the loop does not end.             *)
Probe(g) ==
    /\ pc[g] = "search"
    /\ nextIP' = Succ(nextIP)
    /\ IF nextIP \in usedIP
       THEN UNCHANGED <<usedIP, usedName, ipToName, rMu, start, pc, todo, reqName>>
       ELSE /\ \E name \in GrantedNames(reqName[g], nextIP) :
                 /\ usedIP' = usedIP \cup {nextIP}
                 /\ usedName' = usedName \cup {name}
                 /\ ipToName' = [ipToName EXCEPT ![nextIP] = name]
            /\ rMu' = Nobody
            /\ start' = First
            /\ Return(g)
    /\ UNCHANGED <<online, mMu>>

-----------------------------------------------------------------------------
(* AddOrUpdatePeer, with its notification.                                 *)
Add(g) ==
    /\ pc[g] = "add" /\ mMu = Nobody
    /\ online' = online \cup todo[g]
    /\ Return(g)
    /\ UNCHANGED <<registryVars, mMu, rMu, start>>

(* RemovePeer and CleanExpired lock m.mu for all they do.                  *)
Lock(g) ==
    /\ mMu = Nobody /\ mMu' = g
    /\ \/ pc[g] = "remove" /\ todo' = [todo EXCEPT ![g] = @ \cap online]
       \/ pc[g] = "clean" /\ \E S \in SUBSET online : todo' = [todo EXCEPT ![g] = S]
    /\ pc' = [pc EXCEPT ![g] = "sweep"]
    /\ UNCHANGED <<registryVars, online, rMu, reqName, start>>

(* removePeerLocked: the peer and its channel go, *)
Evict(g) ==
    /\ pc[g] = "sweep"
    /\ \E ip \in todo[g] :
         /\ online' = online \ {ip}
         /\ pc' = [pc EXCEPT ![g] = "evict"]
    /\ UNCHANGED <<registryVars, mMu, rMu, todo, reqName, start>>

\* Mutant: Release does not lock.
GiveBackUnlocked(g) ==
    /\ pc[g] = "evict"
    /\ \E ip \in todo[g] \ online :
         /\ Release(ip)
         /\ todo' = [todo EXCEPT ![g] = @ \ {ip}]
    /\ pc' = [pc EXCEPT ![g] = "sweep"]
    /\ UNCHANGED <<online, mMu, rMu, reqName, start>>

(* and onRemove gives the address back, which needs r.mu. *)
GiveBack(g) ==
    /\ pc[g] = "evict" /\ rMu = Nobody
    /\ \E ip \in todo[g] \ online :
         /\ Release(ip)
         /\ todo' = [todo EXCEPT ![g] = @ \ {ip}]
    /\ pc' = [pc EXCEPT ![g] = "sweep"]
    /\ UNCHANGED <<online, mMu, rMu, reqName, start>>

\* Mutant: m.mu stays locked when there was nothing to remove.
UnlockNever(g) ==
    /\ pc[g] = "sweep" /\ todo[g] = {}
    /\ Return(g)
    /\ UNCHANGED <<registryVars, online, mMu, rMu, start>>

(* All are removed: the notification, and m.mu is unlocked. *)
Unlock(g) ==
    /\ pc[g] = "sweep" /\ todo[g] = {}
    /\ mMu' = Nobody
    /\ Return(g)
    /\ UNCHANGED <<registryVars, online, rMu, start>>

-----------------------------------------------------------------------------
(* The orphan timer: HasPeer under m.mu, *)
Look(g) ==
    /\ pc[g] = "look" /\ mMu = Nobody
    /\ IF todo[g] \subseteq online THEN Return(g) ELSE Goto(g, "drop")
    /\ UNCHANGED <<registryVars, online, mMu, rMu, start>>

(* then, holding nothing, Release under r.mu. *)
Drop(g) ==
    /\ pc[g] = "drop" /\ rMu = Nobody
    /\ \E ip \in todo[g] : Release(ip)
    /\ Return(g)
    /\ UNCHANGED <<online, mMu, rMu, start>>

-----------------------------------------------------------------------------
Begin(g) ==
    CallRegister(g) \/ CallAdd(g) \/ CallRemove(g) \/ CallClean(g) \/ CallOrphan(g)

Step(g) ==
    \/ AllocateRequested(g) \/ BeginSearch(g) \/ Probe(g)
    \/ Add(g) \/ Lock(g) \/ Evict(g) \/ GiveBack(g) \/ Unlock(g)
    \/ Look(g) \/ Drop(g)

Next == \E g \in Goroutine : Begin(g) \/ Step(g)

Spec == Init /\ [][Next]_vars

(* Goroutines are scheduled, and a Go mutex starves nobody who waits for   *)
(* it.  Nothing makes a call begin.                                        *)
FairSpec == Spec /\ \A g \in Goroutine : SF_vars(Step(g))

-----------------------------------------------------------------------------
(* The registry step by step does what Registry says it does at once: the  *)
(* address found is the first free one after the cursor, although the      *)
(* cursor moves while others wait, and a search without an end has no      *)
(* effect (registry.go:46-60).                                             *)
Atomic == INSTANCE Registry WITH nextIP <- IF rMu = Nobody THEN nextIP ELSE start

ImplementsRegistry == Atomic!RegistrySpec

(* Every call returns, in whatever order the locks are taken, unless a     *)
(* host without an address of its own has found the pool full: then the    *)
(* search keeps r.mu, the next peer to be removed keeps m.mu waiting for   *)
(* it, and nothing that could free an address ever runs again              *)
(* (registry.go:48, manager.go:71-77).                                     *)
SearchesFullPool == rMu # Nobody /\ First..Last \subseteq usedIP

CallsReturn ==
    \A g \in Goroutine : pc[g] # "idle" ~> pc[g] = "idle" \/ SearchesFullPool
=============================================================================
