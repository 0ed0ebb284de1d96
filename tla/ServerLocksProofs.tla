------------------------- MODULE ServerLocksProofs -------------------------
(***************************************************************************)
(* Proofs about the server's locks, for any number of goroutines and any   *)
(* pool: taken lock by lock and probe by probe, the registry is the atomic *)
(* one of Registry, and its books agree.                                   *)
(***************************************************************************)
EXTENDS ServerLocks, RegistryProofs

(* What a call is about: a registration carries a request, everything else *)
(* concerns addresses.                                                     *)
Carries ==
    /\ \A g \in Goroutine : pc[g] \in {"register", "search"}
         => \E r \in Requests : reqName[g] = r[1] /\ todo[g] = {r[2]}
    /\ \A g \in Goroutine : pc[g] = "search" => todo[g] = {NoIP}
    /\ \A g \in Goroutine : pc[g] \notin {"register", "search"} => todo[g] \subseteq IP

(* All the cursor has passed since the search began is in use.             *)
Searched == rMu # Nobody => Atomic!Probed(nextIP) \subseteq usedIP

LocksInv == RegistryTypeOK /\ LocksTypeOK /\ Carries /\ Searched

LEMMA LocksInvInit == Init => LocksInv
<1> SUFFICES ASSUME Init PROVE LocksInv
  OBVIOUS
<1>1. NoName \in Name
  BY DEF NoName, Name
<1>2. RegistryTypeOK
  BY <1>1, PoolAssumption DEF Init, RegistryInit, RegistryTypeOK
<1>3. First \in First..Last
  BY PoolAssumption
<1>4. LocksTypeOK
  BY <1>1, <1>3, GoroutineAssumption DEF Init, LocksTypeOK
<1>5. Carries /\ Searched
  BY DEF Init, Carries, Searched
<1> QED
  BY <1>2, <1>4, <1>5 DEF LocksInv

(* A registration that is granted an address carried a request.            *)
LEMMA RequestOf ==
    ASSUME LocksInv, NEW g \in Goroutine, pc[g] \in {"register", "search"}
    PROVE  \E r \in Requests : /\ reqName[g] = r[1] /\ todo[g] = {r[2]}
                               /\ r[1] \in Name /\ r[2] \in IP \cup {NoIP}
  BY RequestsAssumption DEF LocksInv, Carries

(* One round of the loop that finds an address in use keeps Searched.      *)
LEMMA ProbeSearched ==
    ASSUME RegistryTypeOK, LocksTypeOK, Searched, rMu # Nobody, nextIP \in usedIP,
           nextIP' = Succ(nextIP), UNCHANGED <<usedIP, rMu, start>>
    PROVE  Searched' /\ nextIP' \in First..Last
<1> DEFINE Passed(ip) == IF start <= ip THEN start..(ip - 1)
                                        ELSE (start..Last) \cup (First..(ip - 1))
<1>1. First \in Nat /\ Last \in Nat /\ nextIP \in First..Last /\ start \in First..Last
  BY PoolAssumption DEF RegistryTypeOK, LocksTypeOK
<1>2. Passed(nextIP) \subseteq usedIP
  BY DEF Searched, Atomic!Probed
<1>3. nextIP' = IF nextIP + 1 > Last THEN First ELSE nextIP + 1
  BY DEF Succ
<1>4. nextIP' \in First..Last
  BY <1>1, <1>3
<1>5. Passed(nextIP') \subseteq Passed(nextIP) \cup {nextIP}
  <2> SUFFICES ASSUME NEW x \in Passed(nextIP'), x # nextIP PROVE x \in Passed(nextIP)
    OBVIOUS
  <2>1. CASE start <= nextIP'
    BY <1>1, <1>3, <2>1
  <2>2. CASE start > nextIP'
    BY <1>1, <1>3, <2>2
  <2> QED
    BY <1>1, <1>4, <2>1, <2>2
<1>6. Passed(nextIP') \subseteq usedIP
  BY <1>2, <1>5
<1>7. Searched' <=> (rMu' # Nobody => (Atomic!Probed(nextIP))' \subseteq usedIP')
  BY DEF Searched
<1>8. (Atomic!Probed(nextIP))' = Passed(nextIP')
  BY DEF Atomic!Probed
<1> QED
  BY <1>4, <1>6, <1>7, <1>8

(* The round of the loop that finds a free address is Allocate.            *)
LEMMA ProbeAllocates ==
    ASSUME LocksInv, NEW g \in Goroutine, Probe(g), nextIP \notin usedIP
    PROVE  \E r \in Requests : \E name \in GrantedNames(r[1], nextIP) :
              /\ r[2] = NoIP /\ r[1] \in Name /\ nextIP \in IP
              /\ Allocate(r[1], r[2], name, nextIP)
<1>1. PICK r \in Requests : /\ reqName[g] = r[1] /\ todo[g] = {r[2]} /\ r[1] \in Name
  BY RequestOf DEF Probe
<1>2. r[2] = NoIP
  BY <1>1 DEF Probe, LocksInv, Carries
<1>3. nextIP \in (First..Last) \ usedIP /\ nextIP \in IP
  BY PoolAssumption DEF LocksInv, RegistryTypeOK
<1>4. Available(nextIP)
  BY <1>3, PoolAssumption DEF Available, Probed
<1>5. PICK name \in GrantedNames(r[1], nextIP) :
        /\ nextIP' = Succ(nextIP)
        /\ usedIP' = usedIP \cup {nextIP}
        /\ usedName' = usedName \cup {name}
        /\ ipToName' = [ipToName EXCEPT ![nextIP] = name]
  BY <1>1 DEF Probe
<1> QED
  BY <1>1, <1>2, <1>3, <1>4, <1>5 DEF Allocate

(* Granting a requested address is Allocate as well.                       *)
LEMMA RequestedAllocates ==
    ASSUME LocksInv, NEW g \in Goroutine, AllocateRequested(g), ~UNCHANGED registryVars
    PROVE  \E r \in Requests : \E ip \in IP : \E name \in GrantedNames(r[1], ip) :
              r[1] \in Name /\ r[2] = ip /\ Allocate(r[1], r[2], name, ip)
<1>1. PICK r \in Requests : /\ reqName[g] = r[1] /\ todo[g] = {r[2]}
                            /\ r[1] \in Name /\ r[2] \in IP \cup {NoIP}
  BY RequestOf DEF AllocateRequested
<1>2. r[2] \in IP
  BY <1>1 DEF AllocateRequested
<1>3. PICK name \in GrantedNames(r[1], r[2]) : Allocate(r[1], r[2], name, r[2])
  BY <1>1 DEF AllocateRequested
<1> QED
  BY <1>1, <1>2, <1>3

LEMMA RegistryTypeStep == LocksInv /\ [Next]_vars => RegistryTypeOK'
<1> SUFFICES ASSUME LocksInv, [Next]_vars PROVE RegistryTypeOK'
  OBVIOUS
<1>0. RegistryTypeOK
  BY DEF LocksInv
<1>1. CASE UNCHANGED registryVars
  BY <1>0, <1>1 DEF registryVars, RegistryTypeOK
<1>2. ASSUME NEW g \in Goroutine, AllocateRequested(g) PROVE RegistryTypeOK'
  BY <1>0, <1>1, <1>2, RequestedAllocates, AllocateTypes
<1>3. ASSUME NEW g \in Goroutine, Probe(g) PROVE RegistryTypeOK'
  <2>1. CASE nextIP \in usedIP
    <3>1. rMu # Nobody
      BY <1>3, GoroutineAssumption DEF Probe, LocksInv, LocksTypeOK
    <3>2. nextIP' \in First..Last
      BY <1>3, <2>1, <3>1, ProbeSearched DEF Probe, LocksInv
    <3> QED
      BY <1>0, <1>3, <2>1, <3>2 DEF Probe, RegistryTypeOK
  <2>2. CASE nextIP \notin usedIP
    BY <1>0, <1>3, <2>2, ProbeAllocates, AllocateTypes
  <2> QED
    BY <2>1, <2>2
<1>4. ASSUME NEW g \in Goroutine, GiveBack(g) \/ Drop(g) PROVE RegistryTypeOK'
  <2>1. \E ip \in todo[g] : Release(ip)
    BY <1>4 DEF GiveBack, Drop
  <2>2. todo[g] \subseteq IP
    BY <1>4 DEF GiveBack, Drop, LocksInv, Carries
  <2> QED
    BY <1>0, <2>1, <2>2, ReleaseTypes
<1> QED
  BY <1>1, <1>2, <1>3, <1>4
     DEF Next, Begin, Step, vars, registryVars, Call, CallRegister, CallAdd, CallRemove,
         CallClean, CallOrphan, BeginSearch, Add, Lock, Evict, Unlock, Look

(* The locks and the places of the goroutines belong together.             *)
LEMMA LocksTypeStep == LocksInv /\ [Next]_vars => LocksTypeOK' /\ Carries'
<1> SUFFICES ASSUME LocksInv, [Next]_vars PROVE LocksTypeOK' /\ Carries'
  OBVIOUS
<1>0. RegistryTypeOK /\ LocksTypeOK /\ Carries
  BY DEF LocksInv
<1>n. NoName \in Name
  BY NoNameIsName
<1> USE GoroutineAssumption, <1>0, <1>n DEF LocksTypeOK, Carries, Return, Goto
<1>1. ASSUME NEW g \in Goroutine, Begin(g) PROVE LocksTypeOK' /\ Carries'
  <2>1. CASE CallRegister(g)
    <3>1. PICK r \in Requests : Call(g, "register", "register", {r[2]}, r[1])
      BY <2>1 DEF CallRegister
    <3>2. r[1] \in Name /\ r[2] \in IP \cup {NoIP}
      BY RequestsAssumption
    <3> QED
      BY <3>1, <3>2 DEF Call
  <2>2. ASSUME NEW ips \in SUBSET IP, NEW job,
               NEW label \in {"add", "remove", "clean", "look"}, Call(g, job, label, ips, NoName)
        PROVE  LocksTypeOK' /\ Carries'
    BY <2>2 DEF Call
  <2>3. ASSUME NEW ip \in IP, \/ Call(g, "add", "add", {ip}, NoName)
                             \/ Call(g, "remove", "remove", {ip}, NoName)
                             \/ Call(g, "look", "look", {ip}, NoName)
        PROVE  LocksTypeOK' /\ Carries'
    <3> HIDE <1>0, <1>n, GoroutineAssumption DEF LocksTypeOK, Carries, Return, Goto
    <3>1. {ip} \in SUBSET IP
      OBVIOUS
    <3> QED
      BY <2>2, <2>3, <3>1
  <2>4. CASE CallClean(g)
    <3> HIDE <1>0, <1>n, GoroutineAssumption DEF LocksTypeOK, Carries, Return, Goto
    <3>1. {} \in SUBSET IP
      OBVIOUS
    <3> QED
      BY <2>2, <2>4, <3>1 DEF CallClean
  <2> QED
    BY <1>1, <2>1, <2>3, <2>4 DEF Begin, CallAdd, CallRemove, CallOrphan
<1>2. ASSUME NEW g \in Goroutine, AllocateRequested(g) PROVE LocksTypeOK' /\ Carries'
  BY <1>2 DEF AllocateRequested
<1>3. ASSUME NEW g \in Goroutine, BeginSearch(g) PROVE LocksTypeOK' /\ Carries'
  BY <1>3 DEF BeginSearch, RegistryTypeOK
<1>4. ASSUME NEW g \in Goroutine, Probe(g) PROVE LocksTypeOK' /\ Carries'
  <2>1. First \in First..Last
    BY PoolAssumption
  <2> QED
    BY <1>4, <2>1 DEF Probe
<1>5. ASSUME NEW g \in Goroutine, Add(g) PROVE LocksTypeOK' /\ Carries'
  BY <1>5 DEF Add
<1>6. ASSUME NEW g \in Goroutine, Lock(g) PROVE LocksTypeOK' /\ Carries'
  BY <1>6 DEF Lock
<1>7. ASSUME NEW g \in Goroutine, Evict(g) PROVE LocksTypeOK' /\ Carries'
  BY <1>7 DEF Evict
<1>8. ASSUME NEW g \in Goroutine, GiveBack(g) PROVE LocksTypeOK' /\ Carries'
  BY <1>8 DEF GiveBack
<1>9. ASSUME NEW g \in Goroutine, Unlock(g) PROVE LocksTypeOK' /\ Carries'
  BY <1>9 DEF Unlock
<1>10. ASSUME NEW g \in Goroutine, Look(g) PROVE LocksTypeOK' /\ Carries'
  BY <1>10 DEF Look
<1>11. ASSUME NEW g \in Goroutine, Drop(g) PROVE LocksTypeOK' /\ Carries'
  BY <1>11 DEF Drop
<1>12. CASE UNCHANGED vars
  BY <1>12 DEF vars, lockVars
<1> QED
  BY <1>1, <1>2, <1>3, <1>4, <1>5, <1>6, <1>7, <1>8, <1>9, <1>10, <1>11, <1>12
     DEF Next, Step

(* While a search holds r.mu nobody else touches the registry.             *)
LEMMA SearchedStep == LocksInv /\ [Next]_vars => Searched'
<1> SUFFICES ASSUME LocksInv, [Next]_vars, rMu' # Nobody PROVE Searched'
  BY DEF Searched
<1>0. RegistryTypeOK /\ LocksTypeOK /\ Searched
  BY DEF LocksInv
<1>1. CASE UNCHANGED <<nextIP, usedIP, rMu, start>>
  BY <1>0, <1>1 DEF Searched, Atomic!Probed
<1>2. ASSUME NEW g \in Goroutine, BeginSearch(g) PROVE Searched'
  <2>1. start' = nextIP /\ UNCHANGED <<nextIP, usedIP>>
    BY <1>2 DEF BeginSearch, registryVars
  <2>2. nextIP..(nextIP - 1) = {} /\ nextIP <= nextIP
    BY <1>0, PoolAssumption DEF RegistryTypeOK
  <2> QED
    BY <2>1, <2>2 DEF Searched, Atomic!Probed
<1>3. ASSUME NEW g \in Goroutine, Probe(g) PROVE Searched'
  <2>1. rMu # Nobody
    BY <1>0, <1>3, GoroutineAssumption DEF Probe, LocksTypeOK
  <2>2. CASE nextIP \in usedIP
    BY <1>0, <1>3, <2>1, <2>2, ProbeSearched DEF Probe
  <2>3. CASE nextIP \notin usedIP
    BY <1>3, <2>3 DEF Probe
  <2> QED
    BY <2>2, <2>3
<1>4. ASSUME NEW g \in Goroutine, AllocateRequested(g) \/ GiveBack(g) \/ Drop(g)
      PROVE  FALSE
  BY <1>4 DEF AllocateRequested, GiveBack, Drop
<1> QED
  BY <1>1, <1>2, <1>3, <1>4
     DEF Next, Begin, Step, vars, registryVars, lockVars, Call, CallRegister, CallAdd,
         CallRemove, CallClean, CallOrphan, Add, Lock, Evict, Unlock, Look

LEMMA LocksInvStep == LocksInv /\ [Next]_vars => LocksInv'
  BY RegistryTypeStep, LocksTypeStep, SearchedStep DEF LocksInv

LEMMA LocksInvCorrect == Spec => []LocksInv
  BY LocksInvInit, LocksInvStep, PTL DEF Spec

(* Whoever is in a critical section, and nobody else, has its lock: m.mu   *)
(* and r.mu are never held by two goroutines, nor by one that returned     *)
(* (manager.go:38-130, registry.go:34-87).                                 *)
THEOREM LocksTypeCorrect == Spec => []LocksTypeOK
<1>1. LocksInv => LocksTypeOK
  BY DEF LocksInv
<1> QED
  BY <1>1, LocksInvCorrect, PTL

-----------------------------------------------------------------------------
LEMMA SameNames ==
    ASSUME NEW req, NEW ip
    PROVE  Atomic!GrantedNames(req, ip) = GrantedNames(req, ip)
<1>1. Atomic!Cardinality(usedName) = Cardinality(usedName)
  BY DEF Cardinality, Atomic!Cardinality
<1> QED
  BY <1>1 DEF GrantedNames, Atomic!GrantedNames, Candidate, Atomic!Candidate,
              NoName, Atomic!NoName

(* Every step is a step of the atomic registry or changes nothing of it:   *)
(* its cursor moves when a search ends.                                    *)
LEMMA StepRefines ==
    LocksInv /\ [Next]_vars => [Atomic!RegistryNext]_(Atomic!registryVars)
<1> SUFFICES ASSUME LocksInv, [Next]_vars, ~UNCHANGED Atomic!registryVars
             PROVE  Atomic!RegistryNext
  OBVIOUS
<1>0. RegistryTypeOK /\ LocksTypeOK /\ Carries /\ Searched
  BY DEF LocksInv
<1>1. ~(UNCHANGED <<registryVars, rMu, start>>)
  BY DEF Atomic!registryVars, registryVars
<1>2. ASSUME NEW g \in Goroutine, BeginSearch(g) PROVE FALSE
  BY <1>2, GoroutineAssumption DEF BeginSearch, Atomic!registryVars, registryVars
<1>3. ASSUME NEW g \in Goroutine, AllocateRequested(g) PROVE Atomic!RegistryNext
  <2>1. ~UNCHANGED registryVars /\ rMu = Nobody /\ rMu' = Nobody
    BY <1>1, <1>3 DEF AllocateRequested
  <2>2. PICK r \in Requests, ip \in IP : \E name \in GrantedNames(r[1], ip) :
          r[2] = ip /\ Allocate(r[1], r[2], name, ip)
    BY <1>3, <2>1, RequestedAllocates
  <2>3. PICK name \in GrantedNames(r[1], ip) : Allocate(r[1], r[2], name, ip)
    BY <2>2
  <2>4. r[2] # NoIP /\ r[2] = ip
    BY <2>2, PoolAssumption
  <2>5. Atomic!Allocate(r[1], r[2], name, ip)
    BY <2>1, <2>3, <2>4, SameNames DEF Allocate, Atomic!Allocate, NoIP, Atomic!NoIP
  <2> QED
    BY <2>3, <2>5, SameNames DEF Atomic!RegistryNext
<1>4. ASSUME NEW g \in Goroutine, Probe(g) PROVE Atomic!RegistryNext
  <2>1. rMu # Nobody
    BY <1>0, <1>4, GoroutineAssumption DEF Probe, LocksTypeOK
  <2>2. nextIP \notin usedIP /\ rMu' = Nobody
    BY <1>4, <2>1 DEF Probe, Atomic!registryVars
  <2>3. PICK r \in Requests : \E name \in GrantedNames(r[1], nextIP) :
          r[2] = NoIP /\ nextIP \in IP /\ Allocate(r[1], r[2], name, nextIP)
    BY <1>4, <2>2, ProbeAllocates
  <2>4. PICK name \in GrantedNames(r[1], nextIP) : Allocate(r[1], r[2], name, nextIP)
    BY <2>3
  <2>5. Atomic!Available(nextIP)
    BY <1>0, <2>1, <2>2 DEF Atomic!Available, RegistryTypeOK, Searched
  <2>6. Atomic!Allocate(r[1], r[2], name, nextIP)
    <3>1. nextIP' = Succ(nextIP)
      BY <1>4 DEF Probe
    <3>2. /\ usedIP' = usedIP \cup {nextIP}
          /\ usedName' = usedName \cup {name}
          /\ ipToName' = [ipToName EXCEPT ![nextIP] = name]
      BY <2>4 DEF Allocate
    <3> QED
      BY <2>2, <2>3, <2>5, <3>1, <3>2, SameNames
         DEF Atomic!Allocate, Atomic!Succ, Succ, NoIP, Atomic!NoIP
  <2> QED
    BY <2>3, <2>6, SameNames DEF Atomic!RegistryNext
<1>5. ASSUME NEW g \in Goroutine, GiveBack(g) \/ Drop(g) PROVE Atomic!RegistryNext
  <2>1. rMu = Nobody /\ rMu' = Nobody /\ (\E ip \in todo[g] : Release(ip))
    BY <1>5 DEF GiveBack, Drop
  <2>2. todo[g] \subseteq IP
    BY <1>0, <1>5 DEF GiveBack, Drop, Carries
  <2>3. PICK ip \in IP : Release(ip)
    BY <2>1, <2>2
  <2>4. Atomic!Release(ip)
    BY <2>1, <2>3 DEF Release, ReleaseAll, Atomic!Release, Atomic!ReleaseAll,
                      NoName, Atomic!NoName
  <2> QED
    BY <2>4 DEF Atomic!RegistryNext
<1> QED
  BY <1>1, <1>2, <1>3, <1>4, <1>5
     DEF Next, Begin, Step, vars, lockVars, Call, CallRegister, CallAdd,
         CallRemove, CallClean, CallOrphan, Add, Lock, Evict, Unlock, Look

(* For any pool and any number of goroutines, the registry does what       *)
(* Registry says in one step each, although a search moves the cursor      *)
(* probe by probe and a clean-up gives back peer by peer (registry.go:46-  *)
(* 60, manager.go:115-130).                                                *)
THEOREM ImplementsRegistryCorrect == Spec => ImplementsRegistry
<1>1. Init => Atomic!RegistryInit
  BY DEF Init, RegistryInit, Atomic!RegistryInit, NoName, Atomic!NoName
<1> QED
  BY <1>1, LocksInvCorrect, StepRefines, PTL
     DEF Spec, ImplementsRegistry, Atomic!RegistrySpec

-----------------------------------------------------------------------------
LEMMA BooksStep ==
    ASSUME Named
    PROVE  LocksInv /\ RegistryInv /\ [Next]_vars => RegistryInv'
<1> SUFFICES ASSUME LocksInv, RegistryInv, [Next]_vars PROVE RegistryInv'
  OBVIOUS
<1>1. CASE UNCHANGED <<usedIP, usedName, ipToName>>
  BY <1>1, RegistryTypeStep DEF RegistryInv, BooksAgree, NamesDistinct
<1>2. ASSUME NEW g \in Goroutine, AllocateRequested(g), ~UNCHANGED registryVars
      PROVE  RegistryInv'
  <2>1. PICK r \in Requests, ip \in IP : \E name \in GrantedNames(r[1], ip) :
          r[1] \in Name /\ r[2] = ip /\ Allocate(r[1], r[2], name, ip)
    BY <1>2, RequestedAllocates
  <2> QED
    BY <2>1, AllocateKeeps DEF Named
<1>3. ASSUME NEW g \in Goroutine, Probe(g), nextIP \notin usedIP PROVE RegistryInv'
  <2>1. PICK r \in Requests : \E name \in GrantedNames(r[1], nextIP) :
          /\ r[2] = NoIP /\ r[1] \in Name /\ nextIP \in IP
          /\ Allocate(r[1], r[2], name, nextIP)
    BY <1>3, ProbeAllocates
  <2> QED
    BY <2>1, AllocateKeeps DEF Named
<1>4. ASSUME NEW g \in Goroutine, GiveBack(g) \/ Drop(g) PROVE RegistryInv'
  <2>1. \E ip \in todo[g] : Release(ip)
    BY <1>4 DEF GiveBack, Drop
  <2>2. todo[g] \subseteq IP
    BY <1>4 DEF GiveBack, Drop, LocksInv, Carries
  <2> QED
    BY <2>1, <2>2, ReleaseKeeps
<1> QED
  BY <1>1, <1>2, <1>3, <1>4
     DEF Next, Begin, Step, vars, registryVars, Probe, Call, CallRegister, CallAdd,
         CallRemove, CallClean, CallOrphan, BeginSearch, Add, Lock, Evict, Unlock, Look

(* When every host asks for a name, the registry's books agree and no two  *)
(* addresses share a name, at every moment between two steps of any        *)
(* goroutine, in the middle of a search or a clean-up too                  *)
(* (registry.go:34-87).                                                    *)
THEOREM LockedBooksCorrect ==
    ASSUME Named
    PROVE  Spec => [](BooksAgree /\ NamesDistinct)
<1>1. Init => RegistryInv
  BY RegistryInvInit DEF Init
<1>2. RegistryInv => BooksAgree /\ NamesDistinct
  BY DEF RegistryInv
<1> QED
  BY <1>1, <1>2, BooksStep, LocksInvCorrect, PTL DEF Spec

=============================================================================
