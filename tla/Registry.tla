------------------------------ MODULE Registry ------------------------------
(***************************************************************************)
(* The address and name registry of the signaling server                   *)
(* (src/internal/server/registry.go).  Every operation runs under r.mu, so *)
(* each is one action.                                                     *)
(*                                                                         *)
(* A virtual IP is a number: First..Last stand for the addresses the       *)
(* cursor walks (prefix.2 .. prefix.254), the other elements of IP for     *)
(* addresses a host can only get by asking for them, which nothing keeps   *)
(* inside the prefix.  A host name is a sequence: the string the host      *)
(* asked for, followed by the suffixes "-k" the registry appended, so that *)
(* nas-2 is <<nas, 2>> whoever produced it.  The empty string is <<>>,     *)
(* which is also what a Go map returns for a missing key.                  *)
(***************************************************************************)
EXTENDS Naturals, Sequences, FiniteSets

CONSTANTS IP,      \* every virtual address a node can hold
          First,   \* the first address handed out automatically
          Last,    \* the last address handed out automatically
          Host,    \* the strings hosts ask to be named by
          Client,  \* the string "Client", which default names start with
          LastNum, \* the last number of an address: 3 for 10.8.0.3 and 10.9.0.3
          Requests \* the pairs <<requested name, requested address>> hosts make

NoIP   == 0        \* requested_ip = ""
NoName == <<>>     \* requested_hostname = ""

ASSUME PoolAssumption ==
    /\ First \in Nat /\ Last \in Nat
    /\ First <= Last
    /\ First..Last \subseteq IP
    /\ IP \subseteq Nat \ {NoIP}
    /\ LastNum \in [IP -> Nat]

Name == Seq(Host \cup {Client} \cup Nat)

ASSUME RequestsAssumption == Requests \subseteq Name \X (IP \cup {NoIP})

VARIABLES nextIP,    \* the cursor of automatic allocation
          usedIP,    \* the addresses in use
          usedName,  \* the names in use
          ipToName   \* the name each address was granted with

registryVars == <<nextIP, usedIP, usedName, ipToName>>

RegistryTypeOK ==
    /\ nextIP \in First..Last
    /\ usedIP \in SUBSET IP
    /\ usedName \in SUBSET Name
    /\ ipToName \in [IP -> Name]

RegistryInit ==
    /\ nextIP = First
    /\ usedIP = {}
    /\ usedName = {}
    /\ ipToName = [ip \in IP |-> NoName]

-----------------------------------------------------------------------------
(* The cursor moves past every address it looks at and wraps after Last. *)
SuccNoWrap(ip) == ip + 1  \* mutant: the wrap is missing

Succ(ip) == IF ip + 1 > Last THEN First ELSE ip + 1

(* The addresses the cursor looks at before it reaches ip. *)
Probed(ip) ==
    IF nextIP <= ip THEN nextIP..(ip - 1)
                    ELSE (nextIP..Last) \cup (First..(ip - 1))

(* The loop of automatic allocation stops at the first free address. *)
Available(ip) ==
    /\ ip \in (First..Last) \ usedIP
    /\ Probed(ip) \subseteq usedIP

(* The k-th name tried for a requested name: the name itself, then name-2, *)
(* name-3, ...                                                             *)
Candidate(reqName, k) == IF k = 1 THEN reqName ELSE Append(reqName, k)

\* Mutant: the first suffix is taken without a look at whether it is free.
GrantedNamesUnchecked(reqName, ip) ==
    IF reqName = NoName THEN {<<Client, LastNum[ip]>>}
    ELSE {IF reqName \in usedName THEN Candidate(reqName, 2) ELSE reqName}

(* The name granted: the first candidate not in use, or Client-<host part> *)
(* unchecked when no name was requested.  A set of one element.            *)
GrantedNames(reqName, ip) ==
    IF reqName = NoName
    THEN {<<Client, LastNum[ip]>>}
    ELSE {Candidate(reqName, k) :
            k \in {n \in 1..(Cardinality(usedName) + 1) :
                     /\ Candidate(reqName, n) \notin usedName
                     /\ \A j \in 1..(n - 1) : Candidate(reqName, j) \in usedName}}

\* Mutant: a requested address is granted although it is in use.
AllocateTaken(reqName, reqIP, name, ip) ==
    /\ \/ reqIP # NoIP /\ ip = reqIP /\ UNCHANGED nextIP
       \/ /\ reqIP = NoIP /\ Available(ip)
          /\ nextIP' = Succ(ip)
    /\ name \in GrantedNames(reqName, ip)
    /\ usedIP' = usedIP \cup {ip}
    /\ usedName' = usedName \cup {name}
    /\ ipToName' = [ipToName EXCEPT ![ip] = name]

(* Allocate grants reqIP or, without one, the next free address. *)
Allocate(reqName, reqIP, name, ip) ==
    /\ \/ /\ reqIP # NoIP /\ ip = reqIP
          /\ reqIP \notin usedIP
          /\ UNCHANGED nextIP
       \/ /\ reqIP = NoIP /\ Available(ip)
          /\ nextIP' = Succ(ip)
    /\ name \in GrantedNames(reqName, ip)
    /\ usedIP' = usedIP \cup {ip}
    /\ usedName' = usedName \cup {name}
    /\ ipToName' = [ipToName EXCEPT ![ip] = name]

\* Mutant: the name is looked up after its entry was deleted.
ReleaseAllLate(S) ==
    /\ usedIP' = usedIP \ S
    /\ usedName' = usedName \ {NoName}
    /\ ipToName' = [ip \in IP |-> IF ip \in S THEN NoName ELSE ipToName[ip]]
    /\ UNCHANGED nextIP

(* Release of each address of S, in any order: each looks at its own name  *)
(* only.  An address that is not in use is released without an effect.     *)
ReleaseAll(S) ==
    /\ usedIP' = usedIP \ S
    /\ usedName' = usedName \ {ipToName[ip] : ip \in S}
    /\ ipToName' = [ip \in IP |-> IF ip \in S THEN NoName ELSE ipToName[ip]]
    /\ UNCHANGED nextIP

Release(ip) == ReleaseAll({ip})

-----------------------------------------------------------------------------
(* The registry on its own, under every sequence of calls its callers can  *)
(* make: requests with any name and address, and releases of any address,  *)
(* in use or not (a late timer releases what another call already did).    *)
RegistryNext ==
    \/ \E r \in Requests, ip \in IP : \E name \in GrantedNames(r[1], ip) :
         Allocate(r[1], r[2], name, ip)
    \/ \E ip \in IP : Release(ip)

RegistrySpec == RegistryInit /\ [][RegistryNext]_registryVars

-----------------------------------------------------------------------------
(* The registry's books agree: an address has a name exactly while it is   *)
(* in use, and the names in use are those of the addresses in use, so that *)
(* a released address gives back its name and nobody else's.               *)
BooksAgree ==
    /\ \A ip \in IP : ip \in usedIP <=> ipToName[ip] # NoName
    /\ usedName = {ipToName[ip] : ip \in usedIP}

(* Two addresses in use never carry the same name: nodes reach each other  *)
(* by host name, which the hosts file maps to one address.                 *)
NamesDistinct ==
    \A a, b \in usedIP : ipToName[a] = ipToName[b] => a = b
=============================================================================
