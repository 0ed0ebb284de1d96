--------------------------- MODULE RegistryProofs ---------------------------
(***************************************************************************)
(* Proofs about the registry on its own: when every host asks for a name,  *)
(* its books agree and no name is given twice, whatever is registered and  *)
(* released, in whatever order.                                            *)
(***************************************************************************)
EXTENDS Registry, TLAPS

Named == \A r \in Requests : r[1] # NoName

(* Both invariants are needed for either: releasing an address deletes its *)
(* name, which must not be the name of another address; and a name that no *)
(* address has must not stay in use.                                       *)
RegistryInv == RegistryTypeOK /\ BooksAgree /\ NamesDistinct

(* A name granted for a request that has one is a name, and is free        *)
(* (registry.go:62-69).                                                    *)
LEMMA GrantedNameFree ==
    ASSUME NEW reqName \in Name, reqName # NoName, NEW ip \in IP,
           NEW name \in GrantedNames(reqName, ip)
    PROVE  name \in Name /\ name # NoName /\ name \notin usedName
<1>1. PICK k \in 1..(Cardinality(usedName) + 1) :
        name = Candidate(reqName, k) /\ Candidate(reqName, k) \notin usedName
  BY DEF GrantedNames
<1>2. k \in Nat
  BY <1>1
<1>3. Candidate(reqName, k) \in Name /\ Candidate(reqName, k) # NoName
  BY <1>2 DEF Candidate, Name, NoName
<1> QED
  BY <1>1, <1>3

LEMMA NoNameIsName == NoName \in Name /\ \A ip \in IP : <<Client, LastNum[ip]>> \in Name
  BY PoolAssumption DEF NoName, Name

(* Allocate and Release keep the types, with or without a requested name.  *)
LEMMA AllocateTypes ==
    ASSUME RegistryTypeOK, NEW reqName \in Name, NEW reqIP \in IP \cup {NoIP},
           NEW ip \in IP, NEW name \in GrantedNames(reqName, ip),
           Allocate(reqName, reqIP, name, ip)
    PROVE  RegistryTypeOK'
<1>1. name \in Name
  BY NoNameIsName, GrantedNameFree DEF GrantedNames
<1>2. nextIP' \in First..Last
  BY PoolAssumption DEF Allocate, Available, Succ, RegistryTypeOK
<1> QED
  BY <1>1, <1>2 DEF Allocate, RegistryTypeOK

LEMMA ReleaseTypes ==
    ASSUME RegistryTypeOK, NEW ip \in IP, Release(ip)
    PROVE  RegistryTypeOK'
  BY NoNameIsName DEF Release, ReleaseAll, RegistryTypeOK

LEMMA RegistryInvInit == RegistryInit => RegistryInv
  BY NoNameIsName, PoolAssumption
     DEF RegistryInit, RegistryInv, RegistryTypeOK, BooksAgree, NamesDistinct

LEMMA AllocateKeeps ==
    ASSUME RegistryInv, NEW reqName \in Name, reqName # NoName,
           NEW reqIP \in IP \cup {NoIP}, NEW ip \in IP,
           NEW name \in GrantedNames(reqName, ip), Allocate(reqName, reqIP, name, ip)
    PROVE  RegistryInv'
<1>1. name \in Name /\ name # NoName /\ name \notin usedName
  BY GrantedNameFree
<1>2. RegistryTypeOK'
  BY AllocateTypes DEF RegistryInv
<1>3. /\ usedIP' = usedIP \cup {ip} /\ ip \notin usedIP
      /\ usedName' = usedName \cup {name}
      /\ \A jp \in IP : ipToName'[jp] = IF jp = ip THEN name ELSE ipToName[jp]
  BY DEF Allocate, Available, RegistryInv, RegistryTypeOK
<1>4. usedIP \subseteq IP
  BY DEF RegistryInv, RegistryTypeOK
<1>5. BooksAgree'
  BY <1>1, <1>3, <1>4 DEF RegistryInv, BooksAgree
<1>6. NamesDistinct'
  BY <1>1, <1>3, <1>4 DEF RegistryInv, BooksAgree, NamesDistinct
<1> QED
  BY <1>2, <1>5, <1>6 DEF RegistryInv

(* Several releases, one after the other, free the names of those          *)
(* addresses and no others (registry.go:80-87).                            *)
LEMMA ReleaseAllKeeps ==
    ASSUME RegistryInv, NEW S \in SUBSET IP, ReleaseAll(S)
    PROVE  RegistryInv'
<1>1. RegistryTypeOK'
  BY NoNameIsName DEF ReleaseAll, RegistryInv, RegistryTypeOK
<1>2. /\ usedIP' = usedIP \ S
      /\ usedName' = usedName \ {ipToName[ip] : ip \in S}
      /\ \A jp \in IP : ipToName'[jp] = IF jp \in S THEN NoName ELSE ipToName[jp]
  BY DEF ReleaseAll
<1>3. usedIP \subseteq IP
  BY DEF RegistryInv, RegistryTypeOK
<1>4. \A ip \in S, jp \in usedIP \ S : ipToName[jp] # ipToName[ip]
  BY <1>3 DEF RegistryInv, BooksAgree, NamesDistinct
<1>5. BooksAgree'
  BY <1>2, <1>3, <1>4 DEF RegistryInv, BooksAgree
<1>6. NamesDistinct'
  BY <1>2, <1>3 DEF RegistryInv, NamesDistinct
<1> QED
  BY <1>1, <1>5, <1>6 DEF RegistryInv

LEMMA ReleaseKeeps ==
    ASSUME RegistryInv, NEW ip \in IP, Release(ip)
    PROVE  RegistryInv'
  BY ReleaseAllKeeps DEF Release

LEMMA RegistryInvStep ==
    ASSUME Named
    PROVE  RegistryInv /\ [RegistryNext]_registryVars => RegistryInv'
<1> SUFFICES ASSUME RegistryInv, [RegistryNext]_registryVars PROVE RegistryInv'
  OBVIOUS
<1>1. ASSUME NEW r \in Requests, NEW ip \in IP, NEW name \in GrantedNames(r[1], ip),
             Allocate(r[1], r[2], name, ip)
      PROVE  RegistryInv'
  <2>1. r[1] \in Name /\ r[2] \in IP \cup {NoIP} /\ r[1] # NoName
    BY RequestsAssumption DEF Named
  <2> QED
    BY <1>1, <2>1, AllocateKeeps
<1>2. ASSUME NEW ip \in IP, Release(ip)
      PROVE  RegistryInv'
  BY <1>2, ReleaseKeeps
<1>3. CASE UNCHANGED registryVars
  BY <1>3 DEF registryVars, RegistryInv, RegistryTypeOK, BooksAgree, NamesDistinct
<1> QED
  BY <1>1, <1>2, <1>3 DEF RegistryNext

(* The registry's tables keep their types, and the cursor stays in the     *)
(* pool, whether or not hosts ask for a name (registry.go:46-87).          *)
THEOREM RegistryTypeCorrect == RegistrySpec => []RegistryTypeOK
<1>1. RegistryInit => RegistryTypeOK
  BY NoNameIsName, PoolAssumption DEF RegistryInit, RegistryTypeOK
<1>2. RegistryTypeOK /\ [RegistryNext]_registryVars => RegistryTypeOK'
  <2> SUFFICES ASSUME RegistryTypeOK, [RegistryNext]_registryVars PROVE RegistryTypeOK'
    OBVIOUS
  <2>1. ASSUME NEW r \in Requests, NEW ip \in IP, NEW name \in GrantedNames(r[1], ip),
               Allocate(r[1], r[2], name, ip)
        PROVE  RegistryTypeOK'
    BY <2>1, RequestsAssumption, AllocateTypes
  <2>2. ASSUME NEW ip \in IP, Release(ip)
        PROVE  RegistryTypeOK'
    BY <2>2, ReleaseTypes
  <2>3. CASE UNCHANGED registryVars
    BY <2>3 DEF registryVars, RegistryTypeOK
  <2> QED
    BY <2>1, <2>2, <2>3 DEF RegistryNext
<1> QED
  BY <1>1, <1>2, PTL DEF RegistrySpec

(* When every host asks for a name, the addresses in use and the names in  *)
(* use correspond, so that a release gives back one address and its own    *)
(* name (registry.go:34-87).                                               *)
THEOREM BooksAgreeCorrect ==
    ASSUME Named
    PROVE  RegistrySpec => []BooksAgree
<1>1. RegistryInit => RegistryInv
  BY RegistryInvInit
<1>2. RegistryInv /\ [RegistryNext]_registryVars => RegistryInv'
  BY RegistryInvStep
<1>3. RegistryInv => BooksAgree
  BY DEF RegistryInv
<1> QED
  BY <1>1, <1>2, <1>3, PTL DEF RegistrySpec

(* When every host asks for a name, two addresses in use never carry the   *)
(* same one (registry.go:62-69).                                           *)
THEOREM NamesDistinctCorrect ==
    ASSUME Named
    PROVE  RegistrySpec => []NamesDistinct
<1>1. RegistryInit => RegistryInv
  BY RegistryInvInit
<1>2. RegistryInv /\ [RegistryNext]_registryVars => RegistryInv'
  BY RegistryInvStep
<1>3. RegistryInv => NamesDistinct
  BY DEF RegistryInv
<1> QED
  BY <1>1, <1>2, <1>3, PTL DEF RegistrySpec
=============================================================================
