-------------------------- MODULE PeerTableProofs --------------------------
(***************************************************************************)
(* Proofs about a client's entry for one peer, for any number of callers,  *)
(* entries, keys and packets: the cipher fits the key it is used with, its *)
(* counter goes on, and what is sent next is new to the peer.              *)
(***************************************************************************)
EXTENDS PeerTable, TLAPS

LEMMA TypeInit == Init => PeerTableTypeOK
<1>1. AnyKey \in Key /\ AnyAddr \in Addr
  BY PeerTableAssumption DEF AnyKey, AnyAddr
<1> QED
  BY <1>1, PeerTableAssumption DEF Init, PeerTableTypeOK, Cipher

(* A fresh cipher, and one that counted a packet, are ciphers. *)
LEMMA FreshCipher == \A k \in GoodKey : [key |-> k, tx |-> 0] \in Cipher
  BY PeerTableAssumption DEF Cipher

LEMMA CountedCipher ==
    ASSUME NEW c \in Cipher, c.tx < MaxNonce
    PROVE  /\ [c EXCEPT !.tx = c.tx + 1] \in Cipher
           /\ c.key \in GoodKey /\ c.tx \in 0..MaxNonce /\ c.tx + 1 \in 0..MaxNonce
  BY PeerTableAssumption DEF Cipher

(* The step of Encrypt in the terms of the proofs. *)
LEMMA EncryptStep ==
    ASSUME PeerTableTypeOK, NEW g \in Caller, Encrypt(g)
    PROVE  /\ at[g] \in Entry /\ cipher[at[g]] \in Cipher /\ cipher[at[g]].key \in GoodKey
           /\ cipher[at[g]].tx \in 0..MaxNonce /\ cipher[at[g]].tx + 1 \in 0..MaxNonce
           /\ cipher'[at[g]] \in Cipher
           /\ cipher'[at[g]].key = cipher[at[g]].key
           /\ cipher'[at[g]].tx = cipher[at[g]].tx + 1
           /\ cipher' \in [Entry -> Cipher \cup {NoCipher}]
           /\ \A e \in Entry : e # at[g] => cipher'[e] = cipher[e]
           /\ sent' \in [GoodKey -> 0..MaxNonce]
           /\ sent'[cipher[at[g]].key] =
                IF cipher[at[g]].tx + 1 > sent[cipher[at[g]].key]
                THEN cipher[at[g]].tx + 1 ELSE sent[cipher[at[g]].key]
           /\ \A k \in GoodKey : k # cipher[at[g]].key => sent'[k] = sent[k]
           /\ Done(g)
           /\ UNCHANGED <<listed, key, addr, failed, read, taken, dropped, crossed>>
<1> DEFINE c == cipher[at[g]]
<1>1. at[g] \in Entry
  BY DEF Encrypt, PeerTableTypeOK
<1>2. c \in Cipher /\ c.tx < MaxNonce
  BY <1>1 DEF Encrypt, PeerTableTypeOK
<1>3. /\ [c EXCEPT !.tx = c.tx + 1] \in Cipher
      /\ c.key \in GoodKey /\ c.tx \in 0..MaxNonce /\ c.tx + 1 \in 0..MaxNonce
  BY <1>2, CountedCipher
<1>4. /\ cipher' = [cipher EXCEPT ![at[g]] = [c EXCEPT !.tx = c.tx + 1]]
      /\ sent' = [sent EXCEPT ![c.key] = IF c.tx + 1 > sent[c.key] THEN c.tx + 1
                                                                   ELSE sent[c.key]]
  BY DEF Encrypt
<1>5. /\ [c EXCEPT !.tx = c.tx + 1].key = c.key
      /\ [c EXCEPT !.tx = c.tx + 1].tx = c.tx + 1
  BY <1>2 DEF Cipher
<1>6. cipher \in [Entry -> Cipher \cup {NoCipher}] /\ sent \in [GoodKey -> 0..MaxNonce]
  BY DEF PeerTableTypeOK
<1>7. /\ cipher' \in [Entry -> Cipher \cup {NoCipher}]
      /\ cipher'[at[g]] = [c EXCEPT !.tx = c.tx + 1]
      /\ \A e \in Entry : e # at[g] => cipher'[e] = cipher[e]
  BY <1>1, <1>3, <1>4, <1>6
<1>8. /\ sent' \in [GoodKey -> 0..MaxNonce]
      /\ sent'[c.key] = IF c.tx + 1 > sent[c.key] THEN c.tx + 1 ELSE sent[c.key]
      /\ \A k \in GoodKey : k # c.key => sent'[k] = sent[k]
  BY <1>3, <1>4, <1>6
<1>9. Done(g) /\ UNCHANGED <<listed, key, addr, failed, read, taken, dropped, crossed>>
  BY DEF Encrypt
<1> QED
  BY <1>1, <1>2, <1>3, <1>5, <1>7, <1>8, <1>9

LEMMA TypeStep == PeerTableTypeOK /\ [Next]_vars => PeerTableTypeOK'
<1> SUFFICES ASSUME PeerTableTypeOK, [Next]_vars PROVE PeerTableTypeOK'
  OBVIOUS
<1> USE PeerTableAssumption DEF PeerTableTypeOK, entryVars, callerVars, history, Done
<1>1. CASE SyncGone
  BY <1>1 DEF SyncGone
<1>2. ASSUME NEW a \in Addr, SyncAddr(a) PROVE PeerTableTypeOK'
  BY <1>2 DEF SyncAddr
<1>3. ASSUME NEW a \in Addr, NEW k \in Key, SyncNew(k, a) PROVE PeerTableTypeOK'
  BY <1>3 DEF SyncNew
<1>4. ASSUME NEW a \in Addr, NEW k \in Key, SyncKey(k, a) PROVE PeerTableTypeOK'
  BY <1>4 DEF SyncKey
<1>5. ASSUME NEW g \in Caller, Look(g) PROVE PeerTableTypeOK'
  BY <1>5 DEF Look
<1>6. ASSUME NEW g \in Caller, Read(g) PROVE PeerTableTypeOK'
  BY <1>6 DEF Read
<1>7. ASSUME NEW g \in Caller, Store(g) PROVE PeerTableTypeOK'
  BY <1>7, FreshCipher DEF Store
<1>8. ASSUME NEW g \in Caller, Check(g) PROVE PeerTableTypeOK'
  BY <1>8 DEF Check
<1>9. ASSUME NEW g \in Caller, Encrypt(g) PROVE PeerTableTypeOK'
  BY <1>9, EncryptStep
<1>10. ASSUME NEW g \in Caller, Decrypt(g) PROVE PeerTableTypeOK'
  BY <1>10 DEF Decrypt
<1>11. ASSUME NEW g \in Caller, Panic(g) PROVE PeerTableTypeOK'
  BY <1>11 DEF Panic
<1>12. ASSUME NEW k \in GoodKey, PeerTakes(k) PROVE PeerTableTypeOK'
  BY <1>12 DEF PeerTakes
<1>13. CASE UNCHANGED vars
  BY <1>13 DEF vars
<1> QED
  BY <1>1, <1>2, <1>3, <1>4, <1>5, <1>6, <1>7, <1>8, <1>9, <1>10, <1>11, <1>12, <1>13
     DEF Next, SyncPeers, GetPeer, UseCipher

(* Every variable of the entries and their callers keeps its type; in      *)
(* particular a caller beyond its look-up has an entry, listed or not      *)
(* (peer_table.go:73-193).                                                 *)
THEOREM PeerTableTypeCorrect == Spec => []PeerTableTypeOK
  BY TypeInit, TypeStep, PTL DEF Spec

-----------------------------------------------------------------------------
(* What a caller is about to store was computed from the entry's key,      *)
(* unless the key changed meanwhile.                                       *)
ReadFits ==
    \A g \in Caller : pc[g] = "store" /\ at[g] \notin crossed => read[g] = key[at[g]]

FitsInv == PeerTableTypeOK /\ FitsKey /\ ReadFits

LEMMA FitsStep == FitsInv /\ [Next]_vars => FitsInv'
<1> SUFFICES ASSUME FitsInv, [Next]_vars PROVE FitsInv'
  OBVIOUS
<1>0. PeerTableTypeOK /\ PeerTableTypeOK'
  BY TypeStep DEF FitsInv
<1> SUFFICES FitsKey' /\ ReadFits'
  BY <1>0 DEF FitsInv
<1> USE PeerTableAssumption, <1>0
    DEF FitsInv, FitsKey, ReadFits, entryVars, callerVars, history, Done
<1>1. CASE SyncGone
  BY <1>1 DEF SyncGone
<1>2. ASSUME NEW a \in Addr, SyncAddr(a) PROVE FitsKey' /\ ReadFits'
  BY <1>2 DEF SyncAddr
<1>3. ASSUME NEW a \in Addr, NEW k \in Key, SyncNew(k, a) PROVE FitsKey' /\ ReadFits'
  BY <1>3 DEF SyncNew, PeerTableTypeOK
<1>4. ASSUME NEW a \in Addr, NEW k \in Key, SyncKey(k, a) PROVE FitsKey' /\ ReadFits'
  <2>1. /\ listed \in Entry
        /\ key' = [key EXCEPT ![listed] = k] /\ key \in [Entry -> Key]
        /\ cipher' = [cipher EXCEPT ![listed] = NoCipher]
        /\ cipher \in [Entry -> Cipher \cup {NoCipher}]
        /\ failed' = failed \ {listed}
        /\ UNCHANGED callerVars
    BY <1>4 DEF SyncKey, PeerTableTypeOK
  <2>2. /\ crossed \ {listed} \subseteq crossed' /\ crossed' \subseteq crossed \cup {listed}
        /\ listed \notin crossed' => Computing(listed, k) = {}
    BY <1>4 DEF SyncKey
  <2>3. FitsKey'
    BY <2>1, <2>2
  <2>4. ReadFits'
    <3> SUFFICES ASSUME NEW g \in Caller, pc[g] = "store", at[g] \notin crossed'
                 PROVE  read[g] = key'[at[g]]
      BY <2>1
    <3>1. CASE at[g] = listed
      BY <2>1, <2>2, <3>1 DEF Computing
    <3>2. CASE at[g] # listed
      BY <2>1, <2>2, <3>2 DEF PeerTableTypeOK
    <3> QED
      BY <3>1, <3>2
  <2> QED
    BY <2>3, <2>4
<1>5. ASSUME NEW g \in Caller, Look(g) PROVE FitsKey' /\ ReadFits'
  BY <1>5 DEF Look, PeerTableTypeOK
<1>6. ASSUME NEW g \in Caller, Read(g) PROVE FitsKey' /\ ReadFits'
  BY <1>6 DEF Read, PeerTableTypeOK
<1>7. ASSUME NEW g \in Caller, Store(g) PROVE FitsKey' /\ ReadFits'
  BY <1>7 DEF Store, PeerTableTypeOK
<1>8. ASSUME NEW g \in Caller, Check(g) PROVE FitsKey' /\ ReadFits'
  BY <1>8 DEF Check, PeerTableTypeOK
<1>9. ASSUME NEW g \in Caller, Encrypt(g) PROVE FitsKey' /\ ReadFits'
  BY <1>9, EncryptStep DEF PeerTableTypeOK
<1>10. ASSUME NEW g \in Caller, Decrypt(g) PROVE FitsKey' /\ ReadFits'
  BY <1>10 DEF Decrypt, PeerTableTypeOK
<1>11. ASSUME NEW g \in Caller, Panic(g) PROVE FitsKey' /\ ReadFits'
  BY <1>11 DEF Panic, PeerTableTypeOK
<1>12. ASSUME NEW k \in GoodKey, PeerTakes(k) PROVE FitsKey' /\ ReadFits'
  BY <1>12 DEF PeerTakes
<1>13. CASE UNCHANGED vars
  BY <1>13 DEF vars
<1> QED
  BY <1>1, <1>2, <1>3, <1>4, <1>5, <1>6, <1>7, <1>8, <1>9, <1>10, <1>11, <1>12, <1>13
     DEF Next, SyncPeers, GetPeer, UseCipher

(* Whatever lists come in while ciphers are computed, a cipher fits its    *)
(* entry's key and no good key is marked as failed, unless the key changed *)
(* under a caller that was computing (peer_table.go:162-193).              *)
THEOREM FitsKeyCorrect == Spec => []FitsKey
<1>1. Init => FitsInv
  BY TypeInit DEF Init, FitsInv, FitsKey, ReadFits
<1>2. FitsInv => FitsKey
  BY DEF FitsInv
<1> QED
  BY <1>1, <1>2, FitsStep, PTL DEF Spec

-----------------------------------------------------------------------------
LEMMA CountsStep ==
    PeerTableTypeOK /\ [Next]_vars => [\A e \in Entry : KeepsCounting(e)]_vars
<1> SUFFICES ASSUME PeerTableTypeOK, [Next]_vars,
                    NEW e \in Entry, cipher[e] # NoCipher,
                    listed = e, listed' = e, key'[e] = key[e]
             PROVE  /\ cipher'[e] # NoCipher
                    /\ cipher'[e].key = cipher[e].key
                    /\ cipher'[e].tx >= cipher[e].tx
  BY DEF KeepsCounting
<1>0. cipher[e] \in Cipher /\ cipher[e].tx \in Nat
  BY PeerTableAssumption DEF PeerTableTypeOK, Cipher
<1>1. SUFFICES ASSUME cipher'[e] # cipher[e]
               PROVE  /\ cipher'[e] \in Cipher
                      /\ cipher'[e].key = cipher[e].key
                      /\ cipher'[e].tx = cipher[e].tx + 1
  BY <1>0, PeerTableAssumption
<1> USE DEF PeerTableTypeOK, entryVars
<1>2. ASSUME NEW g \in Caller, Encrypt(g)
      PROVE  /\ cipher'[e] \in Cipher
             /\ cipher'[e].key = cipher[e].key
             /\ cipher'[e].tx = cipher[e].tx + 1
  BY <1>1, <1>2, EncryptStep
<1>3. ~SyncGone /\ \A g \in Caller : ~Panic(g)
  BY PeerTableAssumption DEF SyncGone, Panic
<1>4. \A k \in Key, a \in Addr : ~SyncNew(k, a) /\ ~SyncKey(k, a) /\ ~SyncAddr(a)
  BY <1>1, PeerTableAssumption DEF SyncNew, SyncKey, SyncAddr
<1>5. \A g \in Caller : ~Look(g) /\ ~Read(g) /\ ~Check(g) /\ ~Decrypt(g)
  BY <1>1 DEF Look, Read, Check, Decrypt
<1>6. \A g \in Caller : ~Store(g)
  BY <1>1 DEF Store
<1>7. (\A k \in GoodKey : ~PeerTakes(k)) /\ ~UNCHANGED vars
  BY <1>1 DEF PeerTakes, vars
<1> QED
  BY <1>2, <1>3, <1>4, <1>5, <1>6, <1>7 DEF Next, SyncPeers, GetPeer, UseCipher

(* No cipher that an entry has is ever replaced while the entry keeps its  *)
(* key: of two goroutines that compute one, the second look lets one store *)
(* it (peer_table.go:179-190), and no list resets the counter.             *)
THEOREM CountsOnCorrect == Spec => CountsOn
  BY PeerTableTypeCorrect, CountsStep, PTL DEF Spec, CountsOn

-----------------------------------------------------------------------------
(* A key is current while the list gives it and was never dropped.  Only   *)
(* the listed entry works with a current key, and once something was sent  *)
(* under it, that entry's cipher is the one that counted it.               *)
Outdated ==
    /\ \A e \in Entry : cipher[e] # NoCipher => cipher[e].key \in dropped \cup {key[e]}
    /\ \A g \in Caller : pc[g] = "store" => read[g] \in dropped \cup {key[at[g]]}
    /\ \A g \in Caller : pc[g] # "idle" /\ at[g] # listed => key[at[g]] \in dropped

Counted ==
    \A e \in Entry : listed = e /\ cipher[e] # NoCipher /\ cipher[e].key \notin dropped
                        => sent[cipher[e].key] <= cipher[e].tx

OneCounter ==
    \A k \in GoodKey \ dropped : sent[k] > 0
        => listed # NoEntry /\ cipher[listed] # NoCipher /\ cipher[listed].key = k

TakenWasSent == \A k \in GoodKey : taken[k] <= sent[k]

CountInv == PeerTableTypeOK /\ Outdated /\ Counted /\ OneCounter /\ TakenWasSent

(* A caller that encrypts under a current key works on the listed entry. *)
LEMMA CurrentIsListed ==
    ASSUME CountInv, NEW g \in Caller, pc[g] # "idle",
           cipher[at[g]] # NoCipher, cipher[at[g]].key \notin dropped
    PROVE  at[g] = listed
<1>1. at[g] \in Entry
  BY DEF CountInv, PeerTableTypeOK
<1>2. key[at[g]] \notin dropped
  BY <1>1 DEF CountInv, Outdated
<1> QED
  BY <1>2 DEF CountInv, Outdated

LEMMA CountStep == CountInv /\ [Next]_vars => CountInv'
<1> SUFFICES ASSUME CountInv, [Next]_vars PROVE CountInv'
  OBVIOUS
<1> DEFINE Goal == Outdated' /\ Counted' /\ OneCounter' /\ TakenWasSent'
<1>0. PeerTableTypeOK /\ PeerTableTypeOK'
  BY TypeStep DEF CountInv
<1> SUFFICES Goal
  BY <1>0 DEF CountInv
<1>a. Outdated /\ Counted /\ OneCounter /\ TakenWasSent
  BY DEF CountInv
<1> USE PeerTableAssumption, <1>0, <1>a DEF entryVars, callerVars, history, Done
<1>1. CASE SyncGone
  <2>1. Outdated'
    BY <1>1 DEF SyncGone, Outdated, PeerTableTypeOK
  <2>2. Counted' /\ TakenWasSent'
    BY <1>1 DEF SyncGone, Counted, TakenWasSent, PeerTableTypeOK
  <2>3. OneCounter'
    BY <1>1 DEF SyncGone, OneCounter, Outdated, PeerTableTypeOK
  <2> QED
    BY <2>1, <2>2, <2>3
<1>2. ASSUME NEW a \in Addr, SyncAddr(a) PROVE Goal
  BY <1>2 DEF SyncAddr, Outdated, Counted, OneCounter, TakenWasSent
<1>3. ASSUME NEW a \in Addr, NEW k \in Key, SyncNew(k, a) PROVE Goal
  <2>1. PICK e \in Entry : /\ \A g \in Caller : at[g] # e
                           /\ listed = NoEntry /\ listed' = e
                           /\ key' = [key EXCEPT ![e] = k]
                           /\ cipher' = [cipher EXCEPT ![e] = NoCipher]
    BY <1>3 DEF SyncNew
  <2>2. UNCHANGED <<callerVars, sent, taken, dropped>>
    BY <1>3 DEF SyncNew
  <2>3. \A g \in Caller : pc[g] # "idle" => /\ at[g] \in Entry /\ at[g] # e
                                            /\ key[at[g]] \in dropped
                                            /\ key'[at[g]] = key[at[g]]
    BY <2>1 DEF Outdated, PeerTableTypeOK
  <2>4. Outdated'
    BY <2>1, <2>2, <2>3 DEF Outdated, PeerTableTypeOK
  <2>5. Counted' /\ TakenWasSent' /\ OneCounter'
    BY <2>1, <2>2 DEF Counted, TakenWasSent, OneCounter, PeerTableTypeOK
  <2> QED
    BY <2>4, <2>5
<1>4. ASSUME NEW a \in Addr, NEW k \in Key, SyncKey(k, a) PROVE Goal
  <2>1. /\ listed \in Entry
        /\ key' = [key EXCEPT ![listed] = k] /\ key \in [Entry -> Key]
        /\ cipher' = [cipher EXCEPT ![listed] = NoCipher]
        /\ dropped' = dropped \cup {key[listed]}
        /\ UNCHANGED <<listed, callerVars, sent, taken>>
    BY <1>4 DEF SyncKey, PeerTableTypeOK
  <2>2. \A e \in Entry : key'[e] = IF e = listed THEN k ELSE key[e]
    BY <2>1
  <2>3. \A e \in Entry : cipher'[e] = IF e = listed THEN NoCipher ELSE cipher[e]
    BY <2>1 DEF PeerTableTypeOK
  <2>4. Outdated'
    BY <2>1, <2>2, <2>3 DEF Outdated, PeerTableTypeOK
  <2>5. Counted' /\ TakenWasSent'
    BY <2>1, <2>3 DEF Counted, TakenWasSent
  <2>6. OneCounter'
    BY <2>1 DEF OneCounter, Outdated
  <2> QED
    BY <2>4, <2>5, <2>6
<1>5. ASSUME NEW g \in Caller, Look(g) PROVE Goal
  BY <1>5 DEF Look, Outdated, Counted, OneCounter, TakenWasSent, PeerTableTypeOK
<1>6. ASSUME NEW g \in Caller, Read(g) PROVE Goal
  <2>1. UNCHANGED <<entryVars, at, history>> /\ at[g] \in Entry /\ pc[g] = "read"
    BY <1>6 DEF Read, PeerTableTypeOK
  <2>2. /\ \A h \in Caller : pc'[h] # "idle" => pc[h] # "idle"
        /\ \A h \in Caller : h # g => pc'[h] = pc[h] /\ read'[h] = read[h]
        /\ pc'[g] = "store" => read'[g] = key[at[g]]
    BY <1>6 DEF Read, PeerTableTypeOK
  <2>3. Outdated'
    BY <2>1, <2>2 DEF Outdated
  <2> QED
    BY <2>1, <2>3 DEF Counted, OneCounter, TakenWasSent
<1>7. ASSUME NEW g \in Caller, Store(g) PROVE Goal
  <2>1. /\ at[g] \in Entry /\ pc[g] = "store"
        /\ UNCHANGED <<listed, key, at, read, history>>
        /\ \A h \in Caller : pc'[h] # "idle" => pc[h] # "idle"
        /\ \A h \in Caller : pc'[h] = "store" => pc[h] = "store"
    BY <1>7 DEF Store, PeerTableTypeOK
  <2>2. CASE UNCHANGED cipher
    BY <2>1, <2>2 DEF Outdated, Counted, OneCounter, TakenWasSent
  <2>3. CASE ~UNCHANGED cipher
    <3>1. /\ cipher[at[g]] = NoCipher /\ read[g] \in GoodKey
          /\ cipher' = [cipher EXCEPT ![at[g]] = [key |-> read[g], tx |-> 0]]
      BY <1>7, <2>3 DEF Store
    <3>2. /\ cipher'[at[g]].key = read[g] /\ cipher'[at[g]].tx = 0
          /\ \A e \in Entry : e # at[g] => cipher'[e] = cipher[e]
      BY <2>1, <3>1 DEF PeerTableTypeOK
    <3>3. Outdated'
      BY <2>1, <3>2 DEF Outdated
    <3>4. \A k \in GoodKey \ dropped : at[g] = listed => sent[k] = 0
      BY <3>1 DEF OneCounter, PeerTableTypeOK
    <3>5. Counted'
      BY <2>1, <3>1, <3>2, <3>4 DEF Counted
    <3>6. OneCounter'
      BY <2>1, <3>2, <3>4 DEF OneCounter, PeerTableTypeOK
    <3> QED
      BY <2>1, <3>3, <3>5, <3>6 DEF TakenWasSent
  <2> QED
    BY <2>2, <2>3
<1>8. ASSUME NEW g \in Caller, Check(g) PROVE Goal
  BY <1>8 DEF Check, Outdated, Counted, OneCounter, TakenWasSent, PeerTableTypeOK
<1>9. ASSUME NEW g \in Caller, Encrypt(g) PROVE Goal
  <2> DEFINE k == cipher[at[g]].key
             n == cipher[at[g]].tx
  <2>0. cipher[at[g]] # NoCipher /\ pc[g] = "use"
    BY <1>9 DEF Encrypt
  <2>1. /\ at[g] \in Entry /\ cipher[at[g]] # NoCipher /\ pc[g] = "use"
        /\ k \in GoodKey /\ n \in Nat
    BY <1>9, <2>0, EncryptStep
  <2>2. /\ cipher'[at[g]] # NoCipher /\ cipher'[at[g]].key = k /\ cipher'[at[g]].tx = n + 1
        /\ \A e \in Entry : e # at[g] => cipher'[e] = cipher[e]
    BY <1>9, EncryptStep
  <2>3. /\ sent'[k] = IF n + 1 > sent[k] THEN n + 1 ELSE sent[k]
        /\ \A j \in GoodKey : j # k => sent'[j] = sent[j]
        /\ \A j \in GoodKey : sent[j] \in Nat /\ taken[j] \in Nat /\ sent'[j] \in Nat
        /\ \A j \in GoodKey : sent'[j] >= sent[j]
    BY <1>9, <2>1, EncryptStep DEF PeerTableTypeOK
  <2>4. /\ Done(g) /\ UNCHANGED <<listed, key, read, taken, dropped>>
    BY <1>9, EncryptStep
  <2>5. k \notin dropped => at[g] = listed
    BY <2>1, CurrentIsListed
  <2>6. Outdated'
    BY <2>1, <2>2, <2>4 DEF Outdated, PeerTableTypeOK
  <2>7. Counted'
    <3> SUFFICES ASSUME NEW e \in Entry, listed = e, cipher'[e] # NoCipher,
                        cipher'[e].key \notin dropped
                 PROVE  sent'[cipher'[e].key] <= cipher'[e].tx
      BY <2>4 DEF Counted
    <3>1. CASE e = at[g]
      BY <2>1, <2>2, <2>3, <3>1 DEF Counted
    <3>2. CASE e # at[g]
      <4>1. k \in dropped /\ cipher'[e] = cipher[e]
        BY <2>2, <2>5, <3>2
      <4>2. cipher[e] \in Cipher /\ cipher[e].key # k
        BY <4>1 DEF PeerTableTypeOK
      <4>3. sent'[cipher[e].key] = sent[cipher[e].key]
        BY <2>3, <4>2 DEF Cipher
      <4> QED
        BY <4>1, <4>3 DEF Counted
    <3> QED
      BY <3>1, <3>2
  <2>8. OneCounter'
    <3> SUFFICES ASSUME NEW j \in GoodKey \ dropped, sent'[j] > 0
                 PROVE  listed # NoEntry /\ cipher'[listed] # NoCipher /\ cipher'[listed].key = j
      BY <2>4 DEF OneCounter
    <3>1. CASE j = k
      BY <2>1, <2>2, <2>5, <3>1
    <3>2. CASE j # k
      <4>1. /\ listed \in Entry /\ cipher[listed] # NoCipher /\ cipher[listed].key = j
        BY <2>3, <3>2 DEF OneCounter, PeerTableTypeOK
      <4> QED
        BY <2>2, <3>2, <4>1
    <3> QED
      BY <3>1, <3>2
  <2>9. TakenWasSent'
    BY <2>3, <2>4 DEF TakenWasSent
  <2> QED
    BY <2>6, <2>7, <2>8, <2>9
<1>10. ASSUME NEW g \in Caller, Decrypt(g) PROVE Goal
  BY <1>10 DEF Decrypt, Outdated, Counted, OneCounter, TakenWasSent, PeerTableTypeOK
<1>11. ASSUME NEW g \in Caller, Panic(g) PROVE Goal
  BY <1>11 DEF Panic, Outdated, Counted, OneCounter, TakenWasSent, PeerTableTypeOK
<1>12. ASSUME NEW k \in GoodKey, PeerTakes(k) PROVE Goal
  BY <1>12 DEF PeerTakes, Outdated, Counted, OneCounter, TakenWasSent, PeerTableTypeOK
<1>13. CASE UNCHANGED vars
  BY <1>13 DEF vars, Outdated, Counted, OneCounter, TakenWasSent
<1> QED
  BY <1>1, <1>2, <1>3, <1>4, <1>5, <1>6, <1>7, <1>8, <1>9, <1>10, <1>11, <1>12, <1>13
     DEF Next, SyncPeers, GetPeer, UseCipher

(* As long as a peer is not dropped from the lists, what is sent to it has *)
(* a nonce above all it has accepted, whoever makes and uses ciphers at    *)
(* the same time, on whatever entries (peer_table.go:73-193,               *)
(* cipher.go:73-109).                                                      *)
THEOREM NextIsNewCorrect == Spec => []NextIsNew
<1>1. Init => CountInv
  <2> SUFFICES ASSUME Init PROVE CountInv
    OBVIOUS
  <2>1. Outdated /\ Counted /\ TakenWasSent
    BY DEF Init, Outdated, Counted, TakenWasSent
  <2>2. OneCounter
    BY DEF Init, OneCounter
  <2> QED
    BY <2>1, <2>2, TypeInit DEF CountInv
<1>2. CountInv => NextIsNew
  <2> SUFFICES ASSUME CountInv, NEW e \in Entry, listed = e, cipher[e] # NoCipher,
                      cipher[e].key \notin dropped
               PROVE  taken[cipher[e].key] <= cipher[e].tx
    BY DEF NextIsNew
  <2>1. /\ cipher[e].key \in GoodKey /\ cipher[e].tx \in Nat
        /\ taken[cipher[e].key] \in Nat /\ sent[cipher[e].key] \in Nat
    BY PeerTableAssumption DEF CountInv, PeerTableTypeOK, Cipher
  <2> QED
    BY <2>1 DEF CountInv, Counted, TakenWasSent
<1> QED
  BY <1>1, <1>2, CountStep, PTL DEF Spec

=============================================================================
