----------------------------- MODULE PeerTable -----------------------------
(***************************************************************************)
(* A client's entry for one peer: how it comes and goes with the server's  *)
(* lists, and how its cipher is made on first use (peer_table.go, and the  *)
(* senders and the reader of udp_engine.go).                               *)
(*                                                                         *)
(* SyncPeers holds the table's lock throughout.  GetPeer takes the entry's *)
(* lock to read, computes the cipher with no lock held, and takes it again *)
(* to store: a caller works on the entry it found, whether or not it is    *)
(* still in the table.  State, observed endpoint and pending packets are   *)
(* in Punching; the window of a cipher is in ReplayWindow.                 *)
(*                                                                         *)
(* The session key follows from this client's key, which lasts as long as  *)
(* the process, and the peer's: a cipher is known by the peer's key.       *)
(***************************************************************************)
EXTENDS Naturals

CONSTANTS Key,      \* the public keys the lists give for the peer's address
          GoodKey,  \* those a shared secret can be computed from
          Addr,     \* the endpoints the lists give
          Entry,    \* bound: the PeerEntry objects that are in use at a time
          NoEntry,
          Caller,   \* the goroutines that call GetPeer
          NoCipher,
          MaxNonce  \* bound: packets sent with one cipher

Cipher == [key : GoodKey, tx : 0..MaxNonce]

ASSUME PeerTableAssumption ==
    /\ GoodKey \subseteq Key /\ Key # {} /\ Addr # {}
    /\ NoEntry \notin Entry
    /\ NoCipher \notin Cipher
    /\ MaxNonce \in Nat

VARIABLES listed,    \* the entry in pt.peers
          key, addr, \* PublicKey and ReportedAddr of each entry
          cipher,    \* Cipher, with its txNonce
          failed,    \* the entries with CipherFailed
          pc,        \* the next step of each caller
          at,        \* the entry it found
          read       \* the key it read

(* History: the highest nonce sent, and the highest one the peer accepted, *)
(* under each key; the keys SyncPeers has dropped; the entries whose key   *)
(* changed while a caller was computing a cipher for another.              *)
VARIABLES sent, taken, dropped, crossed

entryVars  == <<listed, key, addr, cipher, failed>>
callerVars == <<pc, at, read>>
history    == <<sent, taken, dropped, crossed>>
vars       == <<entryVars, callerVars, history>>

PeerTableTypeOK ==
    /\ listed \in Entry \cup {NoEntry}
    /\ key \in [Entry -> Key] /\ addr \in [Entry -> Addr]
    /\ cipher \in [Entry -> Cipher \cup {NoCipher}]
    /\ failed \subseteq Entry
    /\ pc \in [Caller -> {"idle", "read", "store", "check", "use"}]
    /\ at \in [Caller -> Entry \cup {NoEntry}]
    /\ \A g \in Caller : pc[g] # "idle" => at[g] \in Entry
    /\ read \in [Caller -> Key]
    /\ sent \in [GoodKey -> 0..MaxNonce] /\ taken \in [GoodKey -> 0..MaxNonce]
    /\ dropped \subseteq Key /\ crossed \subseteq Entry

AnyKey  == CHOOSE k \in Key : TRUE
AnyAddr == CHOOSE a \in Addr : TRUE

Init ==
    /\ listed = NoEntry
    /\ key = [e \in Entry |-> AnyKey] /\ addr = [e \in Entry |-> AnyAddr]
    /\ cipher = [e \in Entry |-> NoCipher]
    /\ failed = {}
    /\ pc = [g \in Caller |-> "idle"]
    /\ at = [g \in Caller |-> NoEntry]
    /\ read = [g \in Caller |-> AnyKey]
    /\ sent = [k \in GoodKey |-> 0] /\ taken = [k \in GoodKey |-> 0]
    /\ dropped = {} /\ crossed = {}

-----------------------------------------------------------------------------
(* SyncPeers.  The peer is not in the list any more: callers that found    *)
(* the entry before go on with it.                                         *)
SyncGone ==
    /\ listed # NoEntry
    /\ listed' = NoEntry
    /\ dropped' = dropped \cup {key[listed]}
    /\ UNCHANGED <<key, addr, cipher, failed, callerVars, sent, taken, crossed>>

(* It is in the list and was not. *)
SyncNew(k, a) ==
    /\ listed = NoEntry
    /\ \E e \in Entry :
         /\ \A g \in Caller : at[g] # e
         /\ listed' = e
         /\ key' = [key EXCEPT ![e] = k]
         /\ addr' = [addr EXCEPT ![e] = a]
         /\ cipher' = [cipher EXCEPT ![e] = NoCipher]
         /\ failed' = failed \ {e}
         /\ crossed' = crossed \ {e}
    /\ UNCHANGED <<callerVars, sent, taken, dropped>>

(* The callers that are computing a cipher for another key of the entry.   *)
Computing(e, k) == {g \in Caller : pc[g] = "store" /\ at[g] = e /\ read[g] # k}

\* Mutant: the cipher outlives the key.
SyncKeyKeepCipher(k, a) ==
    /\ listed # NoEntry /\ key[listed] # k
    /\ key' = [key EXCEPT ![listed] = k]
    /\ addr' = [addr EXCEPT ![listed] = a]
    /\ dropped' = dropped \cup {key[listed]}
    /\ crossed' = IF Computing(listed, k) # {} THEN crossed \cup {listed}
                                               ELSE crossed \ {listed}
    /\ UNCHANGED <<listed, cipher, failed, callerVars, sent, taken>>

(* It is in the list with another key: the old cipher is thrown away. *)
SyncKey(k, a) ==
    /\ listed # NoEntry /\ key[listed] # k
    /\ key' = [key EXCEPT ![listed] = k]
    /\ addr' = [addr EXCEPT ![listed] = a]
    /\ cipher' = [cipher EXCEPT ![listed] = NoCipher]
    /\ failed' = failed \ {listed}
    /\ dropped' = dropped \cup {key[listed]}
    /\ crossed' = IF Computing(listed, k) # {} THEN crossed \cup {listed}
                                               ELSE crossed \ {listed}
    /\ UNCHANGED <<listed, callerVars, sent, taken>>

(* It is in the list with another endpoint only: the cipher stays. *)
SyncAddr(a) ==
    /\ listed # NoEntry /\ addr[listed] # a
    /\ addr' = [addr EXCEPT ![listed] = a]
    /\ UNCHANGED <<listed, key, cipher, failed, callerVars, history>>

-----------------------------------------------------------------------------
(* GetPeer finds the entry, *)
LookAnyway(g) ==  \* mutant: without a look at whether there is one
    /\ pc[g] = "idle"
    /\ at' = [at EXCEPT ![g] = listed]
    /\ pc' = [pc EXCEPT ![g] = "read"]
    /\ UNCHANGED <<entryVars, read, history>>

Look(g) ==
    /\ pc[g] = "idle" /\ listed # NoEntry
    /\ at' = [at EXCEPT ![g] = listed]
    /\ pc' = [pc EXCEPT ![g] = "read"]
    /\ UNCHANGED <<entryVars, read, history>>

(* reads whether it has a cipher, and its key, *)
Read(g) ==
    /\ pc[g] = "read"
    /\ IF cipher[at[g]] = NoCipher /\ at[g] \notin failed
       THEN pc' = [pc EXCEPT ![g] = "store"] /\ read' = [read EXCEPT ![g] = key[at[g]]]
       ELSE pc' = [pc EXCEPT ![g] = "check"] /\ UNCHANGED read
    /\ UNCHANGED <<entryVars, at, history>>

\* Mutant: the cipher is stored without a second look.
StoreUnchecked(g) ==
    /\ pc[g] = "store"
    /\ IF read[g] \in GoodKey
       THEN /\ cipher' = [cipher EXCEPT ![at[g]] = [key |-> read[g], tx |-> 0]]
            /\ UNCHANGED failed
       ELSE failed' = failed \cup {at[g]} /\ UNCHANGED cipher
    /\ pc' = [pc EXCEPT ![g] = "check"]
    /\ UNCHANGED <<listed, key, addr, at, read, history>>

(* and stores what it computed from the key it read, or that it failed,    *)
(* unless another caller was faster.                                       *)
Store(g) ==
    /\ pc[g] = "store"
    /\ IF cipher[at[g]] # NoCipher \/ at[g] \in failed
       THEN UNCHANGED <<cipher, failed>>
       ELSE IF read[g] \in GoodKey
       THEN /\ cipher' = [cipher EXCEPT ![at[g]] = [key |-> read[g], tx |-> 0]]
            /\ UNCHANGED failed
       ELSE failed' = failed \cup {at[g]} /\ UNCHANGED cipher
    /\ pc' = [pc EXCEPT ![g] = "check"]
    /\ UNCHANGED <<listed, key, addr, at, read, history>>

-----------------------------------------------------------------------------
Done(g) == pc' = [pc EXCEPT ![g] = "idle"] /\ at' = [at EXCEPT ![g] = NoEntry]

(* The caller looks whether there is a cipher (the first GetCipher),       *)
Check(g) ==
    /\ pc[g] = "check"
    /\ IF cipher[at[g]] = NoCipher
       THEN Done(g)
       ELSE pc' = [pc EXCEPT ![g] = "use"] /\ UNCHANGED at
    /\ UNCHANGED <<entryVars, read, history>>

\* Mutant: the nonce is used and not counted.
EncryptUncounted(g) ==
    /\ pc[g] = "use" /\ cipher[at[g]] # NoCipher
    /\ cipher[at[g]].tx < MaxNonce
    /\ LET c == cipher[at[g]] IN
         sent' = [sent EXCEPT ![c.key] = IF c.tx + 1 > @ THEN c.tx + 1 ELSE @]
    /\ Done(g)
    /\ UNCHANGED <<entryVars, read, taken, dropped, crossed>>

(* and encrypts with the one it finds when it asks again (the second). *)
Encrypt(g) ==
    /\ pc[g] = "use" /\ cipher[at[g]] # NoCipher
    /\ cipher[at[g]].tx < MaxNonce
    /\ LET c == cipher[at[g]] IN
         /\ cipher' = [cipher EXCEPT ![at[g]].tx = @ + 1]
         /\ sent' = [sent EXCEPT ![c.key] = IF c.tx + 1 > @ THEN c.tx + 1 ELSE @]
    /\ Done(g)
    /\ UNCHANGED <<listed, key, addr, failed, read, taken, dropped, crossed>>

(* The reader decrypts, which is a matter of the window. *)
Decrypt(g) ==
    /\ pc[g] = "use" /\ cipher[at[g]] # NoCipher
    /\ Done(g)
    /\ UNCHANGED <<entryVars, read, history>>

(* Without a cipher both dereference nil: the client panics.  When it is   *)
(* started again it has a new key of its own, and no session is the same.  *)
Panic(g) ==
    /\ pc[g] = "use" /\ cipher[at[g]] = NoCipher
    /\ listed' = NoEntry
    /\ cipher' = [e \in Entry |-> NoCipher] /\ failed' = {}
    /\ pc' = [h \in Caller |-> "idle"] /\ at' = [h \in Caller |-> NoEntry]
    /\ sent' = [k \in GoodKey |-> 0] /\ taken' = [k \in GoodKey |-> 0]
    /\ dropped' = {} /\ crossed' = {}
    /\ UNCHANGED <<key, addr, read>>

(* The peer with key k gets a packet that is newer than all it has had. *)
PeerTakes(k) ==
    /\ \E n \in (taken[k] + 1)..sent[k] : taken' = [taken EXCEPT ![k] = n]
    /\ UNCHANGED <<entryVars, callerVars, sent, dropped, crossed>>

GetPeer(g) == Look(g) \/ Read(g) \/ Store(g)
UseCipher(g) == Check(g) \/ Encrypt(g) \/ Decrypt(g) \/ Panic(g)

SyncPeers ==
    \/ SyncGone
    \/ \E a \in Addr : SyncAddr(a) \/ \E k \in Key : SyncNew(k, a) \/ SyncKey(k, a)

Next ==
    \/ SyncPeers
    \/ \E g \in Caller : GetPeer(g) \/ UseCipher(g)
    \/ \E k \in GoodKey : PeerTakes(k)

Spec == Init /\ [][Next]_vars

-----------------------------------------------------------------------------
KeepsCounting(e) ==
    cipher[e] # NoCipher /\ listed = e /\ listed' = e /\ key'[e] = key[e]
        => /\ cipher'[e] # NoCipher
           /\ cipher'[e].key = cipher[e].key /\ cipher'[e].tx >= cipher[e].tx

(* A cipher is never made twice for an entry that keeps its key: the nonce *)
(* counter, once it runs, does not start again (peer_table.go:182, the     *)
(* double check), whoever looks at the entry at the same time and whatever *)
(* lists come in.                                                          *)
CountsOn == [][\A e \in Entry : KeepsCounting(e)]_vars

(* The cipher of an entry fits its key, and only a bad key is marked as    *)
(* failed, but for an entry whose key changed while a caller was computing *)
(* the cipher for the old one (peer_table.go:169-190).                     *)
FitsKey ==
    \A e \in Entry \ crossed :
        /\ cipher[e] # NoCipher => cipher[e].key = key[e]
        /\ e \in failed => key[e] \notin GoodKey

(* What this client sends next is newer than all its peer has accepted,    *)
(* but for a peer that was dropped from the list: its entry starts to      *)
(* count again when it is back, and the peer takes its packets for old     *)
(* ones.                                                                   *)
NextIsNew ==
    \A e \in Entry :
        listed = e /\ cipher[e] # NoCipher /\ cipher[e].key \notin dropped
            => taken[cipher[e].key] <= cipher[e].tx

-----------------------------------------------------------------------------
(* What a comment of the code says, and the code does not do:              *)
(* udp_engine.go:128, packets without a negotiated key are dropped.  So    *)
(* whoever is about to use a cipher has one.                               *)
CipherInHand == \A g \in Caller : pc[g] = "use" => cipher[at[g]] # NoCipher
=============================================================================
