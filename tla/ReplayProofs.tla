---------------------------- MODULE ReplayProofs ----------------------------
(***************************************************************************)
(* Proofs about the replay window, for every width and every number of     *)
(* packets: it takes exactly the packets that are new, and the tunnel      *)
(* implements the channel of DatagramChannel.                              *)
(***************************************************************************)
EXTENDS ReplayWindow, TLAPS

(* What the bits mean: bit d of the window tells whether the packet d      *)
(* before the newest was accepted, and no packet beyond the newest was.    *)
BitsTell ==
    \A d \in 0..(W - 1) :
        d < maxRxNonce => (d \in rxBitmap <=> times[maxRxNonce - d] = 1)

NothingBeyond == \A n \in 1..MaxNonce : n > maxRxNonce => times[n] = 0

OnceAtMost == \A n \in 1..MaxNonce : times[n] \in {0, 1}

ReplayInv ==
    /\ ReplayTypeOK
    /\ BitsTell
    /\ NothingBeyond
    /\ OnceAtMost

LEMMA ReplayInvInit == Init => ReplayInv
  BY WindowAssumption
     DEF Init, ReplayInv, ReplayTypeOK, BitsTell, NothingBeyond, OnceAtMost

(* The check lets only packets through that were not accepted before       *)
(* (cipher.go:141-163).                                                    *)
LEMMA CheckedIsNew ==
    ASSUME ReplayInv, NEW n \in 1..MaxNonce, CheckRx(n)
    PROVE  times[n] = 0
<1> USE WindowAssumption
<1>1. CASE n > maxRxNonce
  BY <1>1 DEF ReplayInv, NothingBeyond
<1>2. CASE n <= maxRxNonce
  <2>1. maxRxNonce - n \in 0..(W - 1) /\ maxRxNonce - n < maxRxNonce
    BY <1>2 DEF CheckRx, ReplayInv, ReplayTypeOK
  <2>2. maxRxNonce - n \notin rxBitmap /\ maxRxNonce - (maxRxNonce - n) = n
    BY <1>2 DEF CheckRx, ReplayInv, ReplayTypeOK
  <2>3. times[n] # 1
    BY <2>1, <2>2 DEF ReplayInv, BitsTell
  <2> QED
    BY <2>3 DEF ReplayInv, OnceAtMost
<1> QED
  BY <1>1, <1>2 DEF ReplayInv, ReplayTypeOK

LEMMA DecryptKeeps ==
    ASSUME ReplayInv, NEW n \in 1..txNonce, Decrypt(n)
    PROVE  ReplayInv' /\ times[n] = 0
<1> USE WindowAssumption
<1>0. n \in 1..MaxNonce /\ n \in Nat /\ maxRxNonce \in Nat /\ maxRxNonce <= MaxNonce
  BY DEF ReplayInv, ReplayTypeOK
<1>1. times[n] = 0
  BY <1>0, CheckedIsNew DEF Decrypt
<1>2. /\ times' \in [1..MaxNonce -> Nat]
      /\ \A m \in 1..MaxNonce : times'[m] = IF m = n THEN 1 ELSE times[m]
  BY <1>0, <1>1 DEF Decrypt, ReplayInv, ReplayTypeOK
<1>3. OnceAtMost'
  BY <1>2 DEF OnceAtMost, ReplayInv
<1>4. CASE n > maxRxNonce
  <2>1. /\ maxRxNonce' = n
        /\ rxBitmap' = {0} \cup (IF n - maxRxNonce >= W THEN {} ELSE Shifted(n - maxRxNonce))
    BY <1>4 DEF Decrypt, MarkRx
  <2>2. ReplayTypeOK'
    BY <1>0, <1>2, <2>1 DEF Decrypt, ReplayInv, ReplayTypeOK, Shifted
  <2>3. NothingBeyond'
    BY <1>0, <1>2, <1>4, <2>1 DEF ReplayInv, NothingBeyond
  <2>4. ASSUME NEW d \in 0..(W - 1), d < maxRxNonce'
        PROVE  d \in rxBitmap' <=> times'[maxRxNonce' - d] = 1
    <3>1. n - d \in 1..MaxNonce /\ (n - d = n <=> d = 0)
      BY <1>0, <2>1, <2>4
    <3>2. CASE d = 0
      BY <1>2, <2>1, <3>1, <3>2
    <3>3. CASE d > 0 /\ d < n - maxRxNonce
      <4>1. d \notin rxBitmap'
        BY <1>0, <1>4, <2>1, <3>3 DEF Shifted, ReplayInv, ReplayTypeOK
      <4>2. n - d > maxRxNonce
        BY <1>0, <3>3
      <4>3. times'[n - d] = 0
        BY <1>2, <3>1, <3>3, <4>2 DEF ReplayInv, NothingBeyond
      <4> QED
        BY <2>1, <4>1, <4>3
    <3>4. CASE d > 0 /\ d >= n - maxRxNonce
      <4> DEFINE b == d - (n - maxRxNonce)
      <4>1. b \in 0..(W - 1) /\ b < maxRxNonce /\ maxRxNonce - b = n - d
        BY <1>0, <1>4, <2>1, <2>4, <3>4
      <4>2. d \in rxBitmap' <=> b \in rxBitmap
        BY <1>0, <1>4, <2>1, <3>4 DEF Shifted, ReplayInv, ReplayTypeOK
      <4>3. b \in rxBitmap <=> times[n - d] = 1
        BY <4>1 DEF ReplayInv, BitsTell
      <4>4. times'[n - d] = times[n - d]
        BY <1>2, <3>1, <3>4
      <4> QED
        BY <2>1, <4>2, <4>3, <4>4
    <3> QED
      BY <1>0, <3>2, <3>3, <3>4
  <2> QED
    BY <1>1, <1>3, <2>2, <2>3, <2>4 DEF ReplayInv, BitsTell
<1>5. CASE n <= maxRxNonce
  <2>1. maxRxNonce - n \in 0..(W - 1)
    BY <1>0, <1>5 DEF Decrypt, CheckRx
  <2>2. maxRxNonce' = maxRxNonce /\ rxBitmap' = rxBitmap \cup {maxRxNonce - n}
    BY <1>0, <1>5, <2>1 DEF Decrypt, MarkRx
  <2>3. ReplayTypeOK'
    BY <1>2, <2>1, <2>2 DEF Decrypt, ReplayInv, ReplayTypeOK
  <2>4. NothingBeyond'
    BY <1>0, <1>2, <1>5, <2>2 DEF ReplayInv, NothingBeyond
  <2>5. ASSUME NEW d \in 0..(W - 1), d < maxRxNonce'
        PROVE  d \in rxBitmap' <=> times'[maxRxNonce' - d] = 1
    <3>1. maxRxNonce - d \in 1..MaxNonce /\ (maxRxNonce - d = n <=> d = maxRxNonce - n)
      BY <1>0, <2>2, <2>5
    <3>2. d \in rxBitmap <=> times[maxRxNonce - d] = 1
      BY <2>2, <2>5 DEF ReplayInv, BitsTell
    <3> QED
      BY <1>2, <2>2, <3>1, <3>2
  <2> QED
    BY <1>1, <1>3, <2>3, <2>4, <2>5 DEF ReplayInv, BitsTell
<1> QED
  BY <1>0, <1>4, <1>5

LEMMA ReplayInvNext == ReplayInv /\ [Next]_vars => ReplayInv'
<1> SUFFICES ASSUME ReplayInv, [Next]_vars
             PROVE  ReplayInv'
  OBVIOUS
<1>1. CASE Encrypt
  BY <1>1, WindowAssumption
     DEF Encrypt, ReplayInv, ReplayTypeOK, BitsTell, NothingBeyond, OnceAtMost
<1>2. ASSUME NEW n \in 1..txNonce, Decrypt(n)
      PROVE  ReplayInv'
  BY <1>2, DecryptKeeps
<1>3. CASE UNCHANGED vars
  BY <1>3 DEF vars, ReplayInv, ReplayTypeOK, BitsTell, NothingBeyond, OnceAtMost
<1>4. ASSUME NEW n \in 0..MaxNonce, DecryptDamaged(n)
      PROVE  ReplayInv'
  BY <1>3, <1>4 DEF DecryptDamaged
<1> QED
  BY <1>1, <1>2, <1>3, <1>4 DEF Next

LEMMA ReplayInvCorrect == Spec => []ReplayInv
<1> QED
  BY ReplayInvInit, ReplayInvNext, PTL DEF Spec

-----------------------------------------------------------------------------
(* What the bits mean is all that exactness needs. *)
LEMMA InvTakesExactlyTheNew == ReplayInv => TakesExactlyTheNew
<1> SUFFICES ASSUME ReplayInv, NEW n \in 1..txNonce
             PROVE  CheckRx(n) <=> n \notin Accepted /\ n + W > maxRxNonce
  BY DEF TakesExactlyTheNew
<1> USE WindowAssumption
<1>0. n \in 1..MaxNonce /\ n \in Nat /\ maxRxNonce \in Nat /\ times[n] \in {0, 1}
  BY DEF ReplayInv, ReplayTypeOK, OnceAtMost
<1>1. n \notin Accepted <=> times[n] = 0
  BY <1>0 DEF Accepted
<1>2. ASSUME CheckRx(n)
      PROVE  n \notin Accepted /\ n + W > maxRxNonce
  <2>1. n \notin Accepted
    BY <1>0, <1>1, <1>2, CheckedIsNew
  <2>2. n + W > maxRxNonce
    BY <1>0, <1>2 DEF CheckRx
  <2> QED
    BY <2>1, <2>2
<1>3. ASSUME n \notin Accepted, n + W > maxRxNonce
      PROVE  CheckRx(n)
  <2>1. CASE n > maxRxNonce
    BY <1>0, <2>1 DEF CheckRx
  <2>2. CASE n <= maxRxNonce
    <3>1. /\ maxRxNonce - n \in 0..(W - 1) /\ maxRxNonce - n < maxRxNonce
          /\ maxRxNonce - (maxRxNonce - n) = n
      BY <1>0, <1>3, <2>2
    <3>2. maxRxNonce - n \notin rxBitmap
      BY <1>1, <1>3, <3>1 DEF ReplayInv, BitsTell
    <3> QED
      BY <1>0, <3>1, <3>2 DEF CheckRx
  <2> QED
    BY <1>0, <2>1, <2>2
<1> QED
  BY <1>2, <1>3

(* The bitmap stays within the word and the window's end within the        *)
(* nonces, whatever arrives (cipher.go:165-186).                           *)
THEOREM ReplayTypeCorrect == Spec => []ReplayTypeOK
<1>1. ReplayInv => ReplayTypeOK
  BY DEF ReplayInv
<1> QED
  BY <1>1, ReplayInvCorrect, PTL

(* Of the packets sent, Decrypt takes those that are new and not too old,  *)
(* and no other: the shift, the mask and the three bounds of cipher.go     *)
(* agree with each other for a window of any width.                        *)
THEOREM TakesExactlyTheNewCorrect == Spec => []TakesExactlyTheNew
<1> QED
  BY ReplayInvCorrect, InvTakesExactlyTheNew, PTL

(* Every step of the tunnel is a step of the channel or changes nothing    *)
(* that the channel shows.                                                 *)
LEMMA StepRefines ==
    ReplayInv /\ [Next]_vars => [Channel!ChannelNext]_(Channel!channelVars)
<1> SUFFICES ASSUME ReplayInv, [Next]_vars
             PROVE  [Channel!ChannelNext]_(Channel!channelVars)
  OBVIOUS
<1>1. CASE Encrypt
  BY <1>1 DEF Encrypt, Channel!ChannelNext, Channel!Send
<1>2. ASSUME NEW n \in 1..txNonce, Decrypt(n)
      PROVE  Channel!ChannelNext
  <2>1. times[n] = 0
    BY <1>2, DecryptKeeps
  <2>2. Channel!HandOver(n)
    BY <1>2, <2>1 DEF Decrypt, Channel!HandOver
  <2> QED
    BY <2>2 DEF Channel!ChannelNext
<1>3. CASE UNCHANGED vars
  BY <1>3 DEF vars, Channel!channelVars
<1>4. ASSUME NEW n \in 0..MaxNonce, DecryptDamaged(n)
      PROVE  UNCHANGED Channel!channelVars
  BY <1>3, <1>4 DEF DecryptDamaged, vars, Channel!channelVars
<1> QED
  BY <1>1, <1>2, <1>3, <1>4 DEF Next

(* The tunnel implements the channel: what it hands over was sent, and is  *)
(* handed over once, however the network repeats and reorders packets.     *)
THEOREM ImplementsChannelCorrect == Spec => ImplementsChannel
<1>1. Init => Channel!ChannelInit
  BY DEF Init, Channel!ChannelInit
<1> QED
  BY <1>1, ReplayInvCorrect, StepRefines, PTL
     DEF Spec, ImplementsChannel, Channel!ChannelSpec
=============================================================================
