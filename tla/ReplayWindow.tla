---------------------------- MODULE ReplayWindow ----------------------------
(***************************************************************************)
(* One direction of a tunnel between two nodes: the nonce counter of the   *)
(* sender and the sliding window by which the receiver drops packets it    *)
(* has seen (src/pkg/crypto/cipher.go).                                    *)
(*                                                                         *)
(* Between them is UDP, which may lose, repeat, delay and reorder packets: *)
(* any packet sent so far may arrive at any time.  Packets are known by    *)
(* their nonces.  A packet that was damaged fails authentication, whatever *)
(* nonce it carries.                                                       *)
(*                                                                         *)
(* Decrypt takes the lock twice, once to look and once to mark, but only   *)
(* readLoop calls it, so that nothing happens in between: it is one step.  *)
(***************************************************************************)
EXTENDS Naturals

CONSTANTS W,        \* width of the window: 64, the bits of a uint64
          MaxNonce  \* the last nonce: 2^64 - 1, after which the counter wraps

ASSUME WindowAssumption == W \in Nat \ {0} /\ MaxNonce \in Nat

VARIABLES txNonce,     \* the sender's counter
          maxRxNonce,  \* the largest nonce accepted
          rxBitmap,    \* bit d, for maxRxNonce - d, as the set of the bits set
          times        \* history: how often each packet was accepted

vars == <<txNonce, maxRxNonce, rxBitmap, times>>

ReplayTypeOK ==
    /\ txNonce \in 0..MaxNonce
    /\ maxRxNonce \in 0..MaxNonce
    /\ rxBitmap \in SUBSET (0..(W - 1))
    /\ times \in [1..MaxNonce -> Nat]

Init ==
    /\ txNonce = 0
    /\ maxRxNonce = 0
    /\ rxBitmap = {}
    /\ times = [n \in 1..MaxNonce |-> 0]

-----------------------------------------------------------------------------
\* Mutant: the bit that was just shifted out is taken for one that is unset.
CheckRxWide(n) ==
    /\ n # 0
    /\ \/ n > maxRxNonce
       \/ maxRxNonce - n <= W /\ maxRxNonce - n \notin rxBitmap

(* A nonce is good when it is new or its bit, still in the window, is unset. *)
CheckRx(n) ==
    /\ n # 0
    /\ \/ n > maxRxNonce
       \/ maxRxNonce - n < W /\ maxRxNonce - n \notin rxBitmap

\* Mutants: the bits shifted out stay; the window moves without a shift.
ShiftedOut(diff)  == {b + diff : b \in rxBitmap}
ShiftedNone(diff) == rxBitmap

(* rxBitmap << diff: the bits shifted out of the word are gone. *)
Shifted(diff) == {b + diff : b \in rxBitmap} \cap 0..(W - 1)

(* A nonce beyond the window's upper end moves the window up to it. *)
MarkRx(n) ==
    IF n > maxRxNonce
    THEN /\ rxBitmap' = {0} \cup (IF n - maxRxNonce >= W THEN {}
                                  ELSE Shifted(n - maxRxNonce))
         /\ maxRxNonce' = n
    ELSE /\ rxBitmap' = rxBitmap \cup {d \in {maxRxNonce - n} : d < W}
         /\ UNCHANGED maxRxNonce

(* Every packet takes the next nonce (atomically, whoever sends it). *)
Encrypt ==
    /\ txNonce < MaxNonce
    /\ txNonce' = txNonce + 1
    /\ UNCHANGED <<maxRxNonce, rxBitmap, times>>

\* Mutant: a packet that fails authentication is marked.
DecryptDamagedMarked(n) == CheckRx(n) /\ MarkRx(n) /\ UNCHANGED <<txNonce, times>>

(* A damaged packet changes nothing, although its nonce looked good. *)
DecryptDamaged(n) == CheckRx(n) /\ UNCHANGED vars

(* A packet as it was sent passes authentication and is marked. *)
Decrypt(n) ==
    /\ CheckRx(n)
    /\ MarkRx(n)
    /\ times' = [times EXCEPT ![n] = @ + 1]
    /\ UNCHANGED txNonce

Next ==
    \/ Encrypt
    \/ \E n \in 1..txNonce : Decrypt(n)
    \/ \E n \in 0..MaxNonce : DecryptDamaged(n)

Spec == Init /\ [][Next]_vars

-----------------------------------------------------------------------------
Accepted == {n \in 1..MaxNonce : times[n] > 0}

(* The window neither lets a packet through twice nor drops one it need    *)
(* not drop: of the packets sent, Decrypt takes those it has not accepted  *)
(* that are not older than W nonces.                                       *)
TakesExactlyTheNew ==
    \A n \in 1..txNonce : CheckRx(n) <=> n \notin Accepted /\ n + W > maxRxNonce

(* The tunnel implements the channel the network stack is promised. *)
Channel == INSTANCE DatagramChannel
             WITH MaxNonce <- MaxNonce, txNonce <- txNonce, times <- times

ImplementsChannel == Channel!ChannelSpec
=============================================================================
