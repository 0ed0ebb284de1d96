-------------------------- MODULE DatagramChannel --------------------------
(***************************************************************************)
(* What one direction of an encrypted tunnel promises to the network stack *)
(* above it: the packets handed over were sent, and each of them once at   *)
(* most.  They may be lost and come in any order.                          *)
(***************************************************************************)
EXTENDS Naturals

CONSTANT MaxNonce

VARIABLES txNonce,  \* packets 1..txNonce have been sent
          times     \* how often each packet was handed over

channelVars == <<txNonce, times>>

ChannelInit ==
    /\ txNonce = 0
    /\ times = [n \in 1..MaxNonce |-> 0]

Send ==
    /\ txNonce < MaxNonce
    /\ txNonce' = txNonce + 1
    /\ UNCHANGED times

HandOver(n) ==
    /\ times[n] = 0
    /\ times' = [times EXCEPT ![n] = 1]
    /\ UNCHANGED txNonce

ChannelNext == Send \/ \E n \in 1..txNonce : HandOver(n)

ChannelSpec == ChannelInit /\ [][ChannelNext]_channelVars
=============================================================================
