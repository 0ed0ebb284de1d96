--------------------------- MODULE MCStunDetect ---------------------------
(* Two STUN ports and three endpoints on two public addresses, for TLC. *)
EXTENDS StunDetect

MCServer == 1..2
MCEndpoint ==  \* 5.184.0.1 and 5.184.0.2, ports 40000, 40001 and the last one
    {[ip |-> {0, 19, 20, 21, 23, 24, 26}, port |-> {6, 10, 11, 12, 15}],
     [ip |-> {0, 19, 20, 21, 23, 24, 26}, port |-> 0..15],
     [ip |-> {1, 19, 20, 21, 23, 24, 26}, port |-> {0, 6, 10, 11, 12, 15}]}
=============================================================================
