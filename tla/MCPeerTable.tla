---------------------------- MODULE MCPeerTable ----------------------------
(* Two callers, two keys that work and one that does not, for TLC. *)
EXTENDS PeerTable, TLC

CONSTANTS k1, k2, bad, e1, e2, e3, g1, g2
MCKey     == {k1, k2, bad}
MCGoodKey == {k1, k2}
MCSymmetry ==
    Permutations({k1, k2}) \cup Permutations({e1, e2, e3}) \cup Permutations({g1, g2})

(* What a caller read matters only until it stores. *)
MCView ==
    <<listed, cipher, failed, pc, at, sent, taken, dropped \cap GoodKey, crossed,
      [e \in Entry |-> IF e = listed \/ \E g \in Caller : at[g] = e
                       THEN <<key[e], IF e = listed THEN addr[e] ELSE AnyAddr>> ELSE <<>>],
      [g \in Caller |-> IF pc[g] = "store" THEN <<read[g]>> ELSE <<>>]>>
=============================================================================
