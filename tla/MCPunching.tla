----------------------------- MODULE MCPunching -----------------------------
(* Two clients for TLC. *)
EXTENDS Punching, FiniteSets, TLC

CONSTANTS a, b, a1, a2, b1

MCEnd    == {a, b}
MCA      == {a}
MCB      == {b}

(* One punch of each client at a time, or two of a's. *)
MCPunch2   == {a1, b1}
MCOwner2   == a1 :> a @@ b1 :> b
MCPunch3   == {a1, a2, b1}
MCOwner3   == a1 :> a @@ a2 :> a @@ b1 :> b
MCSymmetry == Permutations({a1, a2})

(* Uninterrupted and InOrder at once. *)
MCOrderly ==
    Init /\ [][ /\ Next
                /\ \A e \in End : ~Interrupts(e) /\ ~Overtakes(e) /\ ~Outdated(e) ]_vars

InFlight(e) == {p \in net : p[1] = e}

(* At most three of the goroutines are in the middle of something, and one *)
(* packet at a time is on its way to each client.                          *)
MCBusy ==
    /\ Cardinality({g \in Punch : go[g] # Idle})
       + Cardinality({e \in End : pump[e] # "read"})
       + Cardinality({e \in End : reader[e].pc # "idle"})
       + Cardinality({e \in End : handler[e] # "recv"}) <= 3
    /\ \A e \in End : Cardinality(InFlight(e)) <= 1
=============================================================================
