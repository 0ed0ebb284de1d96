---------------------------- MODULE MCSignaling ----------------------------
(* Two nodes that ask for the same name, for TLC. *)
EXTENDS Signaling, TLC

CONSTANTS a, n1, n2, s1, s2, e1, e2
MCHost == {a}
MCIP   == {2, 3}
MCLastNum == [ip \in IP |-> ip]
MCNode == {n1, n2}
MCTwins == [n \in Node |-> <<<<a>>, NoIP>>]
MCTwinRequests == {<<<<a>>, NoIP>>}
MCSymmetry == Permutations(Session) \cup Permutations(Node)

(* They leave the address to the server, or the second one asks for the   *)
(* address the first one is likely to get.                                 *)
MCRivals == n1 :> <<<<a>>, NoIP>> @@ n2 :> <<<<a>>, 2>>
MCRivalRequests == {<<<<a>>, NoIP>>, <<<<a>>, 2>>}
MCSessions == Permutations(Session)

(* States that differ only in what nobody will read again are one state:   *)
(* what is left of a session that is over, the list a token or a refresh   *)
(* is about to replace, a heartbeat that was applied or never will be, who *)
(* sent the signals in a queue and how many there are once the handler has *)
(* left its loop, the request of a node that is gone.                      *)
Reads(s)   == pc[s] \in {"routed", "subscribed", "loop", "refresh"}
Serving(s) == Reads(s) \/ \E ip \in IP : router[ip] = s
Recvs(s)   == s \in receiving \/ pc[s] \in {"opened", "added", "routed", "subscribed"}
Unread(s)  == pc[s] # "opened" /\ (s \notin inTransit \/ ~Recvs(s))
Gone(n)    == state[n] \in {"refused", "halted"}
MCRead ==
    <<registryVars, peers, router, subs, pending, timers, pc, receiving,
      sess, endpoint, faultVars, grants,
      [s \in Session |-> IF Unused(s) THEN <<>> ELSE <<own[s]>>],
      [s \in Session |-> IF Reads(s) THEN Len(queue[s]) ELSE 0],
      [s \in Session |-> Serving(s) /\ s \in closed],
      [s \in Session |-> IF pc[s] = "loop" /\ s \notin pending THEN <<view[s]>> ELSE <<>>],
      [s \in Session |-> s \in inTransit /\ Recvs(s)],
      [s \in Session |-> IF Unread(s) THEN <<>> ELSE <<msg[s]>>],
      [n \in Node |-> IF Gone(n) /\ \A s \in Session : own[s] = n => Unused(s)
                      THEN <<>> ELSE <<virtualIP[n], hostname[n]>>]>>

(* A client that was refused can still send signals and find its endpoint  *)
(* changed; without signals, and with one endpoint, it is as good as gone. *)
MCSilentView ==
    <<MCRead, [n \in Node |-> IF Gone(n) THEN "halted" ELSE state[n]]>>

(* The behaviours without signals, which a handler passes on and which no  *)
(* other part of the server looks at: an action constraint.                *)
MCSilent == UNCHANGED queue

(* The behaviours in which a tick, 30 s, never passes between two          *)
(* statements of the server that wait for nothing.                         *)
MCPrompt ==
    /\ \A s \in Session : pc[s] \notin {"added", "routed", "remove"}
    /\ \A t \in timers : ~t.woken

MCPromptSpec == Init /\ [][Next /\ (Tick => MCPrompt)]_vars
=============================================================================
