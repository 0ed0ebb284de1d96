----------------------------- MODULE MCReconnect -----------------------------
(* Two clients for TLC: do they come together again and again? *)
EXTENDS MCPunching

VARIABLE fooled  \* the clients to whom a list or a packet came out of order

(* All behaviours, those with the two exceptions of InOrder included. *)
MCTalkingSpec ==
    /\ Init /\ fooled = {}
    /\ [][ /\ Next
           /\ fooled' = fooled \cup {e \in End : Overtakes(e) \/ Outdated(e)} ]_<<vars, fooled>>
    /\ TalkingFairness

(* The coarse schedule: what pump, reader, receiver and a punch that times *)
(* out have begun they finish before something else begins, except that a  *)
(* list may overtake the reader.  It leaves the other races to the run for *)
(* safety and keeps what is left to liveness: loss, late packets, timeouts *)
(* and changing endpoints.                                                 *)
Begun ==
    \/ \E e \in End : pump[e] # "read" \/ reader[e].pc # "idle" \/ handler[e] # "recv"
    \/ \E g \in Punch : go[g].pc \in {"timeout", "drop"}

Finishing ==
    \/ \E e \in End : \/ Pump(e) \/ HandlerPunch(e)
                      \/ ReadLook(e) \/ ReadConnect(e) \/ ReadFlush(e)
    \/ \E g \in Punch : PunchRun(g)

MCCoarse ==
    /\ ~Begun \/ Finishing \/ \E e \in End : Overtakes(e)
    /\ \A e \in End : Cardinality(InFlight(e)') <= 1

(* A client sends to an endpoint that the other has no more, or takes the  *)
(* other for connected and cannot reach it, and no list is going to tell.  *)
Astray(e) ==
    /\ stun = {} /\ e \notin news
    /\ addr[e] # Current(Other(e)) \/ (st[e] = "connected" /\ ~Open(e))

(* As long as an application sends packets, the clients take each other    *)
(* for connected again and again, even when an endpoint changes, packets   *)
(* and requests are lost, and punches time out.  The exception: a client   *)
(* whose reader a list has overtaken, or that has believed a packet from   *)
(* an endpoint left long ago (udp_engine.go:163-171), may stay astray for  *)
(* good.                                                                   *)
Reconnects ==
    Talker # {} => \/ \A e \in End : []<>(st[e] = "connected")
                   \/ \E e \in End : <>[](e \in fooled /\ Astray(e))
=============================================================================
