---------------------------- MODULE StunDetect ----------------------------
(***************************************************************************)
(* How a client learns its public endpoint and the type of its NAT, and    *)
(* keeps the server informed when the endpoint changes (pkg/stun/stun.go,  *)
(* detectNAT in node.go, the keep-alive and the reader of udp_engine.go,   *)
(* the two responders of cmd/server/main.go).                              *)
(*                                                                         *)
(* One socket serves all.  At the start the STUN servers are asked one     *)
(* after the other; whatever answer arrives first while a server's answer  *)
(* is awaited (3 s) counts as its answer, since no transaction ID is       *)
(* compared.  Later the keep-alive asks the first server only.             *)
(*                                                                         *)
(* A number of w bits is the set of the positions of its ones, a subset of *)
(* 0..(w - 1), so that masking is a symmetric difference.                  *)
(***************************************************************************)
EXTENDS Naturals, FiniteSetsExt

CONSTANTS Server,     \* 1..n, the STUN ports the server announced, in order
          Endpoint,   \* the public endpoints the NAT may choose
          NoEndpoint,
          MaxRemaps   \* bound: changes of the NAT's mappings

ASSUME StunAssumption ==
    /\ IsFiniteSet(Server) /\ Server = 1..Cardinality(Server) /\ Server # {}
    /\ Endpoint \subseteq [ip : SUBSET (0..31), port : SUBSET (0..15)]
    /\ NoEndpoint \notin Endpoint
    /\ MaxRemaps \in Nat

VARIABLES cone,     \* whether the NAT maps the socket alike for every destination
          nat,      \* the socket's endpoint as each STUN server sees it
          requests, \* the servers with a request on its way
          answers,  \* the answers on their way
          pc,       \* what the client does
          asked,    \* the server it asks
          public,   \* publicIP and publicPort
          seen,     \* the keys of DetectNAT's endpoints
          natType,
          reported, \* the port in the last heartbeat

(* History. *)
          remaps,
          held,     \* the endpoints the NAT has given to the socket
          disturbed \* an answer was not awaited to its end, or the NAT changed a
                    \* mapping, before the type was known

netVars    == <<cone, nat, requests, answers>>
clientVars == <<pc, asked, public, seen, natType, reported>>
vars == <<netVars, clientVars, remaps, held, disturbed>>

NoPort == {}  \* 0

(* A cone NAT has one endpoint for the socket, a symmetric one has another *)
(* for each destination.                                                   *)
Mappings ==
    {m \in [Server -> Endpoint] :
        \A s, t \in Server : s # t => (cone <=> m[s] = m[t])}

Init ==
    /\ cone \in BOOLEAN
    /\ nat \in Mappings
    /\ requests = {} /\ answers = {}
    /\ pc = "send" /\ asked = 1
    /\ public = NoEndpoint
    /\ seen = {}
    /\ natType = "unknown"
    /\ reported = NoPort
    /\ remaps = 0
    /\ held = {nat[s] : s \in Server}
    /\ disturbed = FALSE

-----------------------------------------------------------------------------
(* HandleSTUNRequest: the endpoint the request came from, as an            *)
(* XOR-MAPPED-ADDRESS.                                                     *)
Cookie == {29, 24, 20, 17, 15, 13, 10, 6, 1}  \* 0x2112A442

Mask(e) ==
    [ip |-> SymDiff(e.ip, Cookie), port |-> SymDiff(e.port, {b - 16 : b \in Cookie \cap (16..31)})]

XorMapped == [e \in Endpoint |-> Mask(e)]

Answer == {XorMapped[e] : e \in Endpoint}

\* Mutant: the port is taken as it is.
ParseMaskedPort == [a \in Answer |-> [Mask(a) EXCEPT !.port = a.port]]

(* ParseSTUNResponse of such an answer. *)
Parse == [a \in Answer |-> Mask(a)]

StunTypeOK ==
    /\ cone \in BOOLEAN /\ nat \in Mappings
    /\ requests \subseteq Server
    /\ answers \subseteq Answer
    /\ pc \in {"send", "wait", "conclude", "loop", "failed"}
    /\ asked \in Server
    /\ seen \subseteq Endpoint
    /\ public \in Endpoint \cup {NoEndpoint}
    /\ public = NoEndpoint <=> seen = {}
    /\ pc = "loop" => seen # {}
    /\ natType \in {"unknown", "easy", "hard"}
    /\ natType # "unknown" <=> pc = "loop"
    /\ reported \in {e.port : e \in Endpoint} \cup {NoPort}
    /\ remaps \in 0..MaxRemaps /\ held \subseteq Endpoint /\ disturbed \in BOOLEAN

-----------------------------------------------------------------------------
(* DetectNAT: ask a server, *)
Send ==
    /\ pc = "send"
    /\ requests' = requests \cup {asked}
    /\ pc' = "wait"
    /\ UNCHANGED <<cone, nat, answers, asked, public, seen, natType, reported,
                   remaps, held, disturbed>>

\* Mutant: the last server is left out.
NextServerShort ==
    IF asked + 1 < Cardinality(Server) THEN pc' = "send" /\ asked' = asked + 1
                                       ELSE pc' = "conclude" /\ UNCHANGED asked

NextServer ==
    IF asked + 1 \in Server THEN pc' = "send" /\ asked' = asked + 1
                            ELSE pc' = "conclude" /\ UNCHANGED asked

(* take the first answer, *)
Receive(a) ==
    /\ pc = "wait"
    /\ answers' = answers \ {a}
    /\ public' = IF public = NoEndpoint THEN Parse[a] ELSE public
    /\ seen' = seen \cup {Parse[a]}
    /\ NextServer
    /\ UNCHANGED <<cone, nat, requests, natType, reported, remaps, held, disturbed>>

(* or give the server up, *)
Timeout ==
    /\ pc = "wait"
    /\ disturbed' = TRUE
    /\ NextServer
    /\ UNCHANGED <<netVars, public, seen, natType, reported, remaps, held>>

\* Mutant: no answer at all is one endpoint at most.
ConcludeAnyway ==
    /\ pc = "conclude"
    /\ pc' = "loop" /\ natType' = IF Cardinality(seen) > 1 THEN "hard" ELSE "easy"
    /\ UNCHANGED <<netVars, asked, public, seen, reported, remaps, held, disturbed>>

(* and tell the type of the NAT from what was seen.  Without any answer    *)
(* the client ends.                                                        *)
Conclude ==
    /\ pc = "conclude"
    /\ IF seen = {} THEN pc' = "failed" /\ UNCHANGED natType
       ELSE pc' = "loop" /\ natType' = IF Cardinality(seen) > 1 THEN "hard" ELSE "easy"
    /\ UNCHANGED <<netVars, asked, public, seen, reported, remaps, held, disturbed>>

-----------------------------------------------------------------------------
\* Mutant: the last server is asked.
KeepAliveLast ==
    /\ pc = "loop"
    /\ requests' = requests \cup {asked}
    /\ UNCHANGED <<cone, nat, answers, clientVars, remaps, held, disturbed>>

(* startKeepAlive asks the first server, at the address of the control     *)
(* connection.                                                             *)
KeepAlive ==
    /\ pc = "loop"
    /\ requests' = requests \cup {1}
    /\ UNCHANGED <<cone, nat, answers, clientVars, remaps, held, disturbed>>

(* readLoop believes every answer. *)
ReadAnswer(a) ==
    /\ pc = "loop"
    /\ answers' = answers \ {a}
    /\ public' = Parse[a]
    /\ UNCHANGED <<cone, nat, requests, pc, asked, seen, natType, reported, remaps,
                   held, disturbed>>

(* The next heartbeat carries the port. *)
Heartbeat ==
    /\ pc = "loop"
    /\ reported' = public.port
    /\ UNCHANGED <<netVars, pc, asked, public, seen, natType, remaps, held, disturbed>>

-----------------------------------------------------------------------------
Respond(s) ==
    /\ s \in requests
    /\ requests' = requests \ {s}
    /\ answers' = answers \cup {XorMapped[nat[s]]}
    /\ UNCHANGED <<cone, nat, clientVars, remaps, held, disturbed>>

Lose ==
    /\ \/ \E s \in requests : requests' = requests \ {s} /\ UNCHANGED answers
       \/ \E a \in answers : answers' = answers \ {a} /\ UNCHANGED requests
    /\ UNCHANGED <<cone, nat, clientVars, remaps, held, disturbed>>

(* The NAT forgets mappings and makes others. *)
Remap ==
    /\ remaps < MaxRemaps /\ remaps' = remaps + 1
    /\ nat' \in Mappings \ {nat}
    /\ held' = held \cup {nat'[s] : s \in Server}
    /\ disturbed' = (disturbed \/ natType = "unknown")
    /\ UNCHANGED <<cone, requests, answers, clientVars>>

DetectNAT == Send \/ (\E a \in answers : Receive(a)) \/ Timeout \/ Conclude

Engine == KeepAlive \/ (\E a \in answers : ReadAnswer(a)) \/ Heartbeat

Network == (\E s \in Server : Respond(s)) \/ Lose \/ Remap

(* A client that found no server stops. *)
Next == DetectNAT \/ Engine \/ Network

Spec == Init /\ [][Next]_vars

(* The client's goroutines run; a request repeated for ever is answered    *)
(* now and then, and its answer arrives.                                   *)
Fairness ==
    /\ WF_vars(Send) /\ WF_vars(Timeout) /\ WF_vars(Conclude)
    /\ WF_vars(KeepAlive) /\ WF_vars(Heartbeat)
    /\ SF_vars(Respond(1))
    /\ \A a \in Answer : SF_vars(a \in answers /\ ReadAnswer(a))

FairSpec == Spec /\ Fairness

-----------------------------------------------------------------------------
(* What the client takes for its endpoint is one that the NAT has given    *)
(* it: the responder's masking and the parser's agree (stun.go:99-105,     *)
(* 172-179), and nothing else passes for an answer.                        *)
PublicWasMine == public # NoEndpoint => public \in held

(* The type found is the type of the NAT, unless an answer was not awaited *)
(* to its end or a mapping changed meanwhile: then the answer of one       *)
(* server may count as the next one's, or one answer be all there is       *)
(* (stun.go:17-27, 56; node.go:282).                                       *)
TypeIsRight ==
    natType # "unknown" /\ ~disturbed =>
        (natType = "hard" <=> ~cone /\ Cardinality(Server) > 1)

(* However the mappings change and messages get lost or late, once the     *)
(* mappings stay as they are the heartbeats end up carrying the port that  *)
(* the first server sees, and keep carrying it: a late answer for another  *)
(* mapping is corrected by the next one (udp_engine.go:72-78, 106-118).    *)
Converges == <>[](pc = "loop" => reported = nat[1].port)
=============================================================================
