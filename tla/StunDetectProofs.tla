-------------------------- MODULE StunDetectProofs --------------------------
(***************************************************************************)
(* Proofs about StunDetect, for any number of STUN ports and any           *)
(* endpoints: its type invariant, that the client believes in endpoints    *)
(* that were its own only, and when the type it finds is its NAT's.        *)
(***************************************************************************)
EXTENDS StunDetect, FiniteSetTheorems, TLAPS

-----------------------------------------------------------------------------
(* The operators. *)

LEMMA SymDiffTwice == \A x, y : SymDiff(SymDiff(x, y), y) = x
BY DEF SymDiff

(* Unmasking undoes masking (stun.go:99-105, 172-179). *)
LEMMA ParseUndoes ==
    \A e \in Endpoint : XorMapped[e] \in Answer /\ Parse[XorMapped[e]] = e
<1> SUFFICES ASSUME NEW e \in Endpoint
             PROVE  XorMapped[e] \in Answer /\ Parse[XorMapped[e]] = e
  OBVIOUS
<1>1. XorMapped[e] = Mask(e) /\ XorMapped[e] \in Answer
  BY DEF XorMapped, Answer
<1>2. Parse[XorMapped[e]] = Mask(Mask(e))
  BY <1>1 DEF Parse
<1>3. Mask(Mask(e)) = [ip |-> e.ip, port |-> e.port]
  BY SymDiffTwice DEF Mask
<1>4. e = [ip |-> e.ip, port |-> e.port]
  BY StunAssumption
<1> QED
  BY <1>1, <1>2, <1>3, <1>4

LEMMA ParseType == \A a \in Answer : Parse[a] \in Endpoint
BY ParseUndoes DEF Answer

(* The ports are numbered from 1 without a gap. *)
LEMMA ServerNumbers ==
    /\ Cardinality(Server) \in Nat \ {0}
    /\ 1 \in Server /\ Server \subseteq Nat
    /\ \A s \in Server : /\ 1..(s - 1) \subseteq Server
                         /\ (s + 1 \notin Server) => Server = (1..(s - 1)) \cup {s}
                         /\ (s + 1) - 1 = s /\ 1..s = (1..(s - 1)) \cup {s}
<1>1. Cardinality(Server) \in Nat
  BY StunAssumption, FS_CardinalityType
<1> DEFINE c == Cardinality(Server)
<1>2. Server = 1..c /\ Server # {} /\ c \in Nat
  BY <1>1, StunAssumption
<1> HIDE DEF c
<1>3. c # 0 /\ 1 \in Server
  BY <1>2
<1> QED
  BY <1>2, <1>3 DEF c

LEMMA MappingsType == \A m \in Mappings, s \in Server : m[s] \in Endpoint
BY DEF Mappings

(* The ports see more than one endpoint exactly when the NAT is symmetric  *)
(* and there is more than one port to tell.                                *)
LEMMA MappingsTell ==
    ASSUME NEW m \in Mappings
    PROVE  Cardinality({m[s] : s \in Server}) > 1 <=> ~cone /\ Cardinality(Server) > 1
<1> DEFINE c == Cardinality(Server)
           S == {m[s] : s \in Server}
<1>1. Server = 1..c /\ c \in Nat \ {0} /\ 1 \in Server /\ IsFiniteSet(Server)
  BY ServerNumbers, StunAssumption
<1>2. CASE c = 1 \/ cone
  <2>1. \A s \in Server : m[s] = m[1]
    <3>1. CASE c = 1
      BY <1>1, <3>1
    <3>2. CASE cone
      BY <1>1, <3>2 DEF Mappings
    <3> QED
      BY <1>2, <3>1, <3>2
  <2>2. S = {m[1]}
    BY <1>1, <2>1
  <2>3. Cardinality(S) = 1
    BY <2>2, FS_Singleton
  <2> HIDE DEF c, S
  <2> QED
    BY <1>1, <1>2, <2>3 DEF c, S
<1>3. CASE c > 1 /\ ~cone
  <2>1. 2 \in Server /\ 1 # 2
    BY <1>1, <1>3
  <2>2. m[1] # m[2]
    BY <1>1, <1>3, <2>1 DEF Mappings
  <2>3. IsFiniteSet(S)
    <3>1. m \in Surjection(Server, S)
      BY DEF Mappings, Surjection
    <3> QED
      BY <1>1, <3>1, FS_Surjection
  <2>4. Cardinality({m[1], m[2]}) = 2
    <3>1. {m[1], m[2]} = {m[1]} \cup {m[2]} /\ m[2] \notin {m[1]}
      BY <2>2
    <3>2. IsFiniteSet({m[1]}) /\ Cardinality({m[1]}) = 1
      BY FS_Singleton
    <3> QED
      BY <3>1, <3>2, FS_AddElement
  <2>5. {m[1], m[2]} \subseteq S
    BY <1>1, <2>1
  <2>6. 2 <= Cardinality(S) /\ Cardinality(S) \in Nat
    BY <2>3, <2>4, <2>5, FS_Subset, FS_CardinalityType
  <2> HIDE DEF c, S
  <2> QED
    BY <1>1, <1>3, <2>6 DEF c, S
<1> HIDE DEF S
<1> QED
  BY <1>1, <1>2, <1>3

-----------------------------------------------------------------------------
(* The type invariant. *)

LEMMA TypeInit == Init => StunTypeOK
<1> SUFFICES ASSUME Init PROVE StunTypeOK
  OBVIOUS
<1>1. held \subseteq Endpoint
  BY MappingsType DEF Init
<1>2. remaps \in 0..MaxRemaps /\ asked \in Server
  BY ServerNumbers, StunAssumption DEF Init
<1> QED
  BY <1>1, <1>2 DEF Init, StunTypeOK

LEMMA TypeStep == StunTypeOK /\ [Next]_vars => StunTypeOK'
<1> SUFFICES ASSUME StunTypeOK, [Next]_vars PROVE StunTypeOK'
  OBVIOUS
<1> USE DEF StunTypeOK
<1>1. CASE Send
  BY <1>1 DEF Send, Mappings
<1>2. ASSUME NEW a \in answers, Receive(a) PROVE StunTypeOK'
  <2>1. Parse[a] \in Endpoint
    BY ParseType
  <2> QED
    BY <1>2, <2>1, StunAssumption DEF Receive, NextServer, Mappings
<1>3. CASE Timeout
  BY <1>3 DEF Timeout, NextServer, netVars, Mappings
<1>4. CASE Conclude
  BY <1>4 DEF Conclude, netVars, Mappings
<1>5. CASE KeepAlive
  BY <1>5, ServerNumbers DEF KeepAlive, clientVars, Mappings
<1>6. ASSUME NEW a \in answers, ReadAnswer(a) PROVE StunTypeOK'
  <2>1. Parse[a] \in Endpoint
    BY ParseType
  <2> QED
    BY <1>6, <2>1, StunAssumption DEF ReadAnswer, Mappings
<1>7. CASE Heartbeat
  BY <1>7 DEF Heartbeat, netVars, Mappings
<1>8. ASSUME NEW s \in Server, Respond(s) PROVE StunTypeOK'
  BY <1>8, ParseUndoes, MappingsType DEF Respond, clientVars, Mappings
<1>9. CASE Lose
  BY <1>9 DEF Lose, clientVars, Mappings
<1>10. CASE Remap
  <2>1. nat' \in Mappings /\ cone' = cone
    BY <1>10 DEF Remap
  <2>2. nat' \in Mappings' /\ held' \subseteq Endpoint
    BY <1>10, <2>1, MappingsType DEF Remap, Mappings
  <2> QED
    BY <1>10, <2>2, StunAssumption DEF Remap, clientVars
<1>11. CASE UNCHANGED vars
  BY <1>11 DEF vars, netVars, clientVars, Mappings
<1> QED
  BY <1>1, <1>2, <1>3, <1>4, <1>5, <1>6, <1>7, <1>8, <1>9, <1>10, <1>11
     DEF Next, DetectNAT, Engine, Network

(* Every variable of the client, its NAT and the STUN ports keeps its      *)
(* type; a client that reports endpoints has one (stun.go:12-63,           *)
(* node.go:272-296).                                                       *)
THEOREM StunTypeCorrect == Spec => []StunTypeOK
<1>1. Init => StunTypeOK
  BY TypeInit
<1>2. StunTypeOK /\ [Next]_vars => StunTypeOK'
  BY TypeStep
<1> QED
  BY <1>1, <1>2, PTL DEF Spec
-----------------------------------------------------------------------------
(* The endpoint the client believes in was its own. *)

(* Every answer under way carries an endpoint that the NAT has given to    *)
(* the socket, since it was masked from one.                               *)
HeldInv ==
    /\ \A s \in Server : nat[s] \in held
    /\ \A a \in answers : Parse[a] \in held
    /\ PublicWasMine

LEMMA HeldStep == StunTypeOK /\ HeldInv /\ [Next]_vars => HeldInv'
<1> SUFFICES ASSUME StunTypeOK, HeldInv, [Next]_vars PROVE HeldInv'
  OBVIOUS
<1> USE DEF HeldInv, PublicWasMine
<1>1. ASSUME UNCHANGED <<nat, held, public>>, answers' \subseteq answers
      PROVE  HeldInv'
  BY <1>1
<1>2. CASE Send \/ Timeout \/ Conclude \/ KeepAlive \/ Heartbeat \/ Lose \/ UNCHANGED vars
  BY <1>1, <1>2 DEF Send, Timeout, Conclude, KeepAlive, Heartbeat, Lose, vars, netVars, clientVars
<1>3. ASSUME NEW a \in answers, Receive(a) \/ ReadAnswer(a) PROVE HeldInv'
  <2>1. public' = public \/ public' = Parse[a]
    BY <1>3 DEF Receive, ReadAnswer
  <2>2. UNCHANGED <<nat, held>> /\ answers' \subseteq answers
    BY <1>3 DEF Receive, ReadAnswer
  <2> QED
    BY <2>1, <2>2
<1>4. ASSUME NEW s \in Server, Respond(s) PROVE HeldInv'
  <2>1. answers' = answers \cup {XorMapped[nat[s]]} /\ UNCHANGED <<nat, held, public>>
    BY <1>4 DEF Respond, clientVars
  <2>2. Parse[XorMapped[nat[s]]] = nat[s]
    BY ParseUndoes, MappingsType DEF StunTypeOK
  <2> QED
    BY <2>1, <2>2
<1>5. CASE Remap
  <2>1. held' = held \cup {nat'[s] : s \in Server} /\ UNCHANGED <<answers, public>>
    BY <1>5 DEF Remap, clientVars
  <2> QED
    BY <2>1
<1> QED
  BY <1>2, <1>3, <1>4, <1>5 DEF Next, DetectNAT, Engine, Network

(* The client never takes an endpoint for its own that it never had,       *)
(* however late an answer is and whatever request it belongs to            *)
(* (stun.go:17-27, 99-105, 172-179; udp_engine.go:106-118).                *)
THEOREM PublicWasMineCorrect == Spec => []PublicWasMine
<1>1. Init => HeldInv
  BY DEF Init, HeldInv, PublicWasMine
<1>2. StunTypeOK /\ HeldInv /\ [Next]_vars => HeldInv'
  BY HeldStep
<1>3. HeldInv => PublicWasMine
  BY DEF HeldInv
<1> QED
  BY <1>1, <1>2, <1>3, StunTypeCorrect, PTL DEF Spec

-----------------------------------------------------------------------------
(* The type of the NAT. *)

(* The endpoints the client has been told by the ports it is done with. *)
Told(n) == {nat[s] : s \in 1..n}

(* While nothing goes wrong, what is under way belongs to the port that is *)
(* being asked, and the client has seen what each earlier one sees.        *)
InTurn ==
    /\ pc # "wait" => requests = {} /\ answers = {}
    /\ requests = {} \/ answers = {}
    /\ requests \subseteq {asked} /\ answers \subseteq {XorMapped[nat[asked]]}
    /\ pc \in {"send", "wait"} => seen = Told(asked - 1)
    /\ pc = "conclude" => seen = {nat[s] : s \in Server}

TypeInv ==
    /\ natType = "unknown" /\ pc # "failed" /\ ~disturbed => InTurn
    /\ TypeIsRight

LEMMA TypeInvInit == Init => TypeInv
<1> SUFFICES ASSUME Init PROVE TypeInv
  OBVIOUS
<1>1. Told(asked - 1) = {}
  BY DEF Init, Told
<1> QED
  BY <1>1 DEF Init, TypeInv, InTurn, TypeIsRight

LEMMA TypeInvStep == StunTypeOK /\ TypeInv /\ [Next]_vars => TypeInv'
<1> SUFFICES ASSUME StunTypeOK, TypeInv, [Next]_vars PROVE TypeInv'
  OBVIOUS
<1>1. CASE Send
  BY <1>1 DEF Send, TypeInv, InTurn, TypeIsRight, Told, StunTypeOK
<1>2. ASSUME NEW a \in answers, Receive(a) PROVE TypeInv'
  <2>1. natType' = "unknown" /\ UNCHANGED <<natType, nat, requests, disturbed>>
    BY <1>2 DEF Receive, StunTypeOK
  <2>2. ASSUME ~disturbed PROVE InTurn'
    <3>1. /\ requests \subseteq {asked} /\ a = XorMapped[nat[asked]]
          /\ answers \subseteq {a} /\ seen = Told(asked - 1)
      BY <1>2, <2>1, <2>2 DEF Receive, TypeInv, InTurn
    <3>2. Parse[a] = nat[asked]
      BY <3>1, ParseUndoes, MappingsType DEF StunTypeOK
    <3>3. answers' = {} /\ seen' = Told(asked - 1) \cup {nat[asked]}
      BY <1>2, <3>1, <3>2 DEF Receive
    <3>4. Told(asked - 1) \cup {nat[asked]} = Told(asked)
      BY ServerNumbers DEF Told, StunTypeOK
    <3>5. requests = {}
      BY <1>2, <2>1, <2>2 DEF Receive, TypeInv, InTurn
    <3>6. CASE asked + 1 \in Server
      <4>1. pc' = "send" /\ asked' - 1 = asked
        BY <1>2, <3>6, ServerNumbers DEF Receive, NextServer, StunTypeOK
      <4> QED
        BY <2>1, <3>3, <3>4, <3>5, <4>1 DEF InTurn, Told
    <3>7. CASE asked + 1 \notin Server
      <4>1. pc' = "conclude"
        BY <1>2, <3>7 DEF Receive, NextServer
      <4>2. Told(asked) = {nat[s] : s \in Server}
        BY <3>7, ServerNumbers DEF Told, StunTypeOK
      <4> QED
        BY <2>1, <3>3, <3>4, <3>5, <4>1, <4>2 DEF InTurn
    <3> QED
      BY <3>6, <3>7
  <2> QED
    BY <2>1, <2>2 DEF TypeInv, TypeIsRight
<1>3. CASE Timeout
  BY <1>3 DEF Timeout, TypeInv, TypeIsRight
<1>4. CASE Conclude
  BY <1>4, MappingsTell
     DEF Conclude, netVars, TypeInv, InTurn, TypeIsRight, StunTypeOK
<1>5. ASSUME natType # "unknown", UNCHANGED <<natType, cone, disturbed>> PROVE TypeInv'
  BY <1>5 DEF TypeInv, TypeIsRight
<1>6. CASE Engine
  BY <1>5, <1>6 DEF Engine, KeepAlive, ReadAnswer, Heartbeat, netVars, clientVars, StunTypeOK
<1>7. ASSUME NEW s \in Server, Respond(s) PROVE TypeInv'
  BY <1>7 DEF Respond, clientVars, TypeInv, InTurn, TypeIsRight, Told
<1>8. CASE Lose
  BY <1>8 DEF Lose, clientVars, TypeInv, InTurn, TypeIsRight, Told
<1>9. CASE Remap
  BY <1>9 DEF Remap, clientVars, TypeInv, TypeIsRight, StunTypeOK
<1>10. CASE UNCHANGED vars
  BY <1>10 DEF vars, netVars, clientVars, TypeInv, InTurn, TypeIsRight, Told
<1> QED
  BY <1>1, <1>2, <1>3, <1>4, <1>6, <1>7, <1>8, <1>9, <1>10 DEF Next, DetectNAT, Network

(* Whatever the number of STUN ports, a NAT is taken for a hard one        *)
(* exactly when it is symmetric and two ports were asked, provided every   *)
(* port answered in time and the NAT kept its mappings (stun.go:12-34,     *)
(* node.go:272-296).                                                       *)
THEOREM TypeIsRightCorrect == Spec => []TypeIsRight
<1>1. Init => TypeInv
  BY TypeInvInit
<1>2. StunTypeOK /\ TypeInv /\ [Next]_vars => TypeInv'
  BY TypeInvStep
<1>3. TypeInv => TypeIsRight
  BY DEF TypeInv
<1> QED
  BY <1>1, <1>2, <1>3, StunTypeCorrect, PTL DEF Spec
=============================================================================
