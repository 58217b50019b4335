-------------------------- MODULE SupervisorProofs --------------------------
(* Proofs about the supervisor, for any number of peers, task slots, forgets *)
(* and restarts and any limits: the registries of the loop stay authorized,  *)
(* agree with each other and stay within their bounds, however late the      *)
(* outputs of the tasks are joined.                                          *)
EXTENDS Supervisor, FiniteSetTheorems, TLAPS

-----------------------------------------------------------------------------
(* The inductive invariant *)

Working == Setup \cup Candidate
InFlight == {"exchanging", "verified"} \cup PairingTask
AfterConfirm == PairingTask \cup {"paired", "unpaired"}

\* What the stage of a task says about its connection and the registries.
StageOk(c) ==
    /\ conns[c].stage = "free" => conns[c] = Free
    /\ conns[c].stage # "free" => conns[c].peer \in Peers
    /\ conns[c].stage = "authorized" => ~conns[c].pairing
    /\ conns[c].stage = "ended" => ~conns[c].open
    /\ c \in sessions => conns[c].stage \in {"session", "ended"}
    /\ pending[c] # "none" => conns[c].stage \in AfterConfirm
StageInv == \A c \in Conns : StageOk(c)

\* A daemon that is not running has given its registries back.
StateInv ==
    /\ state # "Running" => sessions = {} /\ \A c \in Conns : pending[c] = "none"
    /\ state \in {"Stopped", "StartRefused"} => \A c \in Conns : conns[c] = Free

\* A dial that is being set up is the one its peer's record names.
Dialled(c) ==
    conns[c].origin = "Outbound" /\ conns[c].stage \in Working =>
        outbound[conns[c].peer].conn = c /\ outbound[conns[c].peer].pairing = conns[c].pairing
DialInv ==
    /\ \A c \in Conns : Dialled(c)
    /\ \A p \in Peers : outbound[p] # NoDial => outbound[p].conn \in Conns

\* One session for a device; what is registered is still authorized.
Authorized(c) ==
    conns[c].peer # invalidating =>
        /\ c \in sessions => trust[conns[c].peer] = "Trusted" /\ conns[c].gen = generations[conns[c].peer]
        /\ pending[c] # "none" =>
              trust[conns[c].peer] # "Revoked" /\ conns[c].gen = generations[conns[c].peer]
SessionInv ==
    /\ \A c \in Conns : Authorized(c)
    /\ \A c, d \in sessions : conns[c].peer = conns[d].peer => c = d

\* No session dial that still counts.
Quiet(p) == outbound[p] # NoDial => outbound[p].pairing \/ outbound[p].cancelled

\* The policy of a peer follows trust, suspension and the healthy session.
PolicyOk(p) ==
    /\ trust[p] # "Trusted" /\ p # invalidating => connectivity[p] = Unmanaged /\ Quiet(p)
    /\ connectivity[p].suspended => ~connectivity[p].due /\ Quiet(p)
    /\ p # invalidating =>
          \A c \in sessions : conns[c].peer = p /\ conns[c].open =>
              /\ connectivity[p].state = "Connected" /\ connectivity[p].session = c
              /\ ~connectivity[p].due
PolicyInv == \A p \in Peers : PolicyOk(p)

\* Nothing is over its capacity.
Records == {c \in Conns : pending[c] # "none"}
CountInv ==
    /\ Cardinality(PairingsInFlight) <= MaxPending
    /\ Cardinality(Records) <= MaxPending
    /\ Cardinality(Dials) <= MaxOutbound
    /\ Cardinality(sessions) <= MaxSessions
    /\ Cardinality(Managed(connectivity)) <= MaxManagedPeers

IInv == TypeOK /\ StageInv /\ StateInv /\ DialInv /\ SessionInv /\ PolicyInv /\ CountInv

-----------------------------------------------------------------------------
(* Counting *)

\* A part of a finite set is no larger.
LEMMA CountPart ==
    ASSUME NEW S, IsFiniteSet(S), NEW T, T \subseteq S, NEW n \in Nat, Cardinality(S) <= n
    PROVE  Cardinality(T) <= n
<1>1. Cardinality(T) <= Cardinality(S) /\ IsFiniteSet(T)
  BY FS_Subset
<1>2. Cardinality(T) \in Nat /\ Cardinality(S) \in Nat
  BY <1>1, FS_CardinalityType
<1> QED BY <1>1, <1>2

\* One element more fits where there was room.
LEMMA CountOneMore ==
    ASSUME NEW S, IsFiniteSet(S), NEW x, NEW T, T \subseteq S \cup {x}, NEW n \in Nat,
           Cardinality(S) < n
    PROVE  Cardinality(T) <= n
<1>1. IsFiniteSet(S \cup {x}) /\ Cardinality(S \cup {x}) <= n
  <2>1. /\ IsFiniteSet(S \cup {x})
        /\ Cardinality(S \cup {x}) = IF x \in S THEN Cardinality(S) ELSE Cardinality(S) + 1
    BY FS_AddElement
  <2>2. Cardinality(S) \in Nat
    BY FS_CardinalityType
  <2> QED BY <2>1, <2>2
<1> QED BY <1>1, CountPart

\* One element in place of another.
LEMMA CountReplaced ==
    ASSUME NEW S, IsFiniteSet(S), NEW e \in S, NEW x, NEW T, T \subseteq (S \ {e}) \cup {x},
           NEW n \in Nat, Cardinality(S) <= n
    PROVE  Cardinality(T) <= n
<1>1. IsFiniteSet(S \ {e}) /\ Cardinality(S \ {e}) = Cardinality(S) - 1
  BY FS_RemoveElement
<1>2. Cardinality(S) \in Nat
  BY FS_CardinalityType
<1>3. Cardinality(S \ {e}) < n
  BY <1>1, <1>2
<1> QED BY <1>1, <1>3, CountOneMore

\* Every registry is a finite set.
LEMMA Finite ==
    ASSUME TypeOK
    PROVE  /\ IsFiniteSet(PairingsInFlight) /\ IsFiniteSet(Records) /\ IsFiniteSet(Dials)
           /\ IsFiniteSet(sessions) /\ IsFiniteSet(Managed(connectivity))
           /\ MaxPending \in Nat /\ MaxOutbound \in Nat /\ MaxSessions \in Nat /\ MaxManagedPeers \in Nat
<1>1. /\ PairingsInFlight \subseteq Conns /\ Records \subseteq Conns /\ Dials \subseteq Peers
      /\ sessions \subseteq Conns /\ Managed(connectivity) \subseteq Peers
  BY DEF TypeOK, PairingsInFlight, Records, Dials, Managed
<1>2. IsFiniteSet(Peers) /\ IsFiniteSet(Conns)
  BY IdsAssumption
<1>3. /\ MaxPending \in Nat /\ MaxOutbound \in Nat /\ MaxSessions \in Nat /\ MaxManagedPeers \in Nat
  BY BoundsAssumption DEF validate
<1> QED BY <1>1, <1>2, <1>3, FS_Subset

-----------------------------------------------------------------------------
(* Stages and records *)

\* The stages of a task, by what they are for.
LEMMA StageFacts ==
    /\ Setup = {"dialing", "gate", "admit", "exchanging"}
    /\ Working = {"dialing", "gate", "admit", "exchanging", "authorized", "verified", "failed"}
    /\ InFlight = {"exchanging", "verified", "pending", "deciding", "committing", "completing"}
    /\ AfterConfirm = {"pending", "deciding", "committing", "completing", "paired", "unpaired"}
    /\ Stages = Working \cup AfterConfirm \cup {"free", "session", "ended"}
BY DEF Setup, Working, InFlight, AfterConfirm, Stages, Candidate, PairingTask

\* A free slot.
LEMMA FreeFacts ==
    /\ Free \in Connections /\ Free.stage = "free" /\ Free.peer = NoPeer /\ Free.open = FALSE
    /\ Free.origin = "Inbound" /\ Free.pairing = FALSE
<1>1. 0 \in 0..MaxGeneration /\ "free" \in Stages /\ "Fatal" \in Failures
  BY BoundsAssumption, StageFacts DEF Failures
<1> QED BY <1>1 DEF Free, Connections

\* The fields of a connection.
LEMMA ConnectionFacts ==
    ASSUME TypeOK, NEW c \in Conns
    PROVE  /\ conns[c] \in Connections /\ conns[c].stage \in Stages
           /\ conns[c].peer \in Peers \cup {NoPeer} /\ conns[c].gen \in 0..MaxGeneration
           /\ conns[c].open \in BOOLEAN /\ conns[c].pairing \in BOOLEAN
           /\ conns[c].origin \in {"Inbound", "Outbound"} /\ conns[c].failure \in Failures
<1>1. conns[c] \in Connections
  BY DEF TypeOK
<1> QED BY <1>1 DEF Connections

\* A task that moves to its next place.
LEMMA BecomeFacts ==
    ASSUME TypeOK, NEW c \in Conns, NEW s \in Stages, Become(c, s)
    PROVE  \E k \in Connections :
              /\ conns' = [conns EXCEPT ![c] = k] /\ k.stage = s
              /\ k.peer = conns[c].peer /\ k.origin = conns[c].origin /\ k.pairing = conns[c].pairing
              /\ k.gen = conns[c].gen /\ k.open = conns[c].open
<1> DEFINE k == [conns[c] EXCEPT !.stage = s]
<1>1. conns \in [Conns -> Connections] /\ conns[c] \in Connections
  BY DEF TypeOK
<1>2. /\ k \in Connections /\ k.stage = s
      /\ k.peer = conns[c].peer /\ k.origin = conns[c].origin /\ k.pairing = conns[c].pairing
      /\ k.gen = conns[c].gen /\ k.open = conns[c].open
  BY <1>1 DEF Connections
<1>3. conns' = [conns EXCEPT ![c] = k]
  BY <1>1 DEF Become
<1> HIDE DEF k
<1> QED BY <1>2, <1>3

\* A task that ends, with its connection closed.
LEMMA EndFacts ==
    ASSUME TypeOK, NEW c \in Conns, NEW s \in Stages, NEW f \in Failures,
           \/ conns' = [conns EXCEPT ![c].stage = s, ![c].failure = f, ![c].open = FALSE]
           \/ conns' = [conns EXCEPT ![c].stage = s, ![c].open = FALSE]
    PROVE  \E k \in Connections :
              /\ conns' = [conns EXCEPT ![c] = k] /\ k.stage = s /\ k.open = FALSE
              /\ k.peer = conns[c].peer /\ k.origin = conns[c].origin /\ k.pairing = conns[c].pairing
              /\ k.gen = conns[c].gen
<1>1. conns \in [Conns -> Connections] /\ conns[c] \in Connections
  BY DEF TypeOK
<1>2. CASE conns' = [conns EXCEPT ![c].stage = s, ![c].failure = f, ![c].open = FALSE]
  <2> DEFINE k == [conns[c] EXCEPT !.stage = s, !.failure = f, !.open = FALSE]
  <2>1. /\ k \in Connections /\ k.stage = s /\ k.open = FALSE
        /\ k.peer = conns[c].peer /\ k.origin = conns[c].origin /\ k.pairing = conns[c].pairing
        /\ k.gen = conns[c].gen
    BY <1>1 DEF Connections
  <2>2. conns' = [conns EXCEPT ![c] = k]
    BY <1>1, <1>2
  <2> HIDE DEF k
  <2> QED BY <2>1, <2>2
<1>3. CASE conns' = [conns EXCEPT ![c].stage = s, ![c].open = FALSE]
  <2> DEFINE k == [conns[c] EXCEPT !.stage = s, !.open = FALSE]
  <2>1. /\ k \in Connections /\ k.stage = s /\ k.open = FALSE
        /\ k.peer = conns[c].peer /\ k.origin = conns[c].origin /\ k.pairing = conns[c].pairing
        /\ k.gen = conns[c].gen
    BY <1>1 DEF Connections
  <2>2. conns' = [conns EXCEPT ![c] = k]
    BY <1>1, <1>3
  <2> HIDE DEF k
  <2> QED BY <2>1, <2>2
<1> QED BY <1>2, <1>3

-----------------------------------------------------------------------------
(* Steps of tasks *)

\* A step that changes one connection, and perhaps makes a peer trusted.
LEMMA ConnMove ==
    ASSUME IInv, NEW c \in Conns, NEW k \in Connections, conns' = [conns EXCEPT ![c] = k],
           UNCHANGED <<Registries, generations>>,
           trust' \in [Peers -> {"Unknown", "Trusted", "Revoked"}],
           \A p \in Peers : trust'[p] = trust[p] \/ trust'[p] = "Trusted",
           conns[c].stage # "free" \/ state = "Running",
           k.stage = "free" => k = Free,
           k.stage # "free" => k.peer \in Peers,
           k.stage = "authorized" => ~k.pairing,
           k.stage = "ended" => ~k.open,
           c \in sessions \/ pending[c] # "none" => k.peer = conns[c].peer /\ k.gen = conns[c].gen,
           c \in sessions => k.stage \in {"session", "ended"} /\ (k.open => conns[c].open),
           pending[c] # "none" => k.stage \in AfterConfirm,
           k.origin = "Outbound" /\ k.stage \in Working =>
               /\ conns[c].origin = "Outbound" /\ conns[c].stage \in Working
               /\ k.peer = conns[c].peer /\ k.pairing = conns[c].pairing,
           k.stage \in InFlight => conns[c].stage \in InFlight \/ Permits > 0
    PROVE  IInv'
<1>1. /\ conns \in [Conns -> Connections] /\ TypeOK
      /\ UNCHANGED <<state, sessions, pending, outbound, connectivity, routes, invalidating, restarts>>
      /\ UNCHANGED generations
  BY DEF IInv, TypeOK, Registries
<1>2. /\ conns' \in [Conns -> Connections] /\ conns'[c] = k
      /\ \A d \in Conns : d # c => conns'[d] = conns[d]
  BY <1>1
<1>3. TypeOK'
  BY <1>1, <1>2 DEF TypeOK
<1>4. StageInv'
  <2> SUFFICES ASSUME NEW d \in Conns PROVE StageOk(d)'
    BY DEF StageInv
  <2>1. CASE d = c
    BY <1>1, <1>2, <2>1 DEF StageOk
  <2>2. CASE d # c
    <3>1. StageOk(d) /\ conns'[d] = conns[d]
      BY <1>2, <2>2 DEF IInv, StageInv
    <3> QED BY <1>1, <3>1 DEF StageOk
  <2> QED BY <2>1, <2>2
<1>5. StateInv'
  <2>1. state \in {"Stopped", "StartRefused"} => conns[c].stage = "free"
    BY FreeFacts DEF IInv, StateInv
  <2>2. state \notin {"Stopped", "StartRefused"}
    BY <2>1
  <2> QED BY <1>1, <2>2 DEF IInv, StateInv
<1>6. DialInv'
  <2>1. ASSUME NEW d \in Conns PROVE Dialled(d)'
    <3>1. Dialled(d) /\ Dialled(c)
      BY DEF IInv, DialInv
    <3>2. CASE d = c
      BY <1>1, <1>2, <3>1, <3>2 DEF Dialled
    <3>3. CASE d # c
      BY <1>1, <1>2, <3>1, <3>3 DEF Dialled
    <3> QED BY <3>2, <3>3
  <2> QED BY <1>1, <2>1 DEF IInv, DialInv
<1>7. SessionInv'
  <2>1. ASSUME NEW d \in Conns PROVE Authorized(d)'
    <3> SUFFICES ASSUME conns'[d].peer # invalidating', d \in sessions \/ pending[d] # "none"
                 PROVE  Authorized(d)'
      BY <1>1 DEF Authorized
    <3>1. Authorized(d) /\ StageOk(d)
      BY DEF IInv, SessionInv, StageInv
    <3>2. conns'[d].peer = conns[d].peer /\ conns'[d].gen = conns[d].gen
      BY <1>2
    <3>3. conns[d].peer \in Peers
      BY <3>1, StageFacts DEF StageOk
    <3> QED BY <1>1, <3>1, <3>2, <3>3 DEF Authorized
  <2>2. ASSUME NEW d \in sessions, NEW e \in sessions, conns'[d].peer = conns'[e].peer PROVE d = e
    <3>1. d \in Conns /\ e \in Conns
      BY <1>1 DEF TypeOK
    <3>2. conns'[d].peer = conns[d].peer /\ conns'[e].peer = conns[e].peer
      BY <1>2, <3>1
    <3> QED BY <2>2, <3>2 DEF IInv, SessionInv
  <2> QED BY <1>1, <2>1, <2>2 DEF SessionInv
<1>8. PolicyInv'
  <2> SUFFICES ASSUME NEW p \in Peers PROVE PolicyOk(p)'
    BY DEF PolicyInv
  <2>1. PolicyOk(p) /\ Quiet(p)' = Quiet(p)
    BY <1>1 DEF IInv, PolicyInv, Quiet
  <2>2. ASSUME NEW d \in sessions, conns'[d].peer = p, conns'[d].open
        PROVE  conns[d].peer = p /\ conns[d].open
    <3>1. d \in Conns
      BY <1>1 DEF TypeOK
    <3> QED BY <1>2, <2>2, <3>1
  <2>3. trust'[p] # "Trusted" => trust[p] # "Trusted"
    OBVIOUS
  <2> QED BY <1>1, <2>1, <2>2, <2>3 DEF PolicyOk
<1>9. CountInv'
  <2>1. IsFiniteSet(PairingsInFlight) /\ MaxPending \in Nat
    BY <1>1, Finite
  <2>2. PairingsInFlight' \subseteq PairingsInFlight \cup {c}
    BY <1>2 DEF PairingsInFlight
  <2>3. Cardinality(PairingsInFlight') <= MaxPending
    <3>1. CASE conns[c].stage \in InFlight \/ k.stage \notin InFlight
      <4>1. PairingsInFlight' \subseteq PairingsInFlight
        BY <1>2, <3>1 DEF PairingsInFlight, InFlight
      <4> QED BY <2>1, <4>1, CountPart DEF IInv, CountInv
    <3>2. CASE Permits > 0
      <4>1. Cardinality(PairingsInFlight) < MaxPending
        BY <2>1, <3>2, FS_CardinalityType DEF Permits
      <4> QED BY <2>1, <2>2, <4>1, CountOneMore
    <3> QED BY <3>1, <3>2
  <2>4. Records' = Records /\ Dials' = Dials /\ Managed(connectivity)' = Managed(connectivity)
    BY <1>1 DEF Records, Dials, Managed
  <2> QED BY <1>1, <2>3, <2>4 DEF IInv, CountInv
<1> QED BY <1>3, <1>4, <1>5, <1>6, <1>7, <1>8, <1>9 DEF IInv

\* What a task may do to its stage.
LEMMA BecomeMove ==
    ASSUME IInv, NEW c \in Conns, NEW s \in Stages, Become(c, s),
           UNCHANGED <<Registries, generations>>,
           trust' \in [Peers -> {"Unknown", "Trusted", "Revoked"}],
           \A p \in Peers : trust'[p] = trust[p] \/ trust'[p] = "Trusted",
           conns[c].stage \notin {"free", "session", "ended"}, s \notin {"free", "session", "ended"},
           s = "authorized" => ~conns[c].pairing,
           conns[c].stage \in AfterConfirm => s \in AfterConfirm,
           s \in Working => conns[c].stage \in Working,
           s \in InFlight => conns[c].stage \in InFlight \/ Permits > 0
    PROVE  IInv'
<1>1. TypeOK /\ StageOk(c)
  BY DEF IInv, StageInv
<1>2. PICK k \in Connections :
         /\ conns' = [conns EXCEPT ![c] = k] /\ k.stage = s
         /\ k.peer = conns[c].peer /\ k.origin = conns[c].origin /\ k.pairing = conns[c].pairing
         /\ k.gen = conns[c].gen /\ k.open = conns[c].open
  BY <1>1, BecomeFacts
<1>3. c \notin sessions /\ (pending[c] # "none" => k.stage \in AfterConfirm)
  BY <1>1, <1>2 DEF StageOk
<1>4. k.peer \in Peers
  BY <1>1, <1>2 DEF StageOk
<1> QED BY <1>2, <1>3, <1>4, ConnMove

\* A task that ends may do so from any stage of its own kind.
LEMMA EndMove ==
    ASSUME IInv, NEW c \in Conns, NEW s \in {"failed", "unpaired", "ended"}, NEW f \in Failures,
           \/ conns' = [conns EXCEPT ![c].stage = s, ![c].failure = f, ![c].open = FALSE]
           \/ conns' = [conns EXCEPT ![c].stage = s, ![c].open = FALSE],
           UNCHANGED <<Registries, trust, generations>>,
           s = "failed" => conns[c].stage \in Working,
           s = "unpaired" => conns[c].stage \in AfterConfirm,
           s = "ended" => conns[c].stage = "session"
    PROVE  IInv'
<1>1. TypeOK /\ StageOk(c) /\ s \in Stages
  BY StageFacts DEF IInv, StageInv
<1>2. PICK k \in Connections :
         /\ conns' = [conns EXCEPT ![c] = k] /\ k.stage = s /\ k.open = FALSE
         /\ k.peer = conns[c].peer /\ k.origin = conns[c].origin /\ k.pairing = conns[c].pairing
         /\ k.gen = conns[c].gen
  BY <1>1, EndFacts
<1>3. conns[c].stage # "free" /\ (c \in sessions => s = "ended") /\ (pending[c] # "none" => s = "unpaired")
  BY <1>1, StageFacts DEF StageOk
<1>4. k.peer \in Peers
  BY <1>1, <1>2, <1>3 DEF StageOk
<1>5. /\ trust' \in [Peers -> {"Unknown", "Trusted", "Revoked"}]
      /\ \A p \in Peers : trust'[p] = trust[p]
  BY <1>1 DEF TypeOK
<1>6. /\ k.stage \in Working => conns[c].stage \in Working
      /\ k.stage \notin InFlight /\ (s = "unpaired" => s \in AfterConfirm)
  BY <1>2, StageFacts
<1> QED BY <1>2, <1>3, <1>4, <1>5, <1>6, ConnMove

\* Every step of a task keeps the invariant.
LEMMA TaskIInv ==
    ASSUME IInv, NEW c \in Conns, TaskNext(c)
    PROVE  IInv'
<1>1. TypeOK /\ StageOk(c) /\ conns[c].stage \in Stages
  BY ConnectionFacts DEF IInv, StageInv
<1>2. trust \in [Peers -> {"Unknown", "Trusted", "Revoked"}] /\ {"Fatal", "Retryable"} \subseteq Failures
  BY <1>1 DEF TypeOK, Failures
<1>3. ASSUME NEW s \in Stages, Become(c, s), TaskStep,
             conns[c].stage \notin {"free", "session", "ended"}, s \notin {"free", "session", "ended"},
             s = "authorized" => ~conns[c].pairing,
             conns[c].stage \in AfterConfirm => s \in AfterConfirm,
             s \in Working => conns[c].stage \in Working,
             s \in InFlight => conns[c].stage \in InFlight \/ Permits > 0
      PROVE  IInv'
  <2>1. UNCHANGED <<Registries, generations>> /\ UNCHANGED trust
    BY <1>3 DEF TaskStep
  <2> QED BY <1>2, <1>3, <2>1, BecomeMove
<1>4. ASSUME NEW f \in Failures, Fail(c, f), TaskStep, conns[c].stage \in Working
      PROVE  IInv'
  <2>1. UNCHANGED <<Registries, trust, generations>>
    BY <1>4 DEF TaskStep
  <2> QED BY <1>4, <2>1, EndMove DEF Fail
<1>5. ASSUME Unpaired(c), TaskStep, conns[c].stage \in AfterConfirm
      PROVE  IInv'
  <2>1. UNCHANGED <<Registries, trust, generations>>
    BY <1>5 DEF TaskStep
  <2> QED BY <1>2, <1>5, <2>1, EndMove DEF Unpaired
<1>6. CASE accept_inbound(c)
  <2>1. conns[c].stage = "gate" /\ TaskStep /\ (Become(c, "admit") \/ Fail(c, "Fatal"))
    BY <1>6 DEF accept_inbound
  <2> QED BY <1>2, <1>3, <1>4, <2>1, StageFacts
<1>7. CASE prepare_outbound(c)
  <2>1. CASE Fail(c, "Fatal")
    BY <1>2, <1>4, <1>7, <2>1, StageFacts DEF prepare_outbound
  <2>2. CASE ~Fail(c, "Fatal")
    <3> DEFINE k == [conns[c] EXCEPT !.stage = "gate", !.open = TRUE, !.gen = generations[conns[c].peer]]
    <3>1. /\ conns[c].stage = "dialing" /\ TaskStep
          /\ conns' = [conns EXCEPT ![c].stage = "gate", ![c].open = TRUE,
                                    ![c].gen = generations[conns[c].peer]]
      BY <1>7, <2>2 DEF prepare_outbound
    <3>2. conns \in [Conns -> Connections] /\ conns[c] \in Connections
      BY <1>1 DEF TypeOK
    <3>3. conns[c].peer \in Peers /\ generations[conns[c].peer] \in 0..MaxGeneration
      BY <1>1, <3>1 DEF StageOk, TypeOK
    <3>4. /\ k \in Connections /\ k.stage = "gate" /\ k.peer = conns[c].peer
          /\ k.origin = conns[c].origin /\ k.pairing = conns[c].pairing
      BY <3>2, <3>3, StageFacts DEF Connections
    <3>5. conns' = [conns EXCEPT ![c] = k]
      BY <3>1, <3>2
    <3>6. c \notin sessions /\ pending[c] = "none"
      BY <1>1, <3>1, StageFacts DEF StageOk
    <3>7. UNCHANGED <<Registries, generations>> /\ UNCHANGED trust
      BY <3>1 DEF TaskStep
    <3>8. "gate" \in Working /\ "gate" \notin InFlight /\ "dialing" \in Working
      BY StageFacts
    <3> HIDE DEF k
    <3>9. /\ trust' \in [Peers -> {"Unknown", "Trusted", "Revoked"}]
          /\ \A p \in Peers : trust'[p] = trust[p] \/ trust'[p] = "Trusted"
          /\ conns[c].stage # "free" /\ conns[c].stage \in Working
          /\ k.stage \notin {"free", "authorized", "ended"} /\ k.stage \notin InFlight /\ k.peer \in Peers
      BY <1>2, <3>1, <3>3, <3>4, <3>7, <3>8
    <3> QED BY <3>4, <3>5, <3>6, <3>7, <3>9, ConnMove
  <2> QED BY <2>1, <2>2
<1>8. CASE request_intent(c)
  <2>1. conns[c].stage = "gate" /\ TaskStep /\ (Become(c, "admit") \/ Fail(c, "Fatal"))
    BY <1>8 DEF request_intent
  <2> QED BY <1>2, <1>3, <1>4, <2>1, StageFacts
<1>9. CASE admit(c)
  <2>1. /\ conns[c].stage = "admit" /\ TaskStep
        /\ \/ Fail(c, "Fatal") \/ Fail(c, "Retryable")
           \/ ~conns[c].pairing /\ Become(c, "authorized")
           \/ Permits > 0 /\ Become(c, "exchanging")
    BY <1>9 DEF admit
  <2>2. CASE Fail(c, "Fatal") \/ Fail(c, "Retryable")
    BY <1>2, <1>4, <2>1, <2>2, StageFacts
  <2>3. CASE ~conns[c].pairing /\ Become(c, "authorized")
    BY <1>3, <2>1, <2>3, StageFacts
  <2>4. CASE Permits > 0 /\ Become(c, "exchanging")
    BY <1>3, <2>1, <2>4, StageFacts
  <2> QED BY <2>1, <2>2, <2>3, <2>4
<1>10. CASE VerificationReady(c)
  BY <1>3, <1>10, StageFacts DEF VerificationReady
<1>11. CASE SetupFails(c)
  BY <1>4, <1>11, StageFacts DEF SetupFails
<1>12. CASE ConnectionCloses(c)
  <2> DEFINE k == [conns[c] EXCEPT !.open = FALSE]
  <2>1. /\ conns[c].stage \in {"authorized", "verified", "pending", "paired", "session"} /\ TaskStep
        /\ conns' = [conns EXCEPT ![c].open = FALSE]
    BY <1>12 DEF ConnectionCloses
  <2>2. conns \in [Conns -> Connections] /\ conns[c] \in Connections
    BY <1>1 DEF TypeOK
  <2>3. /\ k \in Connections /\ k.stage = conns[c].stage /\ k.peer = conns[c].peer /\ k.gen = conns[c].gen
        /\ k.origin = conns[c].origin /\ k.pairing = conns[c].pairing /\ k.open = FALSE
    BY <2>2 DEF Connections
  <2>4. conns' = [conns EXCEPT ![c] = k]
    BY <2>1, <2>2
  <2>5. UNCHANGED <<Registries, generations>> /\ UNCHANGED trust
    BY <2>1 DEF TaskStep
  <2> HIDE DEF k
  <2>6. /\ c \in sessions => k.stage \in {"session", "ended"}
        /\ pending[c] # "none" => k.stage \in AfterConfirm
        /\ k.peer \in Peers /\ (k.stage = "authorized" => ~k.pairing)
    BY <1>1, <2>1, <2>3 DEF StageOk
  <2> QED BY <1>2, <2>1, <2>3, <2>4, <2>5, <2>6, ConnMove
<1>13. CASE StartConfirm(c)
  BY <1>3, <1>13, StageFacts DEF StartConfirm
<1>14. CASE PairingFails(c)
  BY <1>5, <1>14, StageFacts DEF PairingFails
<1>15. CASE RemoteDecision(c)
  <2>1. conns[c].stage = "deciding" /\ TaskStep /\ (Become(c, "committing") \/ Unpaired(c))
    BY <1>15 DEF RemoteDecision
  <2> QED BY <1>3, <1>5, <2>1, StageFacts
<1>16. CASE CommitTrust(c)
  <2>1. CASE Unpaired(c) /\ UNCHANGED trust
    <3>1. TaskStep /\ conns[c].stage = "committing"
      BY <1>16, <2>1 DEF CommitTrust, TaskStep
    <3> QED BY <1>5, <2>1, <3>1, StageFacts
  <2>2. CASE trust' = [trust EXCEPT ![conns[c].peer] = "Trusted"] /\ Become(c, "completing")
    <3>1. conns[c].stage = "committing" /\ UNCHANGED <<Registries, generations>>
      BY <1>16 DEF CommitTrust
    <3>2. /\ trust' \in [Peers -> {"Unknown", "Trusted", "Revoked"}]
          /\ \A p \in Peers : trust'[p] = trust[p] \/ trust'[p] = "Trusted"
      BY <1>2, <2>2
    <3>3. /\ "completing" \in Stages /\ "completing" \in AfterConfirm /\ "completing" \notin Working
          /\ "committing" \in InFlight
      BY StageFacts
    <3> QED BY <2>2, <3>1, <3>2, <3>3, BecomeMove
  <2> QED BY <1>16, <2>1, <2>2 DEF CommitTrust
<1>17. CASE CompletePairing(c)
  BY <1>3, <1>17, StageFacts DEF CompletePairing
<1>18. CASE SessionTaskEnds(c)
  <2>1. PICK f \in {"Retryable", "Fatal"} :
           conns' = [conns EXCEPT ![c].stage = "ended", ![c].failure = f, ![c].open = FALSE]
    BY <1>18 DEF SessionTaskEnds
  <2>2. conns[c].stage = "session" /\ UNCHANGED <<Registries, trust, generations>>
    BY <1>18 DEF SessionTaskEnds, TaskStep
  <2> QED BY <1>2, <2>1, <2>2, EndMove
<1> QED BY <1>6, <1>7, <1>8, <1>9, <1>10, <1>11, <1>12, <1>13, <1>14, <1>15, <1>16, <1>17, <1>18 DEF TaskNext

\* A slot is taken by an inbound connection, or given back during shutdown.
LEMMA SlotIInv ==
    ASSUME IInv, NEW c \in Conns, JoinOrAbort(c) \/ \E p \in Peers : accept_incoming(c, p)
    PROVE  IInv'
<1>1. TypeOK /\ StageOk(c) /\ StateInv
  BY DEF IInv, StageInv
<1>2. trust \in [Peers -> {"Unknown", "Trusted", "Revoked"}]
  BY <1>1 DEF TypeOK
<1>3. CASE JoinOrAbort(c)
  <2>1. state = "ShuttingDown" /\ conns[c] # Free /\ conns' = [conns EXCEPT ![c] = Free]
    BY <1>3 DEF JoinOrAbort, Drop
  <2>2. UNCHANGED <<Registries, generations>> /\ UNCHANGED trust
    BY <1>3 DEF JoinOrAbort, TaskStep
  <2>3. c \notin sessions /\ pending[c] = "none" /\ conns[c].stage # "free"
    BY <1>1, <2>1 DEF StateInv, StageOk
  <2>4. Free.stage \notin Working \cup InFlight
    BY FreeFacts, StageFacts
  <2> QED BY <1>2, <2>1, <2>2, <2>3, <2>4, FreeFacts, ConnMove
<1>4. ASSUME NEW p \in Peers, accept_incoming(c, p) PROVE IInv'
  <2>1. PICK pairing \in BOOLEAN :
          conns' = [conns EXCEPT ![c] = [Free EXCEPT !.stage = "gate", !.peer = p,
                                            !.pairing = pairing, !.gen = generations[p], !.open = TRUE]]
    BY <1>4 DEF accept_incoming
  <2> DEFINE k == [Free EXCEPT !.stage = "gate", !.peer = p, !.pairing = pairing,
                               !.gen = generations[p], !.open = TRUE]
  <2>2. generations[p] \in 0..MaxGeneration
    BY <1>1 DEF TypeOK
  <2>3. k \in Connections /\ k.stage = "gate" /\ k.peer = p /\ k.origin = "Inbound"
    BY <2>2, FreeFacts, StageFacts DEF Connections
  <2>4. c \notin sessions /\ pending[c] = "none"
    BY <1>1, <1>4, FreeFacts, StageFacts DEF StageOk, accept_incoming
  <2>5. state = "Running" /\ UNCHANGED <<Registries, generations>> /\ UNCHANGED trust
    BY <1>4 DEF accept_incoming, TaskStep
  <2>6. "gate" \notin InFlight
    BY StageFacts
  <2>7. conns' = [conns EXCEPT ![c] = k]
    BY <2>1
  <2> HIDE DEF k
  <2> QED BY <1>2, <2>3, <2>4, <2>5, <2>6, <2>7, ConnMove
<1> QED BY <1>3, <1>4

-----------------------------------------------------------------------------
(* Steps of the loop *)

\* A connection that keeps its place and its registry entries, or gives them
\* back; it may be closed.
Kept(d) ==
    /\ conns'[d].stage = conns[d].stage /\ conns'[d].peer = conns[d].peer
    /\ conns'[d].origin = conns[d].origin /\ conns'[d].pairing = conns[d].pairing
    /\ conns'[d].gen = conns[d].gen /\ (conns'[d].open => conns[d].open)
    /\ conns[d] = Free => conns'[d] = Free
    /\ pending'[d] # "none" => pending[d] # "none"
    /\ d \in sessions' => d \in sessions

\* A step of the loop gives one peer p the policy v and the dial o and moves at
\* most one connection c.  What it must respect of the connection that moves,
Moved(c, p) ==
    c \in Conns =>
        /\ StageOk(c)' /\ Dialled(c)' /\ Authorized(c)'
        /\ conns'[c].stage \in InFlight => conns[c].stage \in InFlight
        /\ pending'[c] # "none" => pending[c] # "none" \/ Cardinality(Records) < MaxPending
        /\ c \in sessions' => /\ conns'[c].peer = p
                              /\ \A d \in sessions' : conns'[d].peer = p => d = c

\* of the dial,
Redialled(p, o, c) ==
    /\ o # NoDial => o.conn \in Conns /\ (outbound[p] # NoDial \/ Cardinality(Dials) < MaxOutbound)
    /\ \/ o.conn = outbound[p].conn /\ o.pairing = outbound[p].pairing
       \/ outbound[p].conn \in {NoConn, c}

\* and of the policy.
Refitted(p, v) ==
    /\ v # Unmanaged => trust[p] = "Trusted"
    /\ trust[p] # "Trusted" => Quiet(p)'
    /\ v.suspended => ~v.due /\ Quiet(p)'
    /\ \A d \in sessions' : conns'[d].peer = p /\ conns'[d].open =>
           v.state = "Connected" /\ v.session = d /\ ~v.due
    /\ v # Unmanaged => connectivity[p] # Unmanaged \/ Cardinality(Managed(connectivity)) < MaxManagedPeers

LoopFrame(p) ==
    /\ state = "Running" /\ UNCHANGED <<state, trust, generations, restarts>> /\ routes' \subseteq Peers
    /\ invalidating \in {NoPeer, p} /\ invalidating' = NoPeer
    /\ invalidating = p => \A d \in Conns : conns[d].peer = p => d \notin sessions' /\ pending'[d] = "none"
    /\ conns' \in [Conns -> Connections] /\ pending' \in [Conns -> PendingRecords]
    /\ sessions' \subseteq Conns /\ Cardinality(sessions') <= MaxSessions

\* Such a step keeps the invariant.
LEMMA LoopMove ==
    ASSUME IInv, NEW p \in Peers, LoopFrame(p),
           NEW v \in ManagedPeers, connectivity' = [connectivity EXCEPT ![p] = v], Refitted(p, v),
           NEW c, \A d \in Conns : d # c => Kept(d), Moved(c, p),
           NEW o \in OutboundRecords, outbound' = [outbound EXCEPT ![p] = o], Redialled(p, o, c)
    PROVE  IInv'
<1> USE DEF LoopFrame, Refitted, Moved, Redialled
<1>1. /\ conns \in [Conns -> Connections] /\ TypeOK /\ outbound \in [Peers -> OutboundRecords]
      /\ connectivity \in [Peers -> ManagedPeers] /\ sessions \subseteq Conns
      /\ NoPeer \notin Peers /\ NoConn \notin Conns
  BY IdsAssumption DEF IInv, TypeOK
<1>2. /\ connectivity' \in [Peers -> ManagedPeers] /\ connectivity'[p] = v
      /\ \A q \in Peers : q # p => connectivity'[q] = connectivity[q]
      /\ outbound' \in [Peers -> OutboundRecords] /\ outbound'[p] = o
      /\ \A q \in Peers : q # p => outbound'[q] = outbound[q]
  BY <1>1
<1>3. TypeOK'
  BY <1>1, <1>2 DEF TypeOK
<1>4. StageInv'
  <2> SUFFICES ASSUME NEW d \in Conns, d # c PROVE StageOk(d)'
    BY DEF StageInv
  <2>1. StageOk(d) /\ Kept(d)
    BY DEF IInv, StageInv
  <2> QED BY <2>1, FreeFacts DEF StageOk, Kept
<1>5. StateInv'
  BY DEF StateInv
<1>6. DialInv'
  <2>1. ASSUME NEW d \in Conns, d # c PROVE Dialled(d)'
    <3>1. Dialled(d) /\ Kept(d) /\ StageOk(d)
      BY <2>1 DEF IInv, DialInv, StageInv
    <3> SUFFICES ASSUME conns[d].origin = "Outbound", conns[d].stage \in Working
                 PROVE  outbound'[conns[d].peer].conn = d
                        /\ outbound'[conns[d].peer].pairing = conns[d].pairing
      BY <3>1 DEF Dialled, Kept
    <3>2. conns[d].peer \in Peers
      BY <3>1, StageFacts DEF StageOk
    <3>3. outbound[conns[d].peer].conn = d /\ outbound[conns[d].peer].pairing = conns[d].pairing
      BY <3>1 DEF Dialled
    <3>4. CASE conns[d].peer = p
      BY <1>1, <1>2, <2>1, <3>3, <3>4
    <3>5. CASE conns[d].peer # p
      BY <1>2, <3>2, <3>3, <3>5
    <3> QED BY <3>4, <3>5
  <2>2. ASSUME NEW q \in Peers, outbound'[q] # NoDial PROVE outbound'[q].conn \in Conns
    BY <1>2, <2>2 DEF IInv, DialInv
  <2> QED BY <2>1, <2>2 DEF DialInv
<1>7. SessionInv'
  <2>1. ASSUME NEW d \in Conns, d # c PROVE Authorized(d)'
    <3> SUFFICES ASSUME d \in sessions' \/ pending'[d] # "none" PROVE Authorized(d)'
      BY DEF Authorized
    <3>1. Authorized(d) /\ StageOk(d) /\ Kept(d)
      BY <2>1 DEF IInv, SessionInv, StageInv
    <3>2. conns[d].peer \in Peers
      BY <3>1, StageFacts DEF StageOk, Kept
    <3>3. conns[d].peer # invalidating
      BY <1>1, <3>2
    <3> QED BY <3>1, <3>2, <3>3 DEF Authorized, Kept
  <2>2. ASSUME NEW d \in sessions', NEW e \in sessions', conns'[d].peer = conns'[e].peer PROVE d = e
    <3>1. CASE d = c \/ e = c
      BY <2>2, <3>1
    <3>2. CASE d # c /\ e # c
      <4>1. Kept(d) /\ Kept(e)
        BY <3>2
      <4>2. d \in sessions /\ e \in sessions /\ conns[d].peer = conns[e].peer
        BY <2>2, <4>1 DEF Kept
      <4> QED BY <4>2 DEF IInv, SessionInv
    <3> QED BY <3>1, <3>2
  <2> QED BY <2>1, <2>2 DEF SessionInv
<1>8. PolicyInv'
  <2> SUFFICES ASSUME NEW q \in Peers PROVE PolicyOk(q)'
    BY DEF PolicyInv
  <2>1. CASE q = p
    BY <1>2, <2>1 DEF PolicyOk
  <2>2. CASE q # p
    <3>1. PolicyOk(q) /\ q # invalidating
      BY <1>1, <2>2 DEF IInv, PolicyInv
    <3>2. connectivity'[q] = connectivity[q] /\ outbound'[q] = outbound[q] /\ Quiet(q)' = Quiet(q)
      BY <1>2, <2>2 DEF Quiet
    <3>3. ASSUME NEW d \in sessions', conns'[d].peer = q, conns'[d].open
          PROVE  d \in sessions /\ conns[d].peer = q /\ conns[d].open
      <4>1. d # c /\ Kept(d)
        BY <2>2, <3>3
      <4> QED BY <3>3, <4>1 DEF Kept
    <3> QED BY <3>1, <3>2, <3>3 DEF PolicyOk
  <2> QED BY <2>1, <2>2
<1>9. CountInv'
  <2>0. /\ IsFiniteSet(PairingsInFlight) /\ IsFiniteSet(Records) /\ IsFiniteSet(Dials)
        /\ IsFiniteSet(Managed(connectivity))
        /\ MaxPending \in Nat /\ MaxOutbound \in Nat /\ MaxSessions \in Nat /\ MaxManagedPeers \in Nat
    BY <1>1, Finite
  <2>1. Cardinality(PairingsInFlight') <= MaxPending
    <3>1. PairingsInFlight' \subseteq PairingsInFlight
      BY DEF PairingsInFlight, InFlight, Kept
    <3> QED BY <2>0, <3>1, CountPart DEF IInv, CountInv
  <2>2. Cardinality(Records') <= MaxPending
    <3>1. CASE c \in Conns /\ pending'[c] # "none" /\ Cardinality(Records) < MaxPending
      <4>1. Records' \subseteq Records \cup {c}
        BY DEF Records, Kept
      <4> QED BY <2>0, <3>1, <4>1, CountOneMore
    <3>2. CASE ~(c \in Conns /\ pending'[c] # "none" /\ Cardinality(Records) < MaxPending)
      <4>1. Records' \subseteq Records
        BY <3>2 DEF Records, Kept
      <4> QED BY <2>0, <4>1, CountPart DEF IInv, CountInv
    <3> QED BY <3>1, <3>2
  <2>3. Cardinality(Dials') <= MaxOutbound
    <3>1. CASE o # NoDial /\ Cardinality(Dials) < MaxOutbound
      <4>1. Dials' \subseteq Dials \cup {p}
        BY <1>2 DEF Dials
      <4> QED BY <2>0, <3>1, <4>1, CountOneMore
    <3>2. CASE ~(o # NoDial /\ Cardinality(Dials) < MaxOutbound)
      <4>1. Dials' \subseteq Dials
        BY <1>2, <3>2 DEF Dials
      <4> QED BY <2>0, <4>1, CountPart DEF IInv, CountInv
    <3> QED BY <3>1, <3>2
  <2>4. Cardinality(Managed(connectivity')) <= MaxManagedPeers
    <3>1. CASE v # Unmanaged /\ Cardinality(Managed(connectivity)) < MaxManagedPeers
      <4>1. Managed(connectivity') \subseteq Managed(connectivity) \cup {p}
        BY <1>2 DEF Managed
      <4> QED BY <2>0, <3>1, <4>1, CountOneMore
    <3>2. CASE ~(v # Unmanaged /\ Cardinality(Managed(connectivity)) < MaxManagedPeers)
      <4>1. Managed(connectivity') \subseteq Managed(connectivity)
        BY <1>2, <3>2 DEF Managed
      <4> QED BY <2>0, <4>1, CountPart DEF IInv, CountInv
    <3> QED BY <3>1, <3>2
  <2>5. Managed(connectivity)' = Managed(connectivity')
    BY DEF Managed
  <2> QED BY <2>1, <2>2, <2>3, <2>4, <2>5 DEF CountInv
<1> QED BY <1>3, <1>4, <1>5, <1>6, <1>7, <1>8, <1>9 DEF IInv

-----------------------------------------------------------------------------
(* Policy of one peer *)

\* The values a policy starts from.
LEMMA PolicyValues ==
    /\ Unmanaged \in ManagedPeers /\ Unmanaged.state = "Unmanaged" /\ Unmanaged.session = NoConn
    /\ Unmanaged.due = FALSE /\ Unmanaged.suspended = FALSE
    /\ NewPeer \in ManagedPeers /\ NewPeer # Unmanaged /\ NewPeer.suspended = FALSE
<1>1. "Unmanaged" \in ConnectivityStates \cup {"Unmanaged"} /\ "Disconnected" \in ConnectivityStates
  BY DEF ConnectivityStates
<1> QED BY <1>1 DEF Unmanaged, NewPeer, ManagedPeers

\* A failure keeps the session and the suspension.
LEMMA FailedFacts ==
    ASSUME NEW w \in ManagedPeers, NEW f \in Failures
    PROVE  /\ failed(w, f) \in ManagedPeers /\ failed(w, f).state \in {"Unresolved", "Backoff", "Blocked"}
           /\ failed(w, f).session = w.session /\ failed(w, f).suspended = w.suspended
           /\ f = "Retryable" => failed(w, f).state = "Backoff"
<1>1. {"Backoff", "Unresolved", "Blocked"} \subseteq ConnectivityStates
  BY DEF ConnectivityStates
<1>2. CASE f = "Unresolved"
  BY <1>1, <1>2 DEF failed, ManagedPeers
<1>3. CASE f = "Retryable"
  BY <1>1, <1>3 DEF failed, ManagedPeers
<1>4. CASE f = "Fatal"
  BY <1>1, <1>4 DEF failed, ManagedPeers
<1> QED BY <1>2, <1>3, <1>4 DEF Failures

\* A registered session takes the deadline away and keeps the suspension.
LEMMA ConnectedFacts ==
    ASSUME NEW w \in ManagedPeers, NEW c \in Conns
    PROVE  /\ connected(w, c) \in ManagedPeers /\ connected(w, c).state = "Connected"
           /\ connected(w, c).session = c /\ connected(w, c).due = FALSE
           /\ connected(w, c).suspended = w.suspended
<1>1. "Connected" \in ConnectivityStates
  BY DEF ConnectivityStates
<1> QED BY <1>1 DEF connected, ManagedPeers

\* What each other operation of the policy does to the fields.
LEMMA PolicyOps ==
    ASSUME NEW w \in ManagedPeers
    PROVE  /\ lost(w) \in ManagedPeers /\ lost(w).state \in {"Suspended", "Backoff"}
           /\ lost(w).session = NoConn /\ lost(w).suspended = w.suspended
           /\ w.suspended => ~lost(w).due
           /\ resume(w) \in ManagedPeers /\ resume(w).suspended = FALSE /\ resume(w).session = w.session
           /\ w.session # NoConn => resume(w).state = w.state /\ resume(w).due = w.due
           /\ w.session = NoConn => resume(w).state = "Disconnected"
           /\ suspend(w) \in ManagedPeers /\ suspend(w).suspended = TRUE
           /\ connecting(w) \in ManagedPeers /\ connecting(w).state = "Connecting"
           /\ connecting(w).due = FALSE /\ connecting(w).suspended = w.suspended
<1>1. /\ {"Disconnected", "Connecting", "Connected", "Backoff", "Suspended", "Unresolved", "Blocked"}
             \subseteq ConnectivityStates
  BY DEF ConnectivityStates
<1>2. w.state \in ConnectivityStates \cup {"Unmanaged"} /\ w.due \in BOOLEAN /\ w.suspended \in BOOLEAN
  BY DEF ManagedPeers
<1>4. /\ lost(w) \in ManagedPeers /\ lost(w).state \in {"Suspended", "Backoff"}
      /\ lost(w).session = NoConn /\ lost(w).suspended = w.suspended
      /\ w.suspended => ~lost(w).due
  <2>1. CASE w.suspended
    BY <1>1, <1>2, <2>1 DEF lost, ManagedPeers
  <2>2. CASE ~w.suspended
    <3> DEFINE u == [w EXCEPT !.session = NoConn]
    <3>1. u \in ManagedPeers /\ u.session = NoConn /\ u.suspended = w.suspended
      BY DEF ManagedPeers
    <3>2. lost(w) = failed(u, "Retryable") /\ "Retryable" \in Failures
      BY <2>2 DEF lost, Failures
    <3> HIDE DEF u
    <3> QED BY <2>2, <3>1, <3>2, FailedFacts
  <2> QED BY <2>1, <2>2
<1>5. /\ resume(w) \in ManagedPeers /\ resume(w).suspended = FALSE /\ resume(w).session = w.session
      /\ w.session # NoConn => resume(w).state = w.state /\ resume(w).due = w.due
      /\ w.session = NoConn => resume(w).state = "Disconnected"
  BY <1>1, <1>2 DEF resume, ManagedPeers
<1>6. suspend(w) \in ManagedPeers /\ suspend(w).suspended = TRUE
  BY <1>1, <1>2 DEF suspend, ManagedPeers
<1>7. /\ connecting(w) \in ManagedPeers /\ connecting(w).state = "Connecting"
      /\ connecting(w).due = FALSE /\ connecting(w).suspended = w.suspended
  BY <1>1, <1>2 DEF connecting, ManagedPeers
<1> QED BY <1>4, <1>5, <1>6, <1>7

\* A policy the peer may have while its sessions and its dial stay as they are.
Fits(p, v) ==
    /\ v \in ManagedPeers
    /\ v # Unmanaged => trust[p] = "Trusted"
    /\ v.suspended => ~v.due /\ Quiet(p)
    /\ \A d \in canonical_session(p) : v.state = "Connected" /\ v.session = d /\ ~v.due
    /\ v # Unmanaged => connectivity[p] # Unmanaged \/ Cardinality(Managed(connectivity)) < MaxManagedPeers

\* The policy it has is one.
LEMMA PolicyFits ==
    ASSUME IInv, Running, NEW p \in Peers
    PROVE  /\ Fits(p, connectivity[p]) /\ connectivity \in [Peers -> ManagedPeers]
           /\ trust[p] # "Trusted" => connectivity[p] = Unmanaged /\ Quiet(p)
<1>1. TypeOK /\ PolicyOk(p) /\ p # invalidating
  BY IdsAssumption DEF IInv, PolicyInv, Running
<1> QED BY <1>1 DEF TypeOK, PolicyOk, Fits, canonical_session

\* A step that changes a policy, and nothing else but the hints.
LEMMA PolicyOnly ==
    ASSUME IInv, Running, NEW p \in Peers, NEW v, Fits(p, v),
           connectivity' = [connectivity EXCEPT ![p] = v], routes' \subseteq Peers,
           UNCHANGED <<state, trust, generations, conns, sessions, pending, outbound, invalidating, restarts>>
    PROVE  IInv'
<1>1. /\ TypeOK /\ outbound \in [Peers -> OutboundRecords] /\ outbound[p] \in OutboundRecords
      /\ NoConn \notin Conns
  BY IdsAssumption DEF IInv, TypeOK
<1>2. PICK o \in OutboundRecords : o = outbound[p]
  BY <1>1
<1>3. outbound' = [outbound EXCEPT ![p] = o] /\ Quiet(p)' = Quiet(p)
  BY <1>1, <1>2 DEF Quiet
<1>4. \A d \in Conns : Kept(d)
  BY DEF Kept
<1>5. Refitted(p, v) /\ v \in ManagedPeers
  <2>1. trust[p] # "Trusted" => Quiet(p)
    BY PolicyFits
  <2> QED BY <1>3, <2>1 DEF Fits, canonical_session, Refitted
<1>6. Redialled(p, o, NoConn)
  BY <1>2 DEF IInv, DialInv, Redialled
<1>7. LoopFrame(p)
  BY <1>1, IdsAssumption DEF TypeOK, IInv, CountInv, Running, LoopFrame
<1>8. Moved(NoConn, p)
  BY <1>1 DEF Moved
<1> QED BY <1>2, <1>3, <1>4, <1>5, <1>6, <1>7, <1>8, LoopMove

\* A trusted peer is managed when there is room, with a policy that fits.
LEMMA InsertFits ==
    ASSUME IInv, Running, NEW p \in Peers, NEW w, Fits(p, w), w = Unmanaged => connectivity[p] = Unmanaged,
           trust[p] = "Trusted", insertable([connectivity EXCEPT ![p] = w], p)
    PROVE  LET w1 == IF w = Unmanaged THEN NewPeer ELSE w IN
           /\ insert([connectivity EXCEPT ![p] = w], p) = [connectivity EXCEPT ![p] = w1]
           /\ Fits(p, w1) /\ w1 # Unmanaged /\ w1.suspended = w.suspended
<1> DEFINE cx == [connectivity EXCEPT ![p] = w]
           w1 == IF w = Unmanaged THEN NewPeer ELSE w
<1>0. /\ TypeOK /\ connectivity \in [Peers -> ManagedPeers] /\ w \in ManagedPeers
      /\ cx \in [Peers -> ManagedPeers] /\ cx[p] = w
  BY DEF IInv, TypeOK, Fits
<1>1. CASE w = Unmanaged
  <2>1. Cardinality(Managed(connectivity)) < MaxManagedPeers
    <3>1. cx = connectivity
      BY <1>0, <1>1
    <3>2. Cardinality(Managed(connectivity)) # MaxManagedPeers
      BY <1>1, <3>1 DEF insertable
    <3>3. Cardinality(Managed(connectivity)) \in Nat /\ MaxManagedPeers \in Nat
          /\ Cardinality(Managed(connectivity)) <= MaxManagedPeers
      BY <1>0, Finite, FS_CardinalityType DEF IInv, CountInv
    <3> QED BY <3>2, <3>3
  <2>2. insert(cx, p) = [cx EXCEPT ![p] = NewPeer] /\ w1 = NewPeer
    BY <1>0, <1>1 DEF insert
  <2>3. insert(cx, p) = [connectivity EXCEPT ![p] = w1]
    BY <1>0, <2>2
  <2>4. canonical_session(p) = {}
    BY <1>1, PolicyValues DEF Fits
  <2>5. Fits(p, w1) /\ w1 # Unmanaged /\ w1.suspended = w.suspended
    BY <1>1, <2>1, <2>2, <2>4, PolicyValues DEF Fits
  <2> QED BY <2>3, <2>5
<1>2. CASE w # Unmanaged
  <2>1. insert(cx, p) = cx /\ w1 = w
    BY <1>0, <1>2 DEF insert
  <2> QED BY <1>2, <2>1
<1> QED BY <1>1, <1>2

-----------------------------------------------------------------------------
(* Outbound work *)

\* The outcomes of a session dial: refused, joined to the dial in progress, or
\* a new one, which only a trusted peer that is not suspended gets.
DialOutcome(p, v) ==
    \/ UNCHANGED <<conns, outbound>>
    \/ /\ ~v.suspended /\ trust[p] = "Trusted" /\ outbound[p] # NoDial
       /\ ~OutboundBusy(p) /\ UNCHANGED conns
       /\ \E r \in {0, 1} : outbound' = [outbound EXCEPT ![p].replies = @ + r]
    \/ /\ ~v.suspended /\ trust[p] = "Trusted" /\ outbound[p] = NoDial
       /\ ~OutboundFull /\ \E r \in {0, 1} : Spawn(p, FALSE, r)

\* A session dial has one of them, and leaves a policy that fits.
LEMMA DialFacts ==
    ASSUME IInv, Running, NEW p \in Peers, NEW w, Fits(p, w), w = Unmanaged => connectivity[p] = Unmanaged,
           NEW manual \in BOOLEAN, manual \/ ~w.suspended, NEW known \in BOOLEAN,
           DialSession(p, [connectivity EXCEPT ![p] = w], manual, known)
    PROVE  \E v : /\ Fits(p, v) /\ connectivity' = [connectivity EXCEPT ![p] = v]
                  /\ DialOutcome(p, v)
<1> DEFINE cx == [connectivity EXCEPT ![p] = w]
           healthy == canonical_session(p) # {}
           w1 == IF w = Unmanaged THEN NewPeer ELSE w
           w2 == IF manual THEN resume(w1) ELSE w1
           inserted == insert(cx, p)
           resumed == IF manual THEN [inserted EXCEPT ![p] = resume(@)] ELSE inserted
           replies == IF manual THEN 1 ELSE 0
           Result(v) == Fits(p, v) /\ connectivity' = [connectivity EXCEPT ![p] = v]
<1>0. /\ TypeOK /\ connectivity \in [Peers -> ManagedPeers] /\ NoConn \notin Conns /\ w \in ManagedPeers
      /\ cx \in [Peers -> ManagedPeers] /\ cx[p] = w
  BY IdsAssumption DEF IInv, TypeOK, Fits
<1>2. ASSUME trust[p] = "Trusted", insertable(cx, p)
      PROVE  /\ inserted = [connectivity EXCEPT ![p] = w1] /\ Fits(p, w1) /\ w1 # Unmanaged
             /\ manual \/ ~w1.suspended
             /\ resumed = [connectivity EXCEPT ![p] = w2] /\ Fits(p, w2) /\ w2 # Unmanaged /\ ~w2.suspended
  <2>3. inserted = [connectivity EXCEPT ![p] = w1] /\ Fits(p, w1) /\ w1 # Unmanaged /\ (manual \/ ~w1.suspended)
    BY <1>2, InsertFits
  <2> HIDE DEF w1, inserted
  <2>4. w1 \in ManagedPeers
    BY <2>3 DEF Fits
  <2>5. resumed = [connectivity EXCEPT ![p] = w2]
    BY <1>0, <2>3
  <2>6. CASE ~manual
    BY <2>3, <2>5, <2>6
  <2>7. CASE manual
    <3>1. /\ resume(w1) \in ManagedPeers /\ resume(w1).suspended = FALSE /\ resume(w1).session = w1.session
          /\ w1.session # NoConn => resume(w1).state = w1.state /\ resume(w1).due = w1.due
          /\ w1.session = NoConn => resume(w1).state = "Disconnected"
      BY <2>4, PolicyOps
    <3>2. resume(w1) # Unmanaged
      BY <3>1, PolicyValues
    <3>3. \A d \in canonical_session(p) : d \in Conns
      BY <1>0 DEF canonical_session, TypeOK
    <3>4. Fits(p, resume(w1))
      BY <1>0, <1>2, <2>3, <3>1, <3>3 DEF Fits
    <3> QED BY <2>3, <2>5, <2>7, <3>1, <3>2, <3>4
  <2> QED BY <2>3, <2>6, <2>7
<1>3. ASSUME trust[p] = "Trusted", insertable(cx, p), ~healthy
      PROVE  /\ Fits(p, connecting(w2)) /\ ~connecting(w2).suspended
             /\ [resumed EXCEPT ![p] = connecting(@)] = [connectivity EXCEPT ![p] = connecting(w2)]
             /\ \A f \in Failures :
                   /\ Fits(p, failed(w2, f))
                   /\ connectivity_failed(resumed, p, f) = [connectivity EXCEPT ![p] = failed(w2, f)]
  <2>1. /\ resumed = [connectivity EXCEPT ![p] = w2] /\ Fits(p, w2) /\ w2 # Unmanaged /\ ~w2.suspended
    BY <1>2, <1>3
  <2> HIDE DEF w2, resumed
  <2>2. resumed[p] = w2 /\ w2 \in ManagedPeers
    BY <1>0, <2>1 DEF Fits
  <2>3. Fits(p, connecting(w2)) /\ ~connecting(w2).suspended
    BY <1>3, <2>1, <2>2, PolicyOps DEF Fits
  <2>4. [resumed EXCEPT ![p] = connecting(@)] = [connectivity EXCEPT ![p] = connecting(w2)]
    BY <1>0, <2>1, <2>2
  <2>5. ASSUME NEW f \in Failures PROVE Fits(p, failed(w2, f))
    <3>1. failed(w2, f) \in ManagedPeers /\ failed(w2, f).suspended = w2.suspended
      BY <2>2, FailedFacts
    <3>2. ~failed(w2, f).suspended
      BY <2>1, <3>1
    <3> QED BY <1>3, <2>1, <3>1, <3>2 DEF Fits
  <2>6. ASSUME NEW f \in Failures
        PROVE  connectivity_failed(resumed, p, f) = [connectivity EXCEPT ![p] = failed(w2, f)]
    <3>1. connectivity_failed(resumed, p, f) = [resumed EXCEPT ![p] = failed(@, f)]
      BY <2>1, <2>2 DEF connectivity_failed, WithPeer
    <3> HIDE DEF failed
    <3> QED BY <1>0, <2>1, <2>2, <3>1
  <2> QED BY <2>3, <2>4, <2>5, <2>6
<1>4. ASSUME Refused(p, cx, "Fatal") \/ Refused(p, cx, "Retryable"), w = Unmanaged \/ outbound[p] # NoDial
      PROVE  Result(w)
  <2>1. connectivity_failed(cx, p, "Fatal") = cx \/ outbound[p] # NoDial
    BY <1>0, <1>4 DEF connectivity_failed, WithPeer
  <2>2. connectivity_failed(cx, p, "Retryable") = cx \/ outbound[p] # NoDial
    BY <1>0, <1>4 DEF connectivity_failed, WithPeer
  <2> QED BY <1>4, <2>1, <2>2 DEF Refused
<1>5. replies \in {0, 1} /\ {"Retryable", "Unresolved"} \subseteq Failures
  BY DEF Failures
<1>6. outbound[p].cancelled => outbound[p] # NoDial
  BY DEF NoDial
<1>7. /\ trust[p] # "Trusted" => w = Unmanaged
      /\ ~insertable(cx, p) => w = Unmanaged
  BY <1>0 DEF Fits, insertable
<1> SUFFICES \E v : Result(v) /\ DialOutcome(p, v)
  OBVIOUS
<1> HIDE DEF cx, w1, w2, inserted, resumed, replies, Result
<1>8. \/ Result(w) /\ UNCHANGED <<conns, outbound>>
      \/ /\ trust[p] = "Trusted" /\ insertable(cx, p) /\ outbound[p] # NoDial
         /\ Refused(p, inserted, "Retryable") /\ UNCHANGED <<conns, outbound>>
      \/ trust[p] = "Trusted" /\ insertable(cx, p) /\ connectivity' = resumed /\ UNCHANGED <<conns, outbound>>
      \/ /\ trust[p] = "Trusted" /\ insertable(cx, p) /\ ~healthy /\ outbound[p] # NoDial /\ ~OutboundBusy(p)
         /\ connectivity' = [resumed EXCEPT ![p] = connecting(@)]
         /\ outbound' = [outbound EXCEPT ![p].replies = @ + replies] /\ UNCHANGED conns
      \/ /\ trust[p] = "Trusted" /\ insertable(cx, p) /\ ~healthy /\ outbound[p] = NoDial
         /\ Refused(p, resumed, "Retryable") \/ Refused(p, resumed, "Unresolved")
         /\ UNCHANGED <<conns, outbound>>
      \/ /\ trust[p] = "Trusted" /\ insertable(cx, p) /\ ~healthy /\ outbound[p] = NoDial
         /\ ~OutboundFull /\ Spawn(p, FALSE, replies)
         /\ connectivity' = [resumed EXCEPT ![p] = connecting(@)]
  <2>1. purpose_allowed(p, FALSE) <=> trust[p] = "Trusted"
    BY DEF purpose_allowed
  <2>2. OutboundBusy(p) => outbound[p] # NoDial
    BY DEF OutboundBusy
  <2>3. DialSession(p, cx, manual, known)
    BY DEF cx
  <2> HIDE DEF healthy
  <2> QED BY <1>4, <1>6, <1>7, <2>1, <2>2, <2>3 DEF DialSession, inserted, resumed, replies, healthy
<1>9. CASE Result(w) /\ UNCHANGED <<conns, outbound>>
  BY <1>9 DEF DialOutcome
<1>10. CASE /\ trust[p] = "Trusted" /\ insertable(cx, p) /\ outbound[p] # NoDial
            /\ Refused(p, inserted, "Retryable") /\ UNCHANGED <<conns, outbound>>
  <2>1. Result(w1)
    BY <1>2, <1>10 DEF Refused, Result
  <2> QED BY <1>10, <2>1 DEF DialOutcome
<1>11. CASE trust[p] = "Trusted" /\ insertable(cx, p) /\ connectivity' = resumed /\ UNCHANGED <<conns, outbound>>
  <2>1. Result(w2)
    BY <1>2, <1>11 DEF Result
  <2> QED BY <1>11, <2>1 DEF DialOutcome
<1>12. CASE /\ trust[p] = "Trusted" /\ insertable(cx, p) /\ ~healthy /\ outbound[p] # NoDial /\ ~OutboundBusy(p)
            /\ connectivity' = [resumed EXCEPT ![p] = connecting(@)]
            /\ outbound' = [outbound EXCEPT ![p].replies = @ + replies] /\ UNCHANGED conns
  <2>1. Result(connecting(w2)) /\ ~connecting(w2).suspended
    BY <1>3, <1>12 DEF Result
  <2>2. \E r \in {0, 1} : outbound' = [outbound EXCEPT ![p].replies = @ + r]
    BY <1>5, <1>12
  <2> QED BY <1>12, <2>1, <2>2 DEF DialOutcome
<1>13. CASE /\ trust[p] = "Trusted" /\ insertable(cx, p) /\ ~healthy /\ outbound[p] = NoDial
            /\ Refused(p, resumed, "Retryable") \/ Refused(p, resumed, "Unresolved")
            /\ UNCHANGED <<conns, outbound>>
  <2>1. Result(failed(w2, "Retryable")) \/ Result(failed(w2, "Unresolved"))
    BY <1>3, <1>5, <1>13 DEF Refused, Result
  <2> QED BY <1>13, <2>1 DEF DialOutcome
<1>14. CASE /\ trust[p] = "Trusted" /\ insertable(cx, p) /\ ~healthy /\ outbound[p] = NoDial
            /\ ~OutboundFull /\ Spawn(p, FALSE, replies)
            /\ connectivity' = [resumed EXCEPT ![p] = connecting(@)]
  <2>1. Result(connecting(w2)) /\ ~connecting(w2).suspended
    BY <1>3, <1>14 DEF Result
  <2>2. \E r \in {0, 1} : Spawn(p, FALSE, r)
    BY <1>5, <1>14
  <2> QED BY <1>14, <2>1, <2>2 DEF DialOutcome
<1> QED BY <1>8, <1>9, <1>10, <1>11, <1>12, <1>13, <1>14

\* A new dial, for a session of a trusted peer that is not suspended or for a pairing.
LEMMA SpawnIInv ==
    ASSUME IInv, Running, NEW p \in Peers, NEW v, Fits(p, v), NEW pairing \in BOOLEAN, NEW r \in {0, 1},
           pairing \/ (~v.suspended /\ trust[p] = "Trusted"),
           outbound[p] = NoDial, ~OutboundFull, Spawn(p, pairing, r),
           connectivity' = [connectivity EXCEPT ![p] = v], routes' \subseteq Peers,
           UNCHANGED <<state, trust, generations, sessions, pending, invalidating, restarts>>
    PROVE  IInv'
<1>1. /\ TypeOK /\ outbound \in [Peers -> OutboundRecords] /\ conns \in [Conns -> Connections]
      /\ NoConn \notin Conns /\ NoPeer \notin Peers
  BY IdsAssumption DEF IInv, TypeOK
<1>2. PICK c \in Conns :
        /\ conns[c] = Free
        /\ conns' = [conns EXCEPT ![c] = [Free EXCEPT !.stage = "dialing", !.peer = p,
                                             !.origin = "Outbound", !.pairing = pairing]]
        /\ outbound' = [outbound EXCEPT ![p] = [conn |-> c, pairing |-> pairing,
                                                replies |-> r, cancelled |-> FALSE]]
  BY DEF Spawn
<1>3. PICK k \in Connections :
        /\ conns' = [conns EXCEPT ![c] = k] /\ k.stage = "dialing" /\ k.peer = p
        /\ k.origin = "Outbound" /\ k.pairing = pairing
  <2> DEFINE k == [Free EXCEPT !.stage = "dialing", !.peer = p, !.origin = "Outbound", !.pairing = pairing]
  <2>1. /\ k \in Connections /\ k.stage = "dialing" /\ k.peer = p
        /\ k.origin = "Outbound" /\ k.pairing = pairing
    BY FreeFacts, StageFacts DEF Connections
  <2> QED BY <1>2, <2>1
<1>4. PICK o \in OutboundRecords :
        /\ outbound' = [outbound EXCEPT ![p] = o] /\ o.conn = c /\ o.pairing = pairing
  <2> DEFINE o == [conn |-> c, pairing |-> pairing, replies |-> r, cancelled |-> FALSE]
  <2>1. r \in 0..MaxWaiters
    BY BoundsAssumption
  <2>2. o \in OutboundRecords
    BY <2>1 DEF OutboundRecords
  <2> QED BY <1>2, <2>2
<1>5. /\ conns' \in [Conns -> Connections] /\ conns'[c] = k
      /\ \A d \in Conns : d # c => conns'[d] = conns[d]
      /\ outbound'[p] = o
  BY <1>1, <1>3, <1>4
<1>6. \A d \in Conns : d # c => Kept(d)
  BY <1>5 DEF Kept
<1>7. c \notin sessions /\ pending[c] = "none"
  BY <1>2, FreeFacts, StageFacts DEF IInv, StageInv, StageOk
<1>8. Refitted(p, v) /\ v \in ManagedPeers
  <2>1. Quiet(p)' \/ (~v.suspended /\ trust[p] = "Trusted")
    BY <1>4, <1>5 DEF Quiet
  <2>2. \A d \in sessions : conns'[d].peer = p /\ conns'[d].open => d \in canonical_session(p)
    <3> SUFFICES ASSUME NEW d \in sessions PROVE conns'[d] = conns[d]
      BY DEF canonical_session
    <3> QED BY <1>1, <1>5, <1>7 DEF TypeOK
  <2> QED BY <2>1, <2>2 DEF Fits, Refitted
<1>9. Redialled(p, o, c)
  <2>1. outbound[p].conn = NoConn
    BY DEF NoDial
  <2>2. Cardinality(Dials) \in Nat /\ MaxOutbound \in Nat
    BY <1>1, Finite, FS_CardinalityType
  <2>3. Cardinality(Dials) < MaxOutbound
    BY <2>2 DEF OutboundFull
  <2> QED BY <1>4, <2>1, <2>3 DEF Redialled
<1>10. LoopFrame(p)
  BY <1>1, <1>5 DEF TypeOK, IInv, CountInv, Running, LoopFrame
<1>11. Moved(c, p)
  <2>1. StageOk(c)'
    BY <1>3, <1>5, <1>7 DEF StageOk
  <2>2. Dialled(c)'
    BY <1>3, <1>4, <1>5 DEF Dialled
  <2>3. Authorized(c)'
    BY <1>7 DEF Authorized
  <2>4. conns'[c].stage \notin InFlight
    BY <1>3, <1>5, StageFacts
  <2> QED BY <1>7, <2>1, <2>2, <2>3, <2>4 DEF Moved
<1> QED BY <1>4, <1>6, <1>8, <1>9, <1>10, <1>11, LoopMove

\* One waiter more on the dial of a peer that is not suspended.
LEMMA ReplyIInv ==
    ASSUME IInv, Running, NEW p \in Peers, NEW v, Fits(p, v), NEW r \in {0, 1},
           ~v.suspended, trust[p] = "Trusted", outbound[p] # NoDial, ~OutboundBusy(p),
           outbound' = [outbound EXCEPT ![p].replies = @ + r],
           connectivity' = [connectivity EXCEPT ![p] = v], routes' \subseteq Peers,
           UNCHANGED <<state, trust, generations, conns, sessions, pending, invalidating, restarts>>
    PROVE  IInv'
<1>1. /\ TypeOK /\ outbound \in [Peers -> OutboundRecords] /\ outbound[p] \in OutboundRecords
      /\ NoConn \notin Conns /\ NoPeer \notin Peers /\ MaxWaiters \in Nat
  BY IdsAssumption, BoundsAssumption DEF IInv, TypeOK
<1>2. PICK o \in OutboundRecords :
        /\ outbound' = [outbound EXCEPT ![p] = o] /\ o.conn = outbound[p].conn /\ o.pairing = outbound[p].pairing
  <2> DEFINE o == [outbound[p] EXCEPT !.replies = @ + r]
  <2>1. outbound[p].replies + r \in 0..MaxWaiters
    BY <1>1 DEF OutboundBusy, OutboundRecords
  <2>2. o \in OutboundRecords /\ o.conn = outbound[p].conn /\ o.pairing = outbound[p].pairing
    BY <1>1, <2>1 DEF OutboundRecords
  <2>3. outbound' = [outbound EXCEPT ![p] = o]
    BY <1>1
  <2> HIDE DEF o
  <2> QED BY <2>2, <2>3
<1>3. \A d \in Conns : Kept(d)
  BY DEF Kept
<1>4. Refitted(p, v) /\ v \in ManagedPeers
  BY DEF Fits, Refitted, canonical_session
<1>5. Redialled(p, o, NoConn)
  BY <1>2 DEF IInv, DialInv, Redialled
<1>6. LoopFrame(p)
  BY <1>1 DEF TypeOK, IInv, CountInv, Running, LoopFrame
<1>7. Moved(NoConn, p)
  BY <1>1 DEF Moved
<1> QED BY <1>2, <1>3, <1>4, <1>5, <1>6, <1>7, LoopMove

\* Dials and hints: take_due, ConnectPeer, BeginPairing and RememberPeer.
LEMMA OutboundIInv ==
    ASSUME IInv, NEW p \in Peers,
           \/ take_due(p) \/ RememberPeer(p)
           \/ \E hinted \in BOOLEAN : ConnectPeer(p, hinted) \/ BeginPairing(p, hinted)
    PROVE  IInv'
<1>1. /\ TypeOK /\ connectivity \in [Peers -> ManagedPeers] /\ connectivity[p] \in ManagedPeers
      /\ routes \subseteq Peers /\ NoConn \notin Conns
      /\ connectivity[p].suspended \in BOOLEAN
  <2>1. TypeOK /\ connectivity[p] \in ManagedPeers
    BY DEF IInv, TypeOK
  <2> QED BY <2>1, IdsAssumption DEF TypeOK, ManagedPeers
<1>2. Running
  BY DEF take_due, RememberPeer, ConnectPeer, BeginPairing
<1>3. /\ Fits(p, connectivity[p])
      /\ trust[p] # "Trusted" => connectivity[p] = Unmanaged /\ Quiet(p)
  BY <1>2, PolicyFits
<1>4. \A d \in canonical_session(p) : d \in Conns
  BY <1>1 DEF TypeOK, canonical_session
<1>5. ASSUME NEW w, Fits(p, w), w = Unmanaged => connectivity[p] = Unmanaged,
             NEW manual \in BOOLEAN, manual \/ ~w.suspended, NEW known \in BOOLEAN,
             DialSession(p, [connectivity EXCEPT ![p] = w], manual, known), routes' \subseteq Peers,
             UNCHANGED <<state, trust, generations, sessions, pending, invalidating, restarts>>
      PROVE  IInv'
  <2>1. PICK v : /\ Fits(p, v) /\ connectivity' = [connectivity EXCEPT ![p] = v]
                 /\ DialOutcome(p, v)
    BY <1>2, <1>5, DialFacts
  <2>2. CASE UNCHANGED <<conns, outbound>>
    BY <1>2, <1>5, <2>1, <2>2, PolicyOnly
  <2>3. CASE /\ ~v.suspended /\ trust[p] = "Trusted" /\ outbound[p] # NoDial
             /\ ~OutboundBusy(p) /\ UNCHANGED conns
             /\ \E r \in {0, 1} : outbound' = [outbound EXCEPT ![p].replies = @ + r]
    BY <1>2, <1>5, <2>1, <2>3, ReplyIInv
  <2>4. CASE /\ ~v.suspended /\ trust[p] = "Trusted" /\ outbound[p] = NoDial
             /\ ~OutboundFull /\ \E r \in {0, 1} : Spawn(p, FALSE, r)
    BY <1>2, <1>5, <2>1, <2>4, SpawnIInv
  <2> QED BY <2>1, <2>2, <2>3, <2>4 DEF DialOutcome
<1>6. CASE take_due(p)
  <2>1. /\ connectivity[p] # Unmanaged /\ connectivity[p].due /\ UNCHANGED routes
        /\ DialSession(p, [connectivity EXCEPT ![p] = connecting(@)], FALSE, has_route_source(p, routes))
        /\ UNCHANGED <<state, trust, generations, sessions, pending, invalidating, restarts>>
    BY <1>6 DEF take_due
  <2>2. ~connectivity[p].suspended /\ canonical_session(p) = {}
    BY <1>3, <2>1 DEF Fits
  <2> DEFINE w == connecting(connectivity[p])
  <2>3. Fits(p, w) /\ ~w.suspended /\ w # Unmanaged
    BY <1>1, <1>3, <2>1, <2>2, PolicyOps, PolicyValues DEF Fits
  <2>4. [connectivity EXCEPT ![p] = connecting(@)] = [connectivity EXCEPT ![p] = w]
    BY <1>1
  <2>5. has_route_source(p, routes) \in BOOLEAN
    BY DEF has_route_source
  <2>6. PICK known \in BOOLEAN : known = has_route_source(p, routes)
    BY <2>5
  <2>7. PICK u : u = w
    OBVIOUS
  <2> HIDE DEF w
  <2>8. DialSession(p, [connectivity EXCEPT ![p] = u], FALSE, known)
    BY <2>1, <2>4, <2>6, <2>7
  <2> QED BY <1>1, <1>5, <2>1, <2>3, <2>7, <2>8
<1>7. CASE RememberPeer(p)
  <2>1. routes' \subseteq Peers
    BY <1>1, <1>7 DEF RememberPeer, remember_peer_addr
  <2>2. CASE connectivity[p].state = "Unresolved" /\ ~connectivity[p].suspended
    <3>1. connectivity[p] # Unmanaged /\ canonical_session(p) = {}
      BY <1>3, <2>2, PolicyValues DEF Fits
    <3>2. Fits(p, resume(connectivity[p]))
      BY <1>1, <1>3, <3>1, PolicyOps DEF Fits
    <3>3. PICK v : v = resume(connectivity[p])
      OBVIOUS
    <3>4. connectivity' = [connectivity EXCEPT ![p] = v]
      BY <1>1, <1>7, <2>2, <3>3 DEF RememberPeer
    <3> QED BY <1>2, <1>7, <2>1, <3>2, <3>3, <3>4, PolicyOnly DEF RememberPeer
  <2>3. CASE ~(connectivity[p].state = "Unresolved" /\ ~connectivity[p].suspended)
    <3>1. PICK v : v = connectivity[p]
      OBVIOUS
    <3>2. connectivity' = [connectivity EXCEPT ![p] = v]
      BY <1>1, <1>7, <2>3, <3>1 DEF RememberPeer
    <3> QED BY <1>2, <1>3, <1>7, <2>1, <3>1, <3>2, PolicyOnly DEF RememberPeer
  <2> QED BY <2>2, <2>3
<1>8. ASSUME NEW hinted \in BOOLEAN, ConnectPeer(p, hinted) PROVE IInv'
  <2>1. routes' \subseteq Peers
    BY <1>1, <1>8 DEF ConnectPeer, remember_peer_addr
  <2>2. PICK w : w = connectivity[p]
    OBVIOUS
  <2>3. connectivity = [connectivity EXCEPT ![p] = w]
    BY <1>1, <2>2
  <2>4. PICK known \in BOOLEAN : known = has_route_source(p, routes')
    <3>1. has_route_source(p, routes') \in BOOLEAN
      BY DEF has_route_source
    <3> QED BY <3>1
  <2>5. DialSession(p, connectivity, TRUE, known)
    BY <1>8, <2>4 DEF ConnectPeer
  <2>6. DialSession(p, [connectivity EXCEPT ![p] = w], TRUE, known)
    BY <2>3, <2>5
  <2>7. UNCHANGED <<state, trust, generations, sessions, pending, invalidating, restarts>>
    BY <1>8 DEF ConnectPeer
  <2> QED BY <1>3, <1>5, <2>1, <2>2, <2>6, <2>7
<1>9. ASSUME NEW hinted \in BOOLEAN, BeginPairing(p, hinted) PROVE IInv'
  <2>1. /\ routes' \subseteq Peers
        /\ UNCHANGED <<state, trust, generations, sessions, pending, invalidating, restarts>>
    BY <1>1, <1>9 DEF BeginPairing, remember_peer_addr
  <2>2. PICK v : v = connectivity[p]
    OBVIOUS
  <2>3. CASE UNCHANGED <<conns, outbound, connectivity>>
    <3>1. connectivity' = [connectivity EXCEPT ![p] = v]
      BY <1>1, <2>2, <2>3
    <3> QED BY <1>2, <1>3, <2>1, <2>2, <2>3, <3>1, PolicyOnly
  <2>4. CASE ~UNCHANGED <<conns, outbound, connectivity>>
    <3>1. /\ purpose_allowed(p, TRUE) /\ outbound[p] = NoDial /\ ~OutboundFull /\ Spawn(p, TRUE, 1)
          /\ connectivity' = WithPeer(connectivity, p, connecting)
      BY <1>9, <2>4 DEF BeginPairing
    <3>2. connectivity[p] = Unmanaged
      BY <1>3, <3>1 DEF purpose_allowed
    <3>3. connectivity' = [connectivity EXCEPT ![p] = v]
      BY <1>1, <2>2, <3>1, <3>2 DEF WithPeer
    <3> QED BY <1>2, <1>3, <2>1, <2>2, <3>1, <3>3, SpawnIInv
  <2> QED BY <2>3, <2>4
<1> QED BY <1>6, <1>7, <1>8, <1>9

-----------------------------------------------------------------------------
(* Requests on sessions, pairings and trust *)

\* A dial that is cancelled keeps its record, which no longer counts.
LEMMA CancelFacts ==
    ASSUME NEW ob \in [Peers -> OutboundRecords], NEW p \in Peers
    PROVE  \E o \in OutboundRecords :
              /\ cancel_outbound(ob, p) = [ob EXCEPT ![p] = o]
              /\ o.conn = ob[p].conn /\ o.pairing = ob[p].pairing
              /\ o # NoDial => ob[p] # NoDial /\ o.cancelled
<1>1. ob[p] \in OutboundRecords
  OBVIOUS
<1>2. CASE ob[p] = NoDial
  <2>1. cancel_outbound(ob, p) = [ob EXCEPT ![p] = ob[p]]
    BY <1>2 DEF cancel_outbound
  <2> QED BY <1>1, <1>2, <2>1
<1>3. CASE ob[p] # NoDial
  <2> DEFINE o == [ob[p] EXCEPT !.cancelled = TRUE, !.replies = 0]
  <2>1. cancel_outbound(ob, p) = [ob EXCEPT ![p] = o]
    BY <1>3 DEF cancel_outbound
  <2>2. 0 \in 0..MaxWaiters
    BY BoundsAssumption
  <2>3. o \in OutboundRecords /\ o.conn = ob[p].conn /\ o.pairing = ob[p].pairing /\ o.cancelled
    BY <1>1, <2>2 DEF OutboundRecords
  <2> HIDE DEF o
  <2> QED BY <1>3, <2>1, <2>3
<1> QED BY <1>2, <1>3

\* A connection that is closed is otherwise as it was.
LEMMA ClosedFacts ==
    ASSUME NEW k \in Connections
    PROVE  LET j == [k EXCEPT !.open = FALSE] IN
           /\ j \in Connections /\ j.stage = k.stage /\ j.peer = k.peer /\ j.origin = k.origin
           /\ j.pairing = k.pairing /\ j.gen = k.gen /\ j.open = FALSE /\ (k = Free => j = Free)
<1>1. [Free EXCEPT !.open = FALSE] = Free
  BY FreeFacts DEF Connections
<1> QED BY <1>1 DEF Connections

\* A policy that fits still fits when sessions and dials are only given back.
LEMMA RefitSame ==
    ASSUME IInv, Running, NEW p \in Peers, NEW v, Fits(p, v), UNCHANGED trust,
           outbound'[p] = outbound[p] \/ Quiet(p)',
           \A d \in sessions' : /\ d \in sessions /\ conns'[d].peer = conns[d].peer
                                /\ (conns'[d].open => conns[d].open)
    PROVE  Refitted(p, v) /\ v \in ManagedPeers
<1>1. Quiet(p) => Quiet(p)'
  BY DEF Quiet
<1>2. trust[p] # "Trusted" => Quiet(p)
  BY PolicyFits
<1>3. \A d \in sessions' : conns'[d].peer = p /\ conns'[d].open => d \in canonical_session(p)
  BY DEF canonical_session
<1> QED BY <1>1, <1>2, <1>3 DEF Fits, Refitted

\* DisconnectSession suspends the peer, cancels its dial and removes the session.
LEMMA DisconnectIInv ==
    ASSUME IInv, NEW c \in Conns, DisconnectSession(c)
    PROVE  IInv'
<1>1. /\ TypeOK /\ StageOk(c) /\ Running /\ c \in sessions /\ NoConn \notin Conns /\ NoPeer \notin Peers
      /\ connectivity \in [Peers -> ManagedPeers] /\ outbound \in [Peers -> OutboundRecords]
      /\ conns \in [Conns -> Connections] /\ sessions \subseteq Conns
  BY IdsAssumption DEF DisconnectSession, IInv, StageInv, TypeOK
<1>2. PICK p \in Peers : p = conns[c].peer
  BY <1>1 DEF StageOk
<1>3. /\ connectivity' = WithPeer(connectivity, p, LAMBDA peer : lost(suspend(peer)))
      /\ outbound' = cancel_outbound(outbound, p)
      /\ sessions' = sessions \ {c} /\ conns' = [conns EXCEPT ![c].open = FALSE]
      /\ UNCHANGED <<state, trust, generations, pending, routes, invalidating, restarts>>
  BY <1>2 DEF DisconnectSession
<1>4. PICK o \in OutboundRecords :
         /\ outbound' = [outbound EXCEPT ![p] = o]
         /\ o.conn = outbound[p].conn /\ o.pairing = outbound[p].pairing
         /\ o # NoDial => outbound[p] # NoDial /\ o.cancelled
  BY <1>1, <1>3, CancelFacts
<1>5. PICK v \in ManagedPeers :
         /\ connectivity' = [connectivity EXCEPT ![p] = v]
         /\ v.suspended => ~v.due
         /\ v # Unmanaged => connectivity[p] # Unmanaged
  <2>1. CASE connectivity[p] = Unmanaged
    BY <1>1, <1>3, <2>1, PolicyValues DEF WithPeer
  <2>2. CASE connectivity[p] # Unmanaged
    <3>1. connectivity[p] \in ManagedPeers
      BY <1>1
    <3>2. suspend(connectivity[p]) \in ManagedPeers /\ suspend(connectivity[p]).suspended = TRUE
      BY <3>1, PolicyOps
    <3>3. /\ lost(suspend(connectivity[p])) \in ManagedPeers
          /\ ~lost(suspend(connectivity[p])).due
      BY <3>2, PolicyOps
    <3>4. connectivity' = [connectivity EXCEPT ![p] = lost(suspend(connectivity[p]))]
      BY <1>3, <2>2 DEF WithPeer
    <3> QED BY <2>2, <3>3, <3>4
  <2> QED BY <2>1, <2>2
<1>6. outbound'[p] = o /\ Quiet(p)'
  BY <1>1, <1>4 DEF Quiet
<1>7. /\ conns' = [conns EXCEPT ![c] = [conns[c] EXCEPT !.open = FALSE]]
      /\ conns[c] \in Connections
  BY <1>1, <1>3
<1>8. /\ [conns[c] EXCEPT !.open = FALSE] \in Connections
      /\ conns' \in [Conns -> Connections]
      /\ \A d \in Conns : Kept(d)
  <2>1. LET j == [conns[c] EXCEPT !.open = FALSE] IN
        /\ j \in Connections /\ j.stage = conns[c].stage /\ j.peer = conns[c].peer
        /\ j.origin = conns[c].origin
        /\ j.pairing = conns[c].pairing /\ j.gen = conns[c].gen /\ j.open = FALSE
        /\ (conns[c] = Free => j = Free)
    BY <1>7, ClosedFacts
  <2>2. conns' \in [Conns -> Connections] /\ \A d \in Conns : d # c => conns'[d] = conns[d]
    BY <1>1, <1>7, <2>1
  <2>3. conns'[c] = [conns[c] EXCEPT !.open = FALSE]
    BY <1>1, <1>7
  <2>4. \A d \in Conns : d # c => Kept(d)
    BY <1>3, <2>2 DEF Kept
  <2>5. Kept(c)
    BY <1>3, <2>1, <2>3 DEF Kept
  <2> QED BY <2>1, <2>2, <2>4, <2>5
<1>9. Refitted(p, v)
  <2>1. \A d \in sessions' : conns'[d].peer # p
    <3> SUFFICES ASSUME NEW d \in sessions, d # c PROVE conns'[d].peer # p
      BY <1>3
    <3>1. conns'[d].peer = conns[d].peer
      BY <1>1, <1>8 DEF Kept
    <3> QED BY <1>1, <1>2, <3>1 DEF IInv, SessionInv
  <2>2. v # Unmanaged => trust[p] = "Trusted"
    BY <1>1, <1>5, PolicyFits
  <2> QED BY <1>5, <1>6, <2>1, <2>2 DEF Refitted
<1>10. Redialled(p, o, NoConn)
  BY <1>4 DEF IInv, DialInv, Redialled
<1>11. LoopFrame(p)
  <2>1. Cardinality(sessions') <= MaxSessions
    BY <1>1, <1>3, Finite, CountPart DEF IInv, CountInv
  <2> QED BY <1>1, <1>3, <1>8, <2>1 DEF TypeOK, Running, LoopFrame
<1>12. Moved(NoConn, p)
  BY <1>1 DEF Moved
<1> QED BY <1>4, <1>5, <1>8, <1>9, <1>10, <1>11, <1>12, LoopMove

\* confirm_pairing hands the answer to the pairing task, or drops its record.
LEMMA ConfirmIInv ==
    ASSUME IInv, NEW c \in Conns, NEW accepted \in BOOLEAN, confirm_pairing(c, accepted)
    PROVE  IInv'
<1>1. /\ TypeOK /\ StageOk(c) /\ Running /\ pending[c] = "waiting" /\ NoConn \notin Conns /\ NoPeer \notin Peers
      /\ connectivity \in [Peers -> ManagedPeers] /\ outbound \in [Peers -> OutboundRecords]
      /\ conns \in [Conns -> Connections] /\ sessions \subseteq Conns
      /\ pending \in [Conns -> PendingRecords]
  BY IdsAssumption DEF confirm_pairing, IInv, StageInv, TypeOK
<1>2. PICK p \in Peers : p = conns[c].peer
  BY <1>1, StageFacts DEF StageOk
<1>3. PICK answer \in {"accept", "reject"} :
         \/ /\ pending' = [pending EXCEPT ![c] = answer]
            /\ conns' = [conns EXCEPT ![c].answer = answer]
         \/ /\ pending' = [pending EXCEPT ![c] = "none"]
            /\ UNCHANGED conns
  BY DEF confirm_pairing
<1>4. UNCHANGED <<state, trust, generations, sessions, outbound, connectivity, routes, invalidating, restarts>>
  BY DEF confirm_pairing
<1>5. /\ conns' \in [Conns -> Connections] /\ \A d \in Conns : d # c => conns'[d] = conns[d]
      /\ conns'[c].stage = conns[c].stage /\ conns'[c].peer = conns[c].peer
      /\ conns'[c].origin = conns[c].origin /\ conns'[c].pairing = conns[c].pairing
      /\ conns'[c].gen = conns[c].gen /\ conns'[c].open = conns[c].open
  <2>1. CASE UNCHANGED conns
    BY <1>1, <2>1
  <2>2. CASE conns' = [conns EXCEPT ![c].answer = answer]
    <3> DEFINE j == [conns[c] EXCEPT !.answer = answer]
    <3>1. conns[c] \in Connections
      BY <1>1
    <3>2. /\ j \in Connections /\ j.stage = conns[c].stage /\ j.peer = conns[c].peer
          /\ j.origin = conns[c].origin /\ j.pairing = conns[c].pairing
          /\ j.gen = conns[c].gen /\ j.open = conns[c].open
      BY <3>1 DEF Connections
    <3>3. conns' = [conns EXCEPT ![c] = j]
      BY <1>1, <2>2
    <3> HIDE DEF j
    <3> QED BY <1>1, <3>2, <3>3
  <2> QED BY <1>3, <2>1, <2>2
<1>6. /\ pending' \in [Conns -> PendingRecords]
      /\ \A d \in Conns : pending'[d] # "none" => pending[d] # "none"
  BY <1>1, <1>3 DEF PendingRecords
<1>7. \A d \in Conns : Kept(d)
  <2>1. conns[c] # Free
    BY <1>1, FreeFacts, StageFacts DEF StageOk
  <2> QED BY <1>4, <1>5, <1>6, <2>1 DEF Kept
<1>8. PICK v : v = connectivity[p]
  OBVIOUS
<1>9. PICK o \in OutboundRecords : o = outbound[p]
  BY <1>1
<1>10. connectivity' = [connectivity EXCEPT ![p] = v] /\ outbound' = [outbound EXCEPT ![p] = o]
  BY <1>1, <1>4, <1>8, <1>9
<1>11. Refitted(p, v) /\ v \in ManagedPeers
  <2>1. Fits(p, v)
    BY <1>1, <1>8, PolicyFits
  <2> QED BY <1>1, <1>4, <1>7, <2>1, RefitSame DEF Kept
<1>12. Redialled(p, o, NoConn)
  BY <1>9 DEF IInv, DialInv, Redialled
<1>13. LoopFrame(p)
  BY <1>1, <1>4, <1>5, <1>6 DEF TypeOK, Running, LoopFrame, IInv, CountInv
<1>14. Moved(NoConn, p)
  BY <1>1 DEF Moved
<1> QED BY <1>7, <1>10, <1>11, <1>12, <1>13, <1>14, LoopMove

\* The journal commit of a revoke or forget, before the loop applies it.
LEMMA CommitIInv ==
    ASSUME IInv, NEW p \in Peers, RevokePeer(p) \/ ForgetPeer(p)
    PROVE  IInv'
<1>1. /\ TypeOK /\ Running /\ NoPeer \notin Peers
      /\ trust \in [Peers -> {"Unknown", "Trusted", "Revoked"}]
      /\ generations \in [Peers -> 0..MaxGeneration]
      /\ UNCHANGED <<state, conns, sessions, pending, outbound, connectivity, routes, restarts>>
      /\ invalidating' = p
  BY IdsAssumption DEF RevokePeer, ForgetPeer, IInv, TypeOK
<1>2. /\ trust' \in [Peers -> {"Unknown", "Trusted", "Revoked"}]
      /\ \A q \in Peers : q # p => trust'[q] = trust[q]
  BY <1>1 DEF RevokePeer, ForgetPeer
<1>3. /\ generations' \in [Peers -> 0..MaxGeneration]
      /\ \A q \in Peers : q # p => generations'[q] = generations[q]
  <2>1. CASE RevokePeer(p)
    BY <1>1, <2>1 DEF RevokePeer
  <2>2. CASE ForgetPeer(p)
    <3>1. generations[p] \in 0..MaxGeneration /\ MaxGeneration \in Nat /\ generations[p] < MaxGeneration
      BY <1>1, <2>2, BoundsAssumption DEF ForgetPeer
    <3>2. generations[p] + 1 \in 0..MaxGeneration
      BY <3>1
    <3> QED BY <1>1, <2>2, <3>2 DEF ForgetPeer
  <2> QED BY <2>1, <2>2
<1>4. TypeOK'
  BY <1>1, <1>2, <1>3 DEF TypeOK
<1>5. StageInv' /\ StateInv' /\ DialInv'
  BY <1>1 DEF IInv, StageInv, StageOk, StateInv, DialInv, Dialled
<1>6. SessionInv'
  <2>1. ASSUME NEW d \in Conns PROVE Authorized(d)'
    <3> SUFFICES ASSUME conns[d].peer # p, d \in sessions \/ pending[d] # "none" PROVE Authorized(d)'
      BY <1>1 DEF Authorized
    <3>1. Authorized(d) /\ StageOk(d)
      BY DEF IInv, SessionInv, StageInv
    <3>2. conns[d].peer \in Peers
      BY <3>1, StageFacts DEF StageOk
    <3>3. conns[d].peer # invalidating
      BY <1>1, <3>2 DEF Running
    <3> QED BY <1>1, <1>2, <1>3, <3>1, <3>2, <3>3 DEF Authorized
  <2> QED BY <1>1, <2>1 DEF IInv, SessionInv
<1>7. PolicyInv'
  <2> SUFFICES ASSUME NEW q \in Peers PROVE PolicyOk(q)'
    BY DEF PolicyInv
  <2>1. PolicyOk(q) /\ q # invalidating /\ Quiet(q)' = Quiet(q)
    BY <1>1 DEF IInv, PolicyInv, Running, Quiet
  <2>2. q # p => trust'[q] = trust[q]
    BY <1>2
  <2> QED BY <1>1, <2>1, <2>2 DEF PolicyOk
<1>8. CountInv'
  BY <1>1 DEF IInv, CountInv, PairingsInFlight, Records, Dials, Managed
<1> QED BY <1>4, <1>5, <1>6, <1>7, <1>8 DEF IInv

\* invalidate_peer applies it: the peer keeps no policy, session or pairing, and
\* its dial no longer counts.
LEMMA InvalidateIInv ==
    ASSUME IInv, NEW p \in Peers, invalidate_peer(p)
    PROVE  IInv'
<1> DEFINE mine == {c \in Conns : conns[c].peer = p}
           owned == mine \cap (sessions \cup {c \in Conns : pending[c] # "none"})
<1>1. /\ TypeOK /\ NoConn \notin Conns /\ NoPeer \notin Peers
      /\ connectivity \in [Peers -> ManagedPeers] /\ outbound \in [Peers -> OutboundRecords]
      /\ conns \in [Conns -> Connections] /\ sessions \subseteq Conns
      /\ pending \in [Conns -> PendingRecords]
  BY IdsAssumption DEF IInv, TypeOK
<1>2. /\ state = "Running" /\ invalidating = p
      /\ connectivity' = [connectivity EXCEPT ![p] = Unmanaged]
      /\ outbound' = cancel_outbound(outbound, p)
      /\ pending' = [c \in Conns |-> IF c \in mine THEN "none" ELSE pending[c]]
      /\ sessions' = sessions \ mine
      /\ conns' = [c \in Conns |-> IF c \in owned THEN [conns[c] EXCEPT !.open = FALSE] ELSE conns[c]]
      /\ invalidating' = NoPeer
      /\ UNCHANGED <<state, trust, generations, routes, restarts>>
  BY DEF invalidate_peer
<1>3. PICK o \in OutboundRecords :
         /\ outbound' = [outbound EXCEPT ![p] = o]
         /\ o.conn = outbound[p].conn /\ o.pairing = outbound[p].pairing
         /\ o # NoDial => outbound[p] # NoDial /\ o.cancelled
  BY <1>1, <1>2, CancelFacts
<1>4. outbound'[p] = o /\ Quiet(p)'
  BY <1>1, <1>3 DEF Quiet
<1>5. pending' \in [Conns -> PendingRecords]
  BY <1>1, <1>2 DEF PendingRecords
<1>6. ASSUME NEW d \in Conns PROVE conns'[d] \in Connections /\ Kept(d)
  <2>1. LET j == [conns[d] EXCEPT !.open = FALSE] IN
        /\ j \in Connections /\ j.stage = conns[d].stage /\ j.peer = conns[d].peer
        /\ j.origin = conns[d].origin
        /\ j.pairing = conns[d].pairing /\ j.gen = conns[d].gen /\ j.open = FALSE
        /\ (conns[d] = Free => j = Free)
    BY <1>1, ClosedFacts
  <2>2. conns[d] \in Connections /\ conns'[d] \in {[conns[d] EXCEPT !.open = FALSE], conns[d]}
    BY <1>1, <1>2
  <2>3. /\ pending'[d] # "none" => pending[d] # "none"
        /\ d \in sessions' => d \in sessions
    BY <1>2
  <2> QED BY <2>1, <2>2, <2>3 DEF Kept
<1>7. conns' \in [Conns -> Connections]
  BY <1>2, <1>6
<1>8. \A d \in Conns : conns[d].peer = p => d \notin sessions' /\ pending'[d] = "none"
  BY <1>2
<1>9. Refitted(p, Unmanaged)
  <2>1. \A d \in sessions' : conns'[d].peer # p
    BY <1>1, <1>2, <1>6 DEF Kept
  <2> QED BY <1>4, <2>1, PolicyValues DEF Refitted
<1>10. Redialled(p, o, NoConn)
  BY <1>3 DEF IInv, DialInv, Redialled
<1>11. LoopFrame(p)
  <2>1. Cardinality(sessions') <= MaxSessions /\ sessions' \subseteq Conns
    BY <1>1, <1>2, Finite, CountPart DEF IInv, CountInv
  <2>2. routes' \subseteq Peers
    BY <1>1, <1>2 DEF TypeOK
  <2> QED BY <1>2, <1>5, <1>7, <1>8, <2>1, <2>2 DEF LoopFrame
<1>12. Moved(NoConn, p)
  BY <1>1 DEF Moved
<1>13. PICK v \in ManagedPeers : v = Unmanaged
  BY PolicyValues
<1> QED BY <1>2, <1>3, <1>6, <1>9, <1>10, <1>11, <1>12, <1>13, LoopMove

-----------------------------------------------------------------------------
(* Joined outputs *)

\* A failed dial or session leaves a policy that fits, unless the peer is
\* suspended or has a healthy session.
LEMMA FailedFits ==
    ASSUME NEW p \in Peers, NEW w, Fits(p, w), canonical_session(p) = {}, ~w.suspended, NEW f \in Failures,
           connectivity \in [Peers -> ManagedPeers]
    PROVE  \E v : /\ Fits(p, v)
                  /\ connectivity_failed([connectivity EXCEPT ![p] = w], p, f) = [connectivity EXCEPT ![p] = v]
<1> DEFINE cx == [connectivity EXCEPT ![p] = w]
<1>1. w \in ManagedPeers /\ cx[p] = w
  BY DEF Fits
<1>2. CASE w = Unmanaged
  BY <1>1, <1>2 DEF connectivity_failed, WithPeer
<1>3. CASE w # Unmanaged
  <2>1. failed(w, f) \in ManagedPeers /\ failed(w, f).suspended = w.suspended
    BY <1>1, FailedFacts
  <2>2. ~failed(w, f).suspended
    BY <2>1
  <2>3. Fits(p, failed(w, f))
    BY <1>3, <2>1, <2>2 DEF Fits
  <2>4. connectivity_failed(cx, p, f) = [cx EXCEPT ![p] = failed(@, f)]
    BY <1>1, <1>3 DEF connectivity_failed, WithPeer
  <2>5. connectivity_failed(cx, p, f) = [connectivity EXCEPT ![p] = failed(w, f)]
    BY <1>1, <2>4
  <2> QED BY <2>3, <2>5
<1> QED BY <1>2, <1>3

\* A joined connection is dropped; its dial record, if it has one, with it.
LEMMA DropIInv ==
    ASSUME IInv, Running, NEW c \in Conns, NEW p \in Peers, Drop(c),
           NEW v, Fits(p, v), connectivity' = [connectivity EXCEPT ![p] = v],
           NEW o \in OutboundRecords, outbound' = [outbound EXCEPT ![p] = o],
           o = outbound[p] \/ (o = NoDial /\ outbound[p].conn = c),
           sessions' = sessions \ {c}, pending' \in [Conns -> PendingRecords], pending'[c] = "none",
           \A d \in Conns : d # c => pending'[d] = pending[d],
           UNCHANGED <<state, trust, generations, routes, invalidating, restarts>>
    PROVE  IInv'
<1>1. /\ TypeOK /\ NoConn \notin Conns /\ NoPeer \notin Peers /\ outbound \in [Peers -> OutboundRecords]
      /\ conns \in [Conns -> Connections] /\ sessions \subseteq Conns
  BY IdsAssumption DEF IInv, TypeOK
<1>2. /\ conns' \in [Conns -> Connections] /\ conns'[c] = Free
      /\ \A d \in Conns : d # c => conns'[d] = conns[d]
  BY <1>1, FreeFacts DEF Drop
<1>3. \A d \in Conns : d # c => Kept(d)
  BY <1>2 DEF Kept
<1>4. Moved(c, p)
  <2>1. StageOk(c)' /\ Dialled(c)' /\ Authorized(c)'
    BY <1>2, FreeFacts DEF StageOk, Dialled, Authorized
  <2>2. conns'[c].stage \notin InFlight
    BY <1>2, FreeFacts, StageFacts
  <2> QED BY <2>1, <2>2 DEF Moved
<1>5. outbound'[p] = o
  BY <1>1
<1>6. Refitted(p, v) /\ v \in ManagedPeers
  <2>1. outbound'[p] = outbound[p] \/ Quiet(p)'
    BY <1>5 DEF Quiet
  <2>2. \A d \in sessions' : /\ d \in sessions /\ conns'[d].peer = conns[d].peer
                             /\ (conns'[d].open => conns[d].open)
    BY <1>1, <1>2
  <2> QED BY <2>1, <2>2, RefitSame
<1>7. Redialled(p, o, c)
  BY DEF IInv, DialInv, Redialled
<1>8. LoopFrame(p)
  <2>1. Cardinality(sessions') <= MaxSessions /\ sessions' \subseteq Conns
    BY <1>1, Finite, CountPart DEF IInv, CountInv
  <2>2. routes' \subseteq Peers
    BY <1>1 DEF TypeOK
  <2> QED BY <1>1, <1>2, <2>1, <2>2 DEF LoopFrame, Running
<1> QED BY <1>3, <1>4, <1>6, <1>7, <1>8, LoopMove

\* register_pending: the pairing of a candidate that is still current is registered.
LEMMA PendingIInv ==
    ASSUME IInv, Running, NEW c \in Conns, conns[c].stage = "verified", register_pending(c),
           NEW p \in Peers, p = conns[c].peer, UNCHANGED <<sessions, connectivity>>,
           NEW o \in OutboundRecords, outbound' = [outbound EXCEPT ![p] = o],
           o = outbound[p] \/ (o = NoDial /\ outbound[p].conn = c),
           UNCHANGED <<state, trust, generations, routes, invalidating, restarts>>
    PROVE  IInv'
<1>1. /\ TypeOK /\ NoConn \notin Conns /\ NoPeer \notin Peers /\ outbound \in [Peers -> OutboundRecords]
      /\ conns \in [Conns -> Connections] /\ sessions \subseteq Conns /\ pending \in [Conns -> PendingRecords]
      /\ connectivity \in [Peers -> ManagedPeers] /\ StageOk(c)
  BY IdsAssumption DEF IInv, TypeOK, StageInv
<1>2. c \notin sessions /\ pending[c] = "none"
  BY <1>1, StageFacts DEF StageOk
<1>3. PICK v : v = connectivity[p]
  OBVIOUS
<1>4. Fits(p, v) /\ connectivity' = [connectivity EXCEPT ![p] = v]
  BY <1>1, <1>3, PolicyFits
<1>5. CASE Drop(c) /\ UNCHANGED pending
  <2>1. sessions' = sessions \ {c}
    BY <1>2
  <2> QED BY <1>1, <1>2, <1>4, <1>5, <2>1, DropIInv
<1>6. CASE /\ trust[p] = "Unknown" /\ generations[p] = conns[c].gen
           /\ Cardinality({d \in Conns : pending[d] # "none"}) < MaxPending
           /\ pending' = [pending EXCEPT ![c] = "waiting"] /\ Become(c, "pending")
  <2>1. PICK k \in Connections :
           /\ conns' = [conns EXCEPT ![c] = k] /\ k.stage = "pending"
           /\ k.peer = conns[c].peer /\ k.origin = conns[c].origin /\ k.pairing = conns[c].pairing
           /\ k.gen = conns[c].gen /\ k.open = conns[c].open
    BY <1>1, <1>6, StageFacts, BecomeFacts
  <2>2. /\ conns' \in [Conns -> Connections] /\ conns'[c] = k
        /\ \A d \in Conns : d # c => conns'[d] = conns[d] /\ pending'[d] = pending[d]
        /\ pending' \in [Conns -> PendingRecords] /\ pending'[c] = "waiting"
    BY <1>1, <1>6, <2>1 DEF PendingRecords
  <2>3. \A d \in Conns : d # c => Kept(d)
    BY <2>2 DEF Kept
  <2>4. Moved(c, p)
    <3>1. StageOk(c)'
      BY <1>2, <2>1, <2>2, StageFacts DEF StageOk
    <3>2. Dialled(c)'
      BY <2>1, <2>2, StageFacts DEF Dialled
    <3>3. Authorized(c)'
      BY <1>2, <1>6, <2>1, <2>2 DEF Authorized
    <3>4. conns[c].stage \in InFlight
      BY StageFacts
    <3> QED BY <1>2, <1>6, <3>1, <3>2, <3>3, <3>4 DEF Moved, Records
  <2>5. Refitted(p, v) /\ v \in ManagedPeers
    <3>1. outbound'[p] = outbound[p] \/ Quiet(p)'
      BY <1>1 DEF Quiet
    <3>2. \A d \in sessions' : /\ d \in sessions /\ conns'[d].peer = conns[d].peer
                               /\ (conns'[d].open => conns[d].open)
      BY <1>1, <1>2, <2>2
    <3> QED BY <1>4, <3>1, <3>2, RefitSame
  <2>6. Redialled(p, o, c)
    BY DEF IInv, DialInv, Redialled
  <2>7. LoopFrame(p)
    BY <1>1, <2>2 DEF LoopFrame, Running, TypeOK, IInv, CountInv
  <2> QED BY <1>4, <2>3, <2>4, <2>5, <2>6, <2>7, LoopMove
<1> QED BY <1>5, <1>6 DEF register_pending

\* A joined candidate c of peer p goes to register_session; o0 is the dial record
\* that remains, and charged whether a failure counts against the peer.
RegisterStep(c, p, o0, charged) ==
    /\ conns[c].stage \in {"authorized", "paired"} /\ p = conns[c].peer
    /\ o0 = outbound[p] \/ (o0 = NoDial /\ outbound[p].conn = c)
    /\ charged => ~connectivity[p].suspended
    /\ register_session(c, [outbound EXCEPT ![p] = o0], charged)
    /\ pending' \in [Conns -> PendingRecords] /\ pending'[c] = "none"
    /\ \A d \in Conns : d # c => pending'[d] = pending[d]
    /\ UNCHANGED <<state, trust, generations, routes, invalidating, restarts>>

\* register_session: the candidate is refused, or becomes the session of its peer.
LEMMA RegisterIInv ==
    ASSUME IInv, Running, NEW c \in Conns, NEW p \in Peers, NEW o0 \in OutboundRecords,
           NEW charged \in BOOLEAN, RegisterStep(c, p, o0, charged)
    PROVE  IInv'
<1> DEFINE ob == [outbound EXCEPT ![p] = o0]
           existing == {s \in sessions : conns[s].peer = p}
           healthy == \E s \in existing : conns[s].open
           cx == insert(connectivity, p)
           full == existing = {} /\ Cardinality(sessions) >= MaxSessions
<1>1. /\ TypeOK /\ NoConn \notin Conns /\ NoPeer \notin Peers /\ outbound \in [Peers -> OutboundRecords]
      /\ conns \in [Conns -> Connections] /\ sessions \subseteq Conns
      /\ connectivity \in [Peers -> ManagedPeers] /\ StageOk(c) /\ ob \in [Peers -> OutboundRecords]
  BY IdsAssumption DEF IInv, TypeOK, StageInv
<1>2. c \notin sessions /\ sessions \ {c} = sessions
  BY <1>1 DEF StageOk, RegisterStep
<1>3. /\ Fits(p, connectivity[p]) /\ (~healthy => canonical_session(p) = {})
      /\ {"Fatal", "Retryable"} \subseteq Failures
  BY PolicyFits DEF canonical_session, Failures
<1>4. PICK u : u = connectivity[p]
  OBVIOUS
<1>5. Fits(p, u) /\ connectivity = [connectivity EXCEPT ![p] = u] /\ (charged => ~u.suspended)
  BY <1>1, <1>3, <1>4 DEF RegisterStep
<1>6. ASSUME StillAuthorized(c), insertable(connectivity, p)
      PROVE  \E w : /\ cx = [connectivity EXCEPT ![p] = w] /\ Fits(p, w) /\ w # Unmanaged
                    /\ w.suspended = u.suspended
  <2>1. trust[p] = "Trusted"
    BY <1>6 DEF StillAuthorized, RegisterStep
  <2>2. insertable([connectivity EXCEPT ![p] = u], p) /\ cx = insert([connectivity EXCEPT ![p] = u], p)
    BY <1>5, <1>6
  <2> DEFINE w1 == IF u = Unmanaged THEN NewPeer ELSE u
  <2>3. /\ insert([connectivity EXCEPT ![p] = u], p) = [connectivity EXCEPT ![p] = w1]
        /\ Fits(p, w1) /\ w1 # Unmanaged /\ w1.suspended = u.suspended
    BY <1>4, <1>5, <2>1, <2>2, InsertFits
  <2> HIDE DEF cx, w1
  <2> QED BY <2>2, <2>3
<1>7. \/ /\ Drop(c) /\ outbound' = ob /\ UNCHANGED sessions
         /\ \E f \in Failures :
               connectivity' = IF charged /\ ~healthy THEN connectivity_failed(connectivity, p, f) ELSE connectivity
      \/ /\ StillAuthorized(c) /\ insertable(connectivity, p)
         /\ Drop(c) /\ outbound' = ob /\ UNCHANGED sessions
         /\ connectivity' \in {connectivity_failed(cx, p, "Retryable"), cx}
         /\ connectivity' = cx \/ (charged /\ ~healthy)
      \/ /\ StillAuthorized(c) /\ insertable(connectivity, p) /\ ~full
         /\ sessions' = (sessions \ existing) \cup {c}
         /\ conns' = [s \in Conns |->
                        IF s = c THEN [conns[c] EXCEPT !.stage = "session", !.answer = "none",
                                                       !.pairing = FALSE]
                        ELSE IF s \in existing THEN [conns[s] EXCEPT !.open = FALSE]
                        ELSE conns[s]]
         /\ connectivity' = [cx EXCEPT ![p] = connected(IF existing # {} /\ ~healthy THEN lost(@) ELSE @, c)]
         /\ outbound' \in {cancel_outbound(ob, p), ob}
  <2> DEFINE kept == \E s \in existing : conns[s].open /\ ~replaces(conns[c].origin, conns[s].origin, p)
             valid == StillAuthorized(c) /\ conns[c].open /\ insertable(connectivity, p)
             Reject(base, f) ==
                 /\ Drop(c)
                 /\ connectivity' = IF charged /\ ~healthy THEN connectivity_failed(base, p, f) ELSE base
                 /\ outbound' = ob
                 /\ UNCHANGED sessions
  <2>1. register_session(c, ob, charged) /\ p = conns[c].peer
    BY DEF RegisterStep
  <2> HIDE DEF ob
  <2>2. \/ ~StillAuthorized(c) /\ Reject(connectivity, "Fatal")
        \/ StillAuthorized(c) /\ ~conns[c].open /\ Reject(connectivity, "Retryable")
        \/ StillAuthorized(c) /\ conns[c].open /\ ~valid /\ Reject(connectivity, "Retryable")
        \/ valid /\ ~kept /\ Reject(cx, "Retryable")
        \/ valid /\ kept /\ Drop(c) /\ connectivity' = cx /\ outbound' = ob /\ UNCHANGED sessions
        \/ /\ valid /\ ~kept /\ ~full
           /\ sessions' = (sessions \ existing) \cup {c}
           /\ conns' = [s \in Conns |->
                          IF s = c THEN [conns[c] EXCEPT !.stage = "session", !.answer = "none",
                                                         !.pairing = FALSE]
                          ELSE IF s \in existing THEN [conns[s] EXCEPT !.open = FALSE]
                          ELSE conns[s]]
           /\ connectivity' = [cx EXCEPT ![p] = connected(IF existing # {} /\ ~healthy THEN lost(@) ELSE @, c)]
           /\ outbound' = IF conns[c].origin = "Inbound" /\ p \notin OutboundPreferred
                          THEN cancel_outbound(ob, p) ELSE ob
    BY <2>1, Zenon DEF register_session
  <2> HIDE DEF existing, healthy, cx, full, kept
  <2> QED BY <1>3, <2>2
<1> HIDE DEF ob, existing, healthy, cx, full
<1>8. ASSUME Drop(c), outbound' = ob, UNCHANGED sessions,
             NEW v, Fits(p, v), connectivity' = [connectivity EXCEPT ![p] = v]
      PROVE  IInv'
  <2>1. outbound' = [outbound EXCEPT ![p] = o0] /\ sessions' = sessions \ {c}
    BY <1>2, <1>8 DEF ob
  <2>2. /\ o0 = outbound[p] \/ (o0 = NoDial /\ outbound[p].conn = c)
        /\ pending' \in [Conns -> PendingRecords] /\ pending'[c] = "none"
        /\ \A d \in Conns : d # c => pending'[d] = pending[d]
        /\ UNCHANGED <<state, trust, generations, routes, invalidating, restarts>>
    BY DEF RegisterStep
  <2> QED BY <1>8, <2>1, <2>2, DropIInv
<1>9. CASE /\ Drop(c) /\ outbound' = ob /\ UNCHANGED sessions
           /\ \E f \in Failures :
                 connectivity' = IF charged /\ ~healthy THEN connectivity_failed(connectivity, p, f) ELSE connectivity
  <2>1. PICK f \in Failures :
           connectivity' = IF charged /\ ~healthy THEN connectivity_failed(connectivity, p, f) ELSE connectivity
    BY <1>9
  <2>2. CASE charged /\ ~healthy
    <3>1. PICK v : /\ Fits(p, v)
                   /\ connectivity_failed([connectivity EXCEPT ![p] = u], p, f) = [connectivity EXCEPT ![p] = v]
      BY <1>1, <1>3, <1>5, <2>2, FailedFits
    <3>2. connectivity' = [connectivity EXCEPT ![p] = v]
      BY <1>5, <2>1, <2>2, <3>1
    <3> QED BY <1>8, <1>9, <3>1, <3>2
  <2>3. CASE ~(charged /\ ~healthy)
    <3>1. connectivity' = [connectivity EXCEPT ![p] = u]
      BY <1>5, <2>1, <2>3
    <3> QED BY <1>5, <1>8, <1>9, <3>1
  <2> QED BY <2>2, <2>3
<1>10. CASE /\ StillAuthorized(c) /\ insertable(connectivity, p)
            /\ Drop(c) /\ outbound' = ob /\ UNCHANGED sessions
            /\ connectivity' \in {connectivity_failed(cx, p, "Retryable"), cx}
            /\ connectivity' = cx \/ (charged /\ ~healthy)
  <2>1. PICK w : /\ cx = [connectivity EXCEPT ![p] = w] /\ Fits(p, w) /\ w # Unmanaged
                 /\ w.suspended = u.suspended
    BY <1>6, <1>10
  <2>2. CASE connectivity' = cx
    BY <1>8, <1>10, <2>1, <2>2
  <2>3. CASE connectivity' # cx
    <3>1. charged /\ ~healthy /\ connectivity' = connectivity_failed(cx, p, "Retryable")
      BY <1>10, <2>3
    <3>2. ~w.suspended
      BY <1>5, <2>1, <3>1
    <3>3. PICK v : /\ Fits(p, v)
                   /\ connectivity_failed([connectivity EXCEPT ![p] = w], p, "Retryable")
                        = [connectivity EXCEPT ![p] = v]
      BY <1>1, <1>3, <2>1, <3>1, <3>2, FailedFits
    <3>4. connectivity' = [connectivity EXCEPT ![p] = v]
      BY <2>1, <3>1, <3>3
    <3> QED BY <1>8, <1>10, <3>3, <3>4
  <2> QED BY <2>2, <2>3
<1>11. CASE /\ StillAuthorized(c) /\ insertable(connectivity, p) /\ ~full
            /\ sessions' = (sessions \ existing) \cup {c}
            /\ conns' = [s \in Conns |->
                           IF s = c THEN [conns[c] EXCEPT !.stage = "session", !.answer = "none",
                                                          !.pairing = FALSE]
                           ELSE IF s \in existing THEN [conns[s] EXCEPT !.open = FALSE]
                           ELSE conns[s]]
            /\ connectivity' = [cx EXCEPT ![p] = connected(IF existing # {} /\ ~healthy THEN lost(@) ELSE @, c)]
            /\ outbound' \in {cancel_outbound(ob, p), ob}
  <2>1. PICK w : /\ cx = [connectivity EXCEPT ![p] = w] /\ Fits(p, w) /\ w # Unmanaged
                 /\ w.suspended = u.suspended
    BY <1>6, <1>11
  <2>2. PICK v \in ManagedPeers :
           /\ connectivity' = [connectivity EXCEPT ![p] = v]
           /\ v.state = "Connected" /\ v.session = c /\ v.due = FALSE /\ v.suspended = w.suspended
    <3>1. PICK x \in ManagedPeers : /\ x = IF existing # {} /\ ~healthy THEN lost(w) ELSE w
                                    /\ x.suspended = w.suspended
      <4>1. w \in ManagedPeers
        BY <2>1 DEF Fits
      <4>2. lost(w) \in ManagedPeers /\ lost(w).suspended = w.suspended
        BY <4>1, PolicyOps
      <4>3. CASE existing # {} /\ ~healthy
        BY <4>2, <4>3
      <4>4. CASE ~(existing # {} /\ ~healthy)
        BY <4>1, <4>4
      <4> QED BY <4>3, <4>4
    <3>2. connectivity' = [connectivity EXCEPT ![p] = connected(x, c)]
      BY <1>1, <1>11, <2>1, <3>1
    <3>3. /\ connected(x, c) \in ManagedPeers /\ connected(x, c).state = "Connected"
          /\ connected(x, c).session = c /\ connected(x, c).due = FALSE
          /\ connected(x, c).suspended = x.suspended
      BY <3>1, ConnectedFacts
    <3> QED BY <3>1, <3>2, <3>3
  <2>3. PICK o \in OutboundRecords :
           /\ outbound' = [outbound EXCEPT ![p] = o] /\ o.conn = o0.conn /\ o.pairing = o0.pairing
           /\ o # NoDial => o0 # NoDial /\ (o.cancelled \/ o = o0)
    <3>1. ob[p] = o0 /\ ob = [outbound EXCEPT ![p] = o0]
      BY <1>1 DEF ob
    <3>2. CASE outbound' = ob
      BY <3>1, <3>2
    <3>3. CASE outbound' = cancel_outbound(ob, p)
      <4>1. PICK o \in OutboundRecords :
               /\ cancel_outbound(ob, p) = [ob EXCEPT ![p] = o]
               /\ o.conn = ob[p].conn /\ o.pairing = ob[p].pairing
               /\ o # NoDial => ob[p] # NoDial /\ o.cancelled
        BY <1>1, CancelFacts
      <4>2. [ob EXCEPT ![p] = o] = [outbound EXCEPT ![p] = o]
        BY <1>1, <3>1
      <4> QED BY <3>1, <3>3, <4>1, <4>2
    <3> QED BY <1>11, <3>2, <3>3
  <2>4. outbound'[p] = o
    BY <1>1, <2>3
  <2>5. PICK k \in Connections :
           /\ conns'[c] = k /\ k.stage = "session" /\ k.peer = p /\ k.gen = conns[c].gen
    <3> DEFINE k == [conns[c] EXCEPT !.stage = "session", !.answer = "none", !.pairing = FALSE]
    <3>1. conns[c] \in Connections /\ "session" \in Stages /\ p = conns[c].peer
      BY <1>1, StageFacts DEF RegisterStep
    <3>2. k \in Connections /\ k.stage = "session" /\ k.peer = p /\ k.gen = conns[c].gen
      BY <3>1 DEF Connections
    <3>3. conns'[c] = k
      BY <1>11
    <3> HIDE DEF k
    <3> QED BY <3>2, <3>3
  <2>6. ASSUME NEW d \in Conns, d # c PROVE conns'[d] \in Connections /\ Kept(d)
    <3>1. LET j == [conns[d] EXCEPT !.open = FALSE] IN
          /\ j \in Connections /\ j.stage = conns[d].stage /\ j.peer = conns[d].peer
          /\ j.origin = conns[d].origin
          /\ j.pairing = conns[d].pairing /\ j.gen = conns[d].gen /\ j.open = FALSE
          /\ (conns[d] = Free => j = Free)
      BY <1>1, ClosedFacts
    <3>2. conns[d] \in Connections /\ conns'[d] \in {[conns[d] EXCEPT !.open = FALSE], conns[d]}
      BY <1>1, <1>11, <2>6
    <3>3. pending'[d] = pending[d] /\ (d \in sessions' => d \in sessions)
      BY <1>11, <2>6 DEF RegisterStep
    <3> QED BY <3>1, <3>2, <3>3 DEF Kept
  <2>7. conns' \in [Conns -> Connections]
    BY <1>11, <2>5, <2>6
  <2>8. \A d \in sessions' : conns'[d].peer = p => d = c
    <3> SUFFICES ASSUME NEW d \in sessions', d # c PROVE conns'[d].peer # p
      OBVIOUS
    <3>1. d \in sessions /\ d \notin existing /\ d \in Conns
      BY <1>1, <1>11
    <3> QED BY <2>6, <3>1 DEF Kept, existing
  <2>9. trust[p] = "Trusted" /\ generations[p] = conns[c].gen
    BY <1>11 DEF StillAuthorized, RegisterStep
  <2>10. Moved(c, p)
    <3>1. StageOk(c)' /\ Dialled(c)'
      BY <2>5, StageFacts DEF StageOk, Dialled, RegisterStep
    <3>2. Authorized(c)'
      BY <2>5, <2>9 DEF Authorized, RegisterStep
    <3>3. conns'[c].stage \notin InFlight
      BY <2>5, StageFacts
    <3> QED BY <2>5, <2>8, <3>1, <3>2, <3>3 DEF Moved, RegisterStep
  <2>11. Refitted(p, v)
    <3>1. w.suspended => Quiet(p)
      BY <2>1 DEF Fits
    <3>2. Quiet(p) => Quiet(p)'
      BY <2>3, <2>4 DEF Quiet, RegisterStep
    <3>3. connectivity[p] # Unmanaged \/ Cardinality(Managed(connectivity)) < MaxManagedPeers
      BY <2>1 DEF Fits
    <3> QED BY <2>2, <2>8, <2>9, <3>1, <3>2, <3>3 DEF Refitted
  <2>12. Redialled(p, o, c)
    <3>1. o0 # NoDial => outbound[p] # NoDial /\ o0.conn \in Conns
      BY DEF IInv, DialInv, RegisterStep
    <3> QED BY <2>3, <3>1 DEF Redialled, RegisterStep
  <2>13. LoopFrame(p)
    <3>1. sessions' \subseteq Conns
      BY <1>1, <1>11
    <3>2. IsFiniteSet(sessions) /\ MaxSessions \in Nat /\ Cardinality(sessions) <= MaxSessions
      BY <1>1, Finite DEF IInv, CountInv
    <3>3. CASE existing = {}
      <4>1. Cardinality(sessions) \in Nat
        BY <3>2, FS_CardinalityType
      <4>2. Cardinality(sessions) < MaxSessions
        BY <1>11, <3>2, <3>3, <4>1 DEF full
      <4>3. Cardinality(sessions') <= MaxSessions
        BY <1>11, <3>2, <4>2, CountOneMore
      <4> QED BY <1>1, <2>7, <3>1, <4>3 DEF LoopFrame, Running, TypeOK, RegisterStep
    <3>4. CASE existing # {}
      <4>1. PICK e \in sessions : e \in existing
        BY <3>4 DEF existing
      <4>2. sessions' \subseteq (sessions \ {e}) \cup {c}
        BY <1>11, <4>1
      <4>3. Cardinality(sessions') <= MaxSessions
        BY <3>2, <4>2, CountReplaced
      <4> QED BY <1>1, <2>7, <3>1, <4>3 DEF LoopFrame, Running, TypeOK, RegisterStep
    <3> QED BY <3>3, <3>4
  <2> QED BY <2>2, <2>3, <2>6, <2>10, <2>11, <2>12, <2>13, LoopMove
<1> QED BY <1>7, <1>9, <1>10, <1>11

\* The loop joins an output: of an inbound setup, of a dial, of a pairing or of a session.
LEMMA JoinIInv ==
    ASSUME IInv, NEW c \in Conns, Join(c)
    PROVE  IInv'
<1>1. /\ TypeOK /\ NoConn \notin Conns /\ NoPeer \notin Peers /\ outbound \in [Peers -> OutboundRecords]
      /\ conns \in [Conns -> Connections] /\ sessions \subseteq Conns /\ pending \in [Conns -> PendingRecords]
      /\ connectivity \in [Peers -> ManagedPeers] /\ StageOk(c)
  BY IdsAssumption DEF IInv, TypeOK, StageInv
<1>2. Running
  BY DEF Join, JoinIncoming, JoinOutbound, finish_pairing, JoinSession
<1>3. conns[c].stage \in Candidate \cup {"paired", "unpaired", "ended"}
  BY DEF Join, JoinIncoming, JoinOutbound, finish_pairing, JoinSession, Candidate
<1>4. PICK p \in Peers : p = conns[c].peer
  BY <1>1, <1>3 DEF StageOk, Candidate
<1>5. PICK u \in ManagedPeers : u = connectivity[p]
  BY <1>1
<1>6. Fits(p, u) /\ connectivity = [connectivity EXCEPT ![p] = u]
  BY <1>1, <1>2, <1>5, PolicyFits
<1>7. PICK o \in OutboundRecords : o = outbound[p]
  BY <1>1
<1>8. outbound = [outbound EXCEPT ![p] = o]
  BY <1>1, <1>7
<1>9. /\ conns[c].stage # "ended" => c \notin sessions /\ sessions \ {c} = sessions
      /\ conns[c].stage \in {"authorized", "verified", "failed"} => pending[c] = "none"
  BY <1>1, <1>3, StageFacts DEF StageOk, Candidate
<1>10. CASE JoinIncoming(c)
  <2>0. UNCHANGED <<state, trust, generations, routes, invalidating, restarts>>
    BY <1>10 DEF JoinIncoming
  <2>1. CASE conns[c].stage = "authorized" /\ register_session(c, outbound, FALSE) /\ UNCHANGED pending
    <3>1. register_session(c, [outbound EXCEPT ![p] = o], FALSE)
      BY <1>8, <2>1
    <3>2. RegisterStep(c, p, o, FALSE)
      BY <1>1, <1>4, <1>7, <1>9, <2>0, <2>1, <3>1 DEF RegisterStep
    <3> QED BY <1>2, <3>2, RegisterIInv
  <2>2. CASE conns[c].stage = "verified" /\ register_pending(c) /\ UNCHANGED <<sessions, outbound, connectivity>>
    <3>1. outbound' = [outbound EXCEPT ![p] = o]
      BY <1>8, <2>2
    <3>2. conns[c].stage = "verified" /\ register_pending(c) /\ UNCHANGED <<sessions, connectivity>>
      BY <2>2
    <3> QED BY <1>2, <1>4, <1>7, <2>0, <3>1, <3>2, PendingIInv
  <2>3. CASE /\ conns[c].stage = "failed" /\ Drop(c)
             /\ UNCHANGED <<sessions, pending, outbound, connectivity>>
    <3>1. /\ outbound' = [outbound EXCEPT ![p] = o] /\ connectivity' = [connectivity EXCEPT ![p] = u]
          /\ sessions' = sessions \ {c} /\ pending'[c] = "none"
      BY <1>6, <1>8, <1>9, <2>3
    <3> QED BY <1>1, <1>2, <1>6, <1>7, <2>0, <2>3, <3>1, DropIInv
  <2> QED BY <1>10, <2>1, <2>2, <2>3 DEF JoinIncoming
<1>11. CASE JoinOutbound(c)
  <2> DEFINE record == outbound[p]
             rest == [outbound EXCEPT ![p] = NoDial]
  <2>0. /\ UNCHANGED <<state, trust, generations, routes, invalidating, restarts>>
        /\ conns[c].origin = "Outbound" /\ conns[c].stage \in Candidate /\ record.conn = c
        /\ \/ /\ record.cancelled
              /\ Drop(c) /\ outbound' = rest /\ UNCHANGED <<sessions, pending, connectivity>>
           \/ /\ ~record.cancelled /\ conns[c].stage = "verified"
              /\ register_pending(c)
              /\ outbound' = rest /\ UNCHANGED <<sessions, connectivity>>
           \/ /\ ~record.cancelled /\ conns[c].stage = "authorized"
              /\ register_session(c, rest, TRUE) /\ UNCHANGED pending
           \/ /\ ~record.cancelled /\ conns[c].stage = "failed"
              /\ Drop(c) /\ outbound' = rest
              /\ connectivity' = IF ~record.pairing /\ canonical_session(p) = {}
                                 THEN connectivity_failed(connectivity, p, conns[c].failure)
                                 ELSE connectivity
              /\ UNCHANGED <<sessions, pending>>
    BY <1>4, <1>11 DEF JoinOutbound
  <2>1. PICK n \in OutboundRecords : n = NoDial
    <3>1. 0 \in 0..MaxWaiters
      BY BoundsAssumption
    <3> QED BY <3>1 DEF NoDial, OutboundRecords
  <2>2. rest = [outbound EXCEPT ![p] = n] /\ pending[c] = "none"
    BY <1>9, <2>0, <2>1 DEF Candidate
  <2>3. record # NoDial
    BY <1>1, <2>0 DEF NoDial
  <2>4. ~record.cancelled /\ ~record.pairing => ~u.suspended
    BY <1>6, <2>3 DEF Fits, Quiet
  <2> HIDE DEF rest
  <2>5. ASSUME Drop(c), outbound' = rest, UNCHANGED <<sessions, pending>>,
               NEW v, Fits(p, v), connectivity' = [connectivity EXCEPT ![p] = v]
        PROVE  IInv'
    <3>1. /\ outbound' = [outbound EXCEPT ![p] = n] /\ sessions' = sessions \ {c} /\ pending'[c] = "none"
          /\ n = NoDial /\ outbound[p].conn = c
      BY <1>9, <2>0, <2>1, <2>2, <2>5 DEF Candidate
    <3> QED BY <1>1, <1>2, <2>0, <2>5, <3>1, DropIInv, ZenonT(60)
  <2>6. CASE record.cancelled /\ Drop(c) /\ outbound' = rest /\ UNCHANGED <<sessions, pending, connectivity>>
    <3>1. connectivity' = [connectivity EXCEPT ![p] = u]
      BY <1>6, <2>6
    <3> QED BY <1>6, <2>5, <2>6, <3>1
  <2>7. CASE /\ ~record.cancelled /\ conns[c].stage = "verified" /\ register_pending(c)
             /\ outbound' = rest /\ UNCHANGED <<sessions, connectivity>>
    <3>1. outbound' = [outbound EXCEPT ![p] = n] /\ n = NoDial /\ outbound[p].conn = c
      BY <2>0, <2>1, <2>2, <2>7
    <3> QED BY <1>2, <1>4, <2>0, <2>7, <3>1, PendingIInv
  <2>8. CASE /\ ~record.cancelled /\ conns[c].stage = "authorized"
             /\ register_session(c, rest, TRUE) /\ UNCHANGED pending
    <3>1. register_session(c, [outbound EXCEPT ![p] = n], TRUE) /\ n = NoDial /\ outbound[p].conn = c
      BY <2>0, <2>1, <2>2, <2>8
    <3>2. ~record.pairing
      <4>1. Dialled(c) /\ "authorized" \in Working /\ ~conns[c].pairing
        BY <1>1, <2>8, StageFacts DEF IInv, DialInv, StageOk
      <4>2. outbound[p].pairing = conns[c].pairing
        BY <1>4, <2>0, <2>8, <4>1 DEF Dialled
      <4> QED BY <4>1, <4>2
    <3>3. ~connectivity[p].suspended
      BY <1>5, <2>4, <2>8, <3>2
    <3>4. RegisterStep(c, p, n, TRUE)
      BY <1>1, <1>4, <2>0, <2>2, <2>8, <3>1, <3>3 DEF RegisterStep
    <3> QED BY <1>2, <3>4, RegisterIInv
  <2>9. CASE /\ ~record.cancelled /\ conns[c].stage = "failed"
             /\ Drop(c) /\ outbound' = rest
             /\ connectivity' = IF ~record.pairing /\ canonical_session(p) = {}
                                THEN connectivity_failed(connectivity, p, conns[c].failure)
                                ELSE connectivity
             /\ UNCHANGED <<sessions, pending>>
    <3>1. CASE ~record.pairing /\ canonical_session(p) = {}
      <4>1. PICK f \in Failures : f = conns[c].failure
        BY <1>1, ConnectionFacts
      <4>2. PICK v : /\ Fits(p, v)
                     /\ connectivity_failed([connectivity EXCEPT ![p] = u], p, f) = [connectivity EXCEPT ![p] = v]
        BY <1>1, <1>6, <2>4, <2>9, <3>1, FailedFits
      <4>3. connectivity' = [connectivity EXCEPT ![p] = v]
        BY <1>6, <2>9, <3>1, <4>1, <4>2
      <4> QED BY <2>5, <2>9, <4>2, <4>3
    <3>2. CASE ~(~record.pairing /\ canonical_session(p) = {})
      <4>1. connectivity' = [connectivity EXCEPT ![p] = u]
        BY <1>6, <2>9, <3>2
      <4> QED BY <1>6, <2>5, <2>9, <4>1
    <3> QED BY <3>1, <3>2
  <2> QED BY <2>0, <2>6, <2>7, <2>8, <2>9
<1>12. CASE finish_pairing(c)
  <2>0. /\ UNCHANGED <<state, trust, generations, routes, invalidating, restarts>>
        /\ conns[c].stage \in {"paired", "unpaired"} /\ pending' = [pending EXCEPT ![c] = "none"]
    BY <1>12 DEF finish_pairing
  <2>1. /\ pending' \in [Conns -> PendingRecords] /\ pending'[c] = "none"
        /\ \A d \in Conns : d # c => pending'[d] = pending[d]
    BY <1>1, <2>0 DEF PendingRecords
  <2>2. CASE conns[c].stage = "paired" /\ register_session(c, outbound, FALSE)
    <3>1. register_session(c, [outbound EXCEPT ![p] = o], FALSE)
      BY <1>8, <2>2
    <3>2. RegisterStep(c, p, o, FALSE)
      BY <1>4, <1>7, <2>0, <2>1, <2>2, <3>1 DEF RegisterStep
    <3> QED BY <1>2, <3>2, RegisterIInv
  <2>3. CASE Drop(c) /\ UNCHANGED <<sessions, outbound, connectivity>>
    <3>1. /\ outbound' = [outbound EXCEPT ![p] = o] /\ connectivity' = [connectivity EXCEPT ![p] = u]
          /\ sessions' = sessions \ {c}
      BY <1>6, <1>8, <1>9, <2>0, <2>3
    <3>2. Drop(c) /\ Fits(p, u) /\ UNCHANGED <<state, trust, generations, routes, invalidating, restarts>>
      BY <1>6, <2>0, <2>3
    <3> QED BY <1>2, <1>7, <2>1, <3>1, <3>2, DropIInv
  <2> QED BY <1>12, <2>2, <2>3 DEF finish_pairing
<1>13. CASE JoinSession(c)
  <2> DEFINE Update(peer) == IF conns[c].failure # "Retryable" /\ ~peer.suspended
                             THEN failed(lost(peer), conns[c].failure) ELSE lost(peer)
  <2>0. /\ UNCHANGED <<state, trust, generations, pending, outbound, routes, invalidating, restarts>>
        /\ conns[c].stage = "ended" /\ sessions' = sessions \ {c} /\ Drop(c)
    BY <1>13 DEF JoinSession
  <2>1. outbound' = [outbound EXCEPT ![p] = o] /\ pending'[c] = "none" /\ ~conns[c].open
    BY <1>1, <1>8, <2>0, StageFacts DEF StageOk
  <2>2. CASE c \in sessions /\ u # Unmanaged
    <3>1. canonical_session(p) = {}
      <4> SUFFICES ASSUME NEW d \in sessions, conns[d].peer = p, conns[d].open PROVE FALSE
        BY DEF canonical_session
      <4>1. d = c
        BY <1>4, <2>2 DEF IInv, SessionInv
      <4> QED BY <2>1, <4>1
    <3>2. /\ lost(u) \in ManagedPeers /\ lost(u).suspended = u.suspended
          /\ u.suspended => ~lost(u).due
      BY PolicyOps
    <3>3. Fits(p, lost(u))
      BY <1>6, <2>2, <3>1, <3>2 DEF Fits
    <3>4. conns[c].failure \in Failures
      BY <1>1, ConnectionFacts
    <3>5. /\ failed(lost(u), conns[c].failure) \in ManagedPeers
          /\ failed(lost(u), conns[c].failure).suspended = lost(u).suspended
      BY <3>2, <3>4, FailedFacts
    <3>6. Fits(p, Update(u))
      <4>1. CASE conns[c].failure # "Retryable" /\ ~u.suspended
        <5>1. ~failed(lost(u), conns[c].failure).suspended
          BY <3>2, <3>5, <4>1
        <5>2. Fits(p, failed(lost(u), conns[c].failure))
          BY <1>6, <2>2, <3>1, <3>5, <5>1 DEF Fits
        <5> QED BY <4>1, <5>2
      <4>2. CASE ~(conns[c].failure # "Retryable" /\ ~u.suspended)
        BY <3>3, <4>2
      <4> QED BY <4>1, <4>2
    <3>7. PICK v : v = Update(u)
      OBVIOUS
    <3>8. connectivity' = [connectivity EXCEPT ![p] = Update(connectivity[p])]
      BY <1>4, <1>5, <1>13, <2>2 DEF JoinSession, WithPeer
    <3> HIDE DEF Update
    <3>9. connectivity' = [connectivity EXCEPT ![p] = v]
      BY <1>5, <3>7, <3>8
    <3> QED BY <1>1, <1>2, <1>7, <2>0, <2>1, <3>6, <3>7, <3>9, DropIInv
  <2>3. CASE ~(c \in sessions /\ u # Unmanaged)
    <3>1. connectivity' = [connectivity EXCEPT ![p] = u]
      BY <1>4, <1>5, <1>6, <1>13, <2>3 DEF JoinSession, WithPeer
    <3> QED BY <1>1, <1>2, <1>6, <1>7, <2>0, <2>1, <3>1, DropIInv
  <2> QED BY <2>2, <2>3
<1> QED BY <1>10, <1>11, <1>12, <1>13 DEF Join

-----------------------------------------------------------------------------
(* Shutdown and start *)

\* shutdown_runtime gives every registry back and closes every connection.
LEMMA ShutdownIInv ==
    ASSUME IInv, shutdown_runtime
    PROVE  IInv'
<1>1. /\ TypeOK /\ outbound \in [Peers -> OutboundRecords] /\ conns \in [Conns -> Connections]
  BY DEF IInv, TypeOK
<1>2. /\ state' = "ShuttingDown" /\ connectivity' = [p \in Peers |-> Unmanaged]
      /\ outbound' = [p \in Peers |-> cancel_outbound(outbound, p)[p]]
      /\ pending' = [c \in Conns |-> "none"] /\ sessions' = {}
      /\ conns' = [c \in Conns |-> [conns[c] EXCEPT !.open = FALSE]]
      /\ UNCHANGED <<trust, generations, routes, invalidating, restarts>>
  BY DEF shutdown_runtime, CancelAll
<1>3. ASSUME NEW p \in Peers
      PROVE  /\ outbound'[p] \in OutboundRecords
             /\ outbound'[p].conn = outbound[p].conn /\ outbound'[p].pairing = outbound[p].pairing
             /\ outbound'[p] # NoDial => outbound[p] # NoDial /\ outbound'[p].cancelled
  <2>1. PICK o \in OutboundRecords :
           /\ cancel_outbound(outbound, p) = [outbound EXCEPT ![p] = o]
           /\ o.conn = outbound[p].conn /\ o.pairing = outbound[p].pairing
           /\ o # NoDial => outbound[p] # NoDial /\ o.cancelled
    BY <1>1, CancelFacts
  <2>2. outbound'[p] = o
    BY <1>1, <1>2, <2>1
  <2> QED BY <2>1, <2>2
<1>4. ASSUME NEW d \in Conns
      PROVE  /\ conns'[d] \in Connections /\ conns'[d].stage = conns[d].stage
             /\ conns'[d].peer = conns[d].peer /\ conns'[d].origin = conns[d].origin
             /\ conns'[d].pairing = conns[d].pairing /\ conns'[d].open = FALSE
             /\ conns[d] = Free => conns'[d] = Free
  <2>1. LET j == [conns[d] EXCEPT !.open = FALSE] IN
        /\ j \in Connections /\ j.stage = conns[d].stage /\ j.peer = conns[d].peer
        /\ j.origin = conns[d].origin
        /\ j.pairing = conns[d].pairing /\ j.gen = conns[d].gen /\ j.open = FALSE
        /\ (conns[d] = Free => j = Free)
    BY <1>1, ClosedFacts
  <2>2. conns'[d] = [conns[d] EXCEPT !.open = FALSE]
    BY <1>2
  <2> QED BY <2>1, <2>2
<1>5. TypeOK'
  <2>1. /\ outbound' \in [Peers -> OutboundRecords] /\ conns' \in [Conns -> Connections]
        /\ connectivity' \in [Peers -> ManagedPeers] /\ pending' \in [Conns -> PendingRecords]
    BY <1>2, <1>3, <1>4, PolicyValues DEF PendingRecords
  <2> QED BY <1>1, <1>2, <2>1 DEF TypeOK, RuntimeStates
<1>6. StageInv'
  <2> SUFFICES ASSUME NEW d \in Conns PROVE StageOk(d)'
    BY DEF StageInv
  <2>1. StageOk(d) /\ pending'[d] = "none"
    BY <1>2 DEF IInv, StageInv
  <2> QED BY <1>2, <1>4, <2>1 DEF StageOk
<1>7. StateInv'
  BY <1>2 DEF StateInv
<1>8. DialInv'
  <2>1. ASSUME NEW d \in Conns PROVE Dialled(d)'
    <3> SUFFICES ASSUME conns[d].origin = "Outbound", conns[d].stage \in Working PROVE Dialled(d)'
      BY <1>4 DEF Dialled
    <3>1. Dialled(d) /\ conns[d].peer \in Peers
      BY StageFacts DEF IInv, DialInv, StageInv, StageOk
    <3> QED BY <1>3, <1>4, <3>1 DEF Dialled
  <2> QED BY <1>3, <2>1 DEF IInv, DialInv
<1>9. SessionInv'
  BY <1>2 DEF SessionInv, Authorized
<1>10. PolicyInv'
  <2> SUFFICES ASSUME NEW p \in Peers PROVE PolicyOk(p)'
    BY DEF PolicyInv
  <2>1. Quiet(p)' /\ connectivity'[p] = Unmanaged
    BY <1>2, <1>3 DEF Quiet
  <2> QED BY <1>2, <2>1, PolicyValues DEF PolicyOk
<1>11. CountInv'
  <2>1. /\ IsFiniteSet(PairingsInFlight) /\ IsFiniteSet(Dials)
        /\ MaxPending \in Nat /\ MaxOutbound \in Nat /\ MaxSessions \in Nat /\ MaxManagedPeers \in Nat
    BY <1>1, Finite
  <2>2. PairingsInFlight' \subseteq PairingsInFlight /\ Dials' \subseteq Dials
    BY <1>3, <1>4 DEF PairingsInFlight, Dials
  <2>3. Cardinality(PairingsInFlight') <= MaxPending /\ Cardinality(Dials') <= MaxOutbound
    BY <2>1, <2>2, CountPart DEF IInv, CountInv
  <2>4. Records' = {} /\ sessions' = {} /\ Managed(connectivity)' = {}
    BY <1>2 DEF Records, Managed
  <2> QED BY <2>1, <2>3, <2>4, FS_EmptySet DEF CountInv
<1> QED BY <1>5, <1>6, <1>7, <1>8, <1>9, <1>10, <1>11 DEF IInv

\* A fresh daemon: free slots, no dials, and the policies of the journal if they fit.
LEMMA FreshFacts ==
    ASSUME trust \in [Peers -> {"Unknown", "Trusted", "Revoked"}]
    PROVE  /\ FromJournal \in [Peers -> ManagedPeers] /\ NoDial \in OutboundRecords
           /\ \A p \in Peers : /\ trust[p] # "Trusted" => FromJournal[p] = Unmanaged
                               /\ FromJournal[p].suspended = FALSE
           /\ StartFits => Cardinality(Managed(FromJournal)) <= MaxManagedPeers
<1>1. 0 \in 0..MaxWaiters
  BY BoundsAssumption
<1>2. NoDial \in OutboundRecords
  BY <1>1 DEF NoDial, OutboundRecords
<1>3. /\ FromJournal \in [Peers -> ManagedPeers]
      /\ \A p \in Peers : /\ trust[p] # "Trusted" => FromJournal[p] = Unmanaged
                          /\ FromJournal[p].suspended = FALSE
  BY PolicyValues DEF FromJournal, Trusted
<1>4. Managed(FromJournal) = Trusted
  BY PolicyValues DEF Managed, FromJournal, Trusted
<1> QED BY <1>2, <1>3, <1>4 DEF StartFits

\* The last task was joined; the daemon stops.
LEMMA StoppedIInv ==
    ASSUME IInv, ShutdownCompletes
    PROVE  IInv'
<1>1. /\ state = "ShuttingDown" /\ state' = "Stopped" /\ \A c \in Conns : conns[c] = Free
      /\ UNCHANGED <<trust, generations, conns, sessions, pending, outbound, connectivity,
                     routes, invalidating, restarts>>
  BY DEF ShutdownCompletes
<1>2. TypeOK'
  BY <1>1 DEF IInv, TypeOK, RuntimeStates
<1>3. StageInv' /\ DialInv' /\ SessionInv'
  BY <1>1 DEF IInv, StageInv, StageOk, DialInv, Dialled, SessionInv, Authorized
<1>4. StateInv'
  BY <1>1 DEF IInv, StateInv
<1>5. PolicyInv'
  BY <1>1 DEF IInv, PolicyInv, PolicyOk, Quiet
<1>6. CountInv'
  BY <1>1 DEF IInv, CountInv, PairingsInFlight, Records, Dials, Managed
<1> QED BY <1>2, <1>3, <1>4, <1>5, <1>6 DEF IInv

\* The next start over the same journal.
LEMMA StartIInv ==
    ASSUME IInv, start
    PROVE  IInv'
<1>1. /\ TypeOK /\ trust \in [Peers -> {"Unknown", "Trusted", "Revoked"}]
      /\ connectivity \in [Peers -> ManagedPeers] /\ restarts \in Nat /\ MaxRestarts \in Nat
      /\ MaxGeneration \in Nat /\ MaxPending \in Nat /\ MaxOutbound \in Nat
  BY BoundsAssumption DEF IInv, TypeOK, validate
<1>2. /\ state = "Stopped" /\ restarts < MaxRestarts /\ restarts' = restarts + 1
      /\ \/ StartFits /\ state' = "Running" /\ connectivity' = FromJournal
         \/ state' = "StartRefused" /\ UNCHANGED connectivity
      /\ outbound' = [p \in Peers |-> NoDial] /\ generations' = [p \in Peers |-> 0]
      /\ routes' \subseteq Peers
      /\ UNCHANGED <<trust, conns, sessions, pending, invalidating>>
  BY DEF start
<1>3. /\ \A c \in Conns : conns[c] = Free /\ pending[c] = "none"
      /\ sessions = {}
  BY <1>2 DEF IInv, StateInv
<1>4. TypeOK'
  <2>1. connectivity' \in [Peers -> ManagedPeers] /\ outbound' \in [Peers -> OutboundRecords]
    BY <1>1, <1>2, FreshFacts
  <2>2. restarts' \in 0..MaxRestarts /\ generations' \in [Peers -> 0..MaxGeneration]
    BY <1>1, <1>2
  <2> QED BY <1>1, <1>2, <2>1, <2>2 DEF TypeOK, RuntimeStates
<1>5. StageInv' /\ StateInv'
  BY <1>2, <1>3, FreeFacts DEF StageInv, StageOk, StateInv
<1>6. DialInv'
  <2>1. \A c \in Conns : Dialled(c)'
    BY <1>2, <1>3, FreeFacts DEF Dialled
  <2> QED BY <1>2, <2>1 DEF DialInv
<1>7. SessionInv'
  BY <1>2, <1>3 DEF SessionInv, Authorized
<1>8. PolicyInv'
  <2> SUFFICES ASSUME NEW p \in Peers PROVE PolicyOk(p)'
    BY DEF PolicyInv
  <2>1. Quiet(p)' /\ PolicyOk(p)
    BY <1>2 DEF Quiet, IInv, PolicyInv
  <2>2. CASE connectivity' = FromJournal
    BY <1>1, <1>2, <1>3, <2>1, <2>2, FreshFacts DEF PolicyOk
  <2>3. CASE UNCHANGED connectivity
    BY <1>2, <1>3, <2>1, <2>3 DEF PolicyOk
  <2> QED BY <1>2, <2>2, <2>3
<1>9. CountInv'
  <2>1. Cardinality(Managed(connectivity')) <= MaxManagedPeers
    BY <1>1, <1>2, FreshFacts DEF IInv, CountInv
  <2>2. Managed(connectivity)' = Managed(connectivity') /\ sessions' = sessions
    BY <1>2 DEF Managed
  <2>3. PairingsInFlight' = PairingsInFlight /\ Records' = Records
    BY <1>2 DEF PairingsInFlight, Records
  <2>4. Dials' = {}
    BY <1>2 DEF Dials
  <2> QED BY <1>1, <2>1, <2>2, <2>3, <2>4, FS_EmptySet DEF IInv, CountInv
<1> QED BY <1>4, <1>5, <1>6, <1>7, <1>8, <1>9 DEF IInv

-----------------------------------------------------------------------------
(* The invariant is inductive *)

\* It holds when the daemon has started.
LEMMA InitIInv == Init => IInv
<1> SUFFICES ASSUME Init PROVE IInv
  OBVIOUS
<1>1. /\ MaxGeneration \in Nat /\ MaxRestarts \in Nat /\ MaxPending \in Nat /\ MaxOutbound \in Nat
      /\ MaxSessions \in Nat
  BY BoundsAssumption DEF validate
<1>2. /\ state = "Running" /\ trust \in [Peers -> {"Unknown", "Trusted", "Revoked"}] /\ StartFits
      /\ generations = [p \in Peers |-> 0] /\ conns = [c \in Conns |-> Free] /\ sessions = {}
      /\ pending = [c \in Conns |-> "none"] /\ outbound = [p \in Peers |-> NoDial]
      /\ connectivity = FromJournal /\ routes \subseteq Peers /\ invalidating = NoPeer /\ restarts = 0
  BY DEF Init
<1>3. TypeOK
  <2>1. connectivity \in [Peers -> ManagedPeers] /\ outbound \in [Peers -> OutboundRecords]
    BY <1>2, FreshFacts
  <2>2. conns \in [Conns -> Connections] /\ pending \in [Conns -> PendingRecords]
    BY <1>2, FreeFacts DEF PendingRecords
  <2>3. restarts \in 0..MaxRestarts /\ generations \in [Peers -> 0..MaxGeneration]
    BY <1>1, <1>2
  <2> QED BY <1>2, <2>1, <2>2, <2>3 DEF TypeOK, RuntimeStates
<1>4. StageInv /\ StateInv
  BY <1>2, FreeFacts DEF StageInv, StageOk, StateInv
<1>5. DialInv /\ SessionInv
  BY <1>2, FreeFacts DEF DialInv, Dialled, SessionInv, Authorized
<1>6. PolicyInv
  BY <1>2, FreshFacts DEF PolicyInv, PolicyOk, Quiet
<1>7. CountInv
  <2>1. PairingsInFlight = {} /\ Records = {} /\ Dials = {} /\ sessions = {}
    BY <1>2, FreeFacts, StageFacts DEF PairingsInFlight, Records, Dials, InFlight
  <2>2. Cardinality(Managed(connectivity)) <= MaxManagedPeers
    BY <1>2, FreshFacts
  <2> QED BY <1>1, <2>1, <2>2, FS_EmptySet DEF CountInv
<1> QED BY <1>3, <1>4, <1>5, <1>6, <1>7 DEF IInv

\* Every step keeps it.
LEMMA NextIInv == IInv /\ [Next]_vars => IInv'
<1> SUFFICES ASSUME IInv, [Next]_vars PROVE IInv'
  OBVIOUS
<1>1. ASSUME NEW c \in Conns, TaskNext(c) PROVE IInv'
  BY <1>1, TaskIInv
<1>2. ASSUME NEW c \in Conns, Join(c) PROVE IInv'
  BY <1>2, JoinIInv
<1>3. ASSUME NEW c \in Conns, JoinOrAbort(c) \/ \E p \in Peers : accept_incoming(c, p) PROVE IInv'
  BY <1>3, SlotIInv
<1>4. ASSUME NEW c \in Conns, DisconnectSession(c) PROVE IInv'
  BY <1>4, DisconnectIInv
<1>5. ASSUME NEW c \in Conns, NEW accepted \in BOOLEAN, confirm_pairing(c, accepted) PROVE IInv'
  BY <1>5, ConfirmIInv
<1>6. ASSUME NEW p \in Peers, take_due(p) \/ Request(p) PROVE IInv'
  <2>1. CASE RevokePeer(p) \/ ForgetPeer(p)
    BY <2>1, CommitIInv
  <2>2. CASE ~(RevokePeer(p) \/ ForgetPeer(p))
    <3>1. \/ take_due(p) \/ RememberPeer(p)
          \/ \E hinted \in BOOLEAN : ConnectPeer(p, hinted) \/ BeginPairing(p, hinted)
      BY <1>6, <2>2 DEF Request
    <3> QED BY <3>1, OutboundIInv
  <2> QED BY <2>1, <2>2
<1>7. ASSUME NEW p \in Peers, invalidate_peer(p) PROVE IInv'
  BY <1>7, InvalidateIInv
<1>8. CASE shutdown_runtime \/ ShutdownCompletes \/ start
  BY <1>8, ShutdownIInv, StoppedIInv, StartIInv
<1>9. CASE UNCHANGED vars
  <2>1. UNCHANGED <<state, trust, generations, conns, sessions, pending, outbound,
                    connectivity, routes, invalidating, restarts>>
    BY <1>9 DEF vars
  <2> QED BY <2>1 DEF IInv, TypeOK, StageInv, StageOk, StateInv, DialInv, Dialled, SessionInv, Authorized,
                      PolicyInv, PolicyOk, Quiet, CountInv, PairingsInFlight, Records, Dials, Managed
<1> QED BY <1>1, <1>2, <1>3, <1>4, <1>5, <1>6, <1>7, <1>8, <1>9 DEF Next

\* The inductive invariant of the supervisor: stages, registries, dial records,
\* policies and capacities agree in every reachable state.
THEOREM InductiveInvariant == Spec => []IInv
BY InitIInv, NextIInv, PTL DEF Spec

\* Type correctness; the waiters coalesced on one dial stay within MAX_DIAL_WAITERS.
THEOREM TypeCorrect == Spec => []TypeOK
<1>1. IInv => TypeOK
  BY DEF IInv
<1> QED BY <1>1, InductiveInvariant, PTL

-----------------------------------------------------------------------------
(* What follows *)

\* A registered session belongs to a trusted peer, a registered pairing to one
\* that is not revoked, each admitted under the forget generation that still
\* holds (register_session, register_pending, invalidate_peer).
THEOREM Authorization == Spec => []RegistriesAuthorized
<1>1. IInv => RegistriesAuthorized
  BY DEF IInv, SessionInv, Authorized, RegistriesAuthorized
<1> QED BY <1>1, InductiveInvariant, PTL

\* Nothing works for a peer whose revoke or forget has been applied.
THEOREM Invalidation == Spec => []InvalidatedPeerIsQuiet
<1>1. IInv => InvalidatedPeerIsQuiet
  <2> SUFFICES ASSUME IInv, NEW p \in Peers, trust[p] # "Trusted", p # invalidating
               PROVE  /\ connectivity[p] = Unmanaged
                      /\ \A c \in sessions : conns[c].peer # p
                      /\ outbound[p] # NoDial => outbound[p].pairing \/ outbound[p].cancelled
    BY DEF InvalidatedPeerIsQuiet
  <2>1. PolicyOk(p) /\ sessions \subseteq Conns
    BY DEF IInv, PolicyInv, TypeOK
  <2>2. ASSUME NEW c \in sessions, conns[c].peer = p PROVE FALSE
    <3>1. Authorized(c)
      BY <2>1 DEF IInv, SessionInv
    <3> QED BY <2>2, <3>1 DEF Authorized
  <2> QED BY <2>1, <2>2 DEF PolicyOk, Quiet
<1> QED BY <1>1, InductiveInvariant, PTL

\* A suspended peer has no deadline and no session dial that still counts.
THEOREM Suspension == Spec => []SuspendedStaysQuiet
<1>1. IInv => SuspendedStaysQuiet
  BY DEF IInv, PolicyInv, PolicyOk, Quiet, SuspendedStaysQuiet
<1> QED BY <1>1, InductiveInvariant, PTL

\* One session for a device, and a healthy one is what the policy shows.
THEOREM OneSession == Spec => []CanonicalSession
<1>1. IInv => CanonicalSession
  <2> SUFFICES ASSUME IInv PROVE CanonicalSession
    OBVIOUS
  <2>1. ASSUME NEW c \in sessions, conns[c].open, conns[c].peer # invalidating
        PROVE  LET peer == connectivity[conns[c].peer] IN
               peer.state = "Connected" /\ peer.session = c /\ ~peer.due
    <3>1. StageOk(c)
      BY DEF IInv, StageInv, TypeOK
    <3>2. PolicyOk(conns[c].peer)
      BY <3>1 DEF StageOk, IInv, PolicyInv
    <3> QED BY <2>1, <3>2 DEF PolicyOk
  <2> QED BY <2>1 DEF IInv, SessionInv, CanonicalSession
<1> QED BY <1>1, InductiveInvariant, PTL

\* The configured bounds hold for pairings in flight, dial records, and the
\* dials that are really being set up: these are mapped one to one to records.
THEOREM Bounds == Spec => []BoundsHold
<1>1. IInv => BoundsHold
  <2> SUFFICES ASSUME IInv PROVE BoundsHold
    OBVIOUS
  <2> DEFINE S == {c \in Conns : conns[c].stage \in Setup /\ conns[c].origin = "Outbound"}
             f == [c \in S |-> conns[c].peer]
  <2>1. TypeOK /\ NoConn \notin Conns
    BY IdsAssumption DEF IInv
  <2>2. ASSUME NEW c \in S PROVE conns[c].peer \in Dials /\ outbound[conns[c].peer].conn = c
    <3>1. Dialled(c) /\ StageOk(c) /\ conns[c].stage \in Working /\ conns[c].stage # "free"
      BY StageFacts DEF IInv, DialInv, StageInv
    <3>2. conns[c].peer \in Peers /\ outbound[conns[c].peer].conn = c
      BY <3>1 DEF Dialled, StageOk
    <3> QED BY <2>1, <3>2 DEF Dials, NoDial
  <2>3. f \in Injection(S, Dials)
    <3>1. f \in [S -> Dials] /\ DOMAIN f = S
      BY <2>2
    <3>2. ASSUME NEW a \in S, NEW b \in S, f[a] = f[b] PROVE a = b
      BY <2>2, <3>2
    <3> QED BY <3>1, <3>2 DEF Injection, IsInjective
  <2>4. IsFiniteSet(Dials) /\ MaxOutbound \in Nat /\ Cardinality(Dials) <= MaxOutbound
    BY <2>1, Finite DEF IInv, CountInv
  <2> HIDE DEF S, f
  <2>5. IsFiniteSet(S) /\ Cardinality(S) <= Cardinality(Dials)
    BY <2>3, <2>4, FS_Injection
  <2>6. Cardinality(S) \in Nat /\ Cardinality(Dials) \in Nat
    BY <2>4, <2>5, FS_CardinalityType
  <2>7. Cardinality(S) <= MaxOutbound
    BY <2>4, <2>5, <2>6
  <2> QED BY <2>4, <2>7 DEF BoundsHold, IInv, CountInv, S
<1> QED BY <1>1, InductiveInvariant, PTL

\* Sessions, managed peers and registered pairings stay within max_active_sessions,
\* MAX_MANAGED_PEERS and max_pending_pairings.
THEOREM Capacity ==
    Spec => [](/\ Cardinality(sessions) <= MaxSessions
               /\ Cardinality(Managed(connectivity)) <= MaxManagedPeers
               /\ Cardinality(Records) <= MaxPending)
<1>1. IInv => /\ Cardinality(sessions) <= MaxSessions
              /\ Cardinality(Managed(connectivity)) <= MaxManagedPeers
              /\ Cardinality(Records) <= MaxPending
  BY DEF IInv, CountInv
<1> QED BY <1>1, InductiveInvariant, PTL

-----------------------------------------------------------------------------
(* A healthy session is kept *)

\* Why a healthy session may leave the registry.
Excused(c) ==
    LET p == conns[c].peer IN
    \/ p = invalidating \/ state' = "ShuttingDown" \/ connectivity'[p].suspended
    \/ \E d \in sessions' : /\ conns'[d].peer = p /\ conns'[d].open
                            /\ conns[c].origin # preferred(p) /\ conns'[d].origin = preferred(p)

\* register_session removes a healthy session only for one of the preferred direction.
LEMMA RegisterKeeps ==
    ASSUME IInv, NEW n \in Conns, conns[n].stage \in {"authorized", "paired"},
           NEW ob, NEW charged, register_session(n, ob, charged),
           NEW c \in Conns, Healthy(c), c \notin sessions'
    PROVE  Excused(c)
<1> DEFINE p == conns[n].peer
           existing == {s \in sessions : conns[s].peer = p}
<1>1. c \in sessions /\ conns[c].open /\ n \notin sessions /\ conns[n] \in Connections
  BY DEF Healthy, IInv, StageInv, StageOk, TypeOK
<1>2. /\ ~\E s \in existing : conns[s].open /\ ~replaces(conns[n].origin, conns[s].origin, p)
      /\ conns[n].open /\ sessions' = (sessions \ existing) \cup {n}
      /\ conns' = [s \in Conns |->
                     IF s = n THEN [conns[n] EXCEPT !.stage = "session", !.answer = "none",
                                                    !.pairing = FALSE]
                     ELSE IF s \in existing THEN [conns[s] EXCEPT !.open = FALSE]
                     ELSE conns[s]]
  BY <1>1 DEF register_session
<1>3. c \in existing /\ conns[c].peer = p
  BY <1>1, <1>2
<1>4. conns[n].origin = preferred(p) /\ conns[c].origin # preferred(p)
  BY <1>1, <1>2, <1>3 DEF replaces
<1>5. conns'[n] = [conns[n] EXCEPT !.stage = "session", !.answer = "none", !.pairing = FALSE]
  BY <1>2
<1>6. conns'[n].peer = p /\ conns'[n].open = conns[n].open /\ conns'[n].origin = conns[n].origin
  BY <1>1, <1>5 DEF Connections
<1>7. n \in sessions'
  BY <1>2
<1> HIDE DEF existing
<1> QED BY <1>2, <1>3, <1>4, <1>6, <1>7 DEF Excused

\* A healthy registered session leaves the registry only for a disconnect, a
\* durable revoke or forget, a shutdown, or a session in the preferred direction.
THEOREM SessionKept == Spec => HealthySessionKept
<1>1. ASSUME IInv, [Next]_vars
      PROVE  [\A c \in Conns : Healthy(c) /\ c \notin sessions' => Excused(c)]_vars
  <2> SUFFICES ASSUME NEW c \in Conns, Healthy(c), c \notin sessions' PROVE Excused(c)
    OBVIOUS
  <2>1. c \in sessions /\ conns[c].open /\ TypeOK /\ StageOk(c)
    BY <1>1 DEF Healthy, IInv, StageInv
  <2>2. ASSUME UNCHANGED sessions PROVE FALSE
    BY <2>1, <2>2
  <2>3. Next
    BY <1>1, <2>2 DEF vars
  <2>4. ASSUME NEW d \in Conns, TaskNext(d) \/ JoinOrAbort(d) PROVE FALSE
    <3>1. UNCHANGED Registries
      BY <2>4 DEF TaskNext, JoinOrAbort, TaskStep, accept_inbound, prepare_outbound, request_intent, admit,
                  VerificationReady, SetupFails, ConnectionCloses, StartConfirm, PairingFails,
                  RemoteDecision, CommitTrust, CompletePairing, SessionTaskEnds
    <3> QED BY <2>2, <3>1 DEF Registries
  <2>5. ASSUME NEW d \in Conns, \/ \E accepted \in BOOLEAN : confirm_pairing(d, accepted)
                                \/ \E p \in Peers : accept_incoming(d, p)
        PROVE  FALSE
    BY <2>2, <2>5 DEF confirm_pairing, accept_incoming, TaskStep, Registries
  <2>6. ASSUME NEW p \in Peers, take_due(p) \/ Request(p) PROVE FALSE
    BY <2>2, <2>6 DEF take_due, Request, ConnectPeer, BeginPairing, RememberPeer, RevokePeer, ForgetPeer
  <2>7. ASSUME ShutdownCompletes \/ start PROVE FALSE
    BY <2>2, <2>7 DEF ShutdownCompletes, start
  <2>8. CASE shutdown_runtime
    BY <2>8 DEF shutdown_runtime, Excused
  <2>9. ASSUME NEW p \in Peers, invalidate_peer(p) PROVE Excused(c)
    BY <2>1, <2>9 DEF invalidate_peer, Excused
  <2>10. ASSUME NEW d \in Conns, DisconnectSession(d) PROVE Excused(c)
    <3>1. d = c /\ Running /\ connectivity' = WithPeer(connectivity, conns[c].peer, LAMBDA peer : lost(suspend(peer)))
      BY <2>1, <2>10 DEF DisconnectSession
    <3>2. PICK p \in Peers : p = conns[c].peer
      BY <2>1 DEF StageOk
    <3>3. p # invalidating /\ PolicyOk(p) /\ connectivity \in [Peers -> ManagedPeers]
      BY <1>1, <3>1, IdsAssumption DEF Running, IInv, PolicyInv, TypeOK
    <3>4. connectivity[p] \in ManagedPeers /\ connectivity[p] # Unmanaged
      BY <2>1, <3>2, <3>3, PolicyValues DEF PolicyOk
    <3>5. suspend(connectivity[p]) \in ManagedPeers /\ suspend(connectivity[p]).suspended = TRUE
      BY <3>4, PolicyOps
    <3>6. lost(suspend(connectivity[p])).suspended = TRUE
      BY <3>5, PolicyOps
    <3>7. connectivity' = [connectivity EXCEPT ![p] = lost(suspend(connectivity[p]))]
      BY <3>1, <3>2, <3>4 DEF WithPeer
    <3>8. connectivity'[p].suspended
      BY <3>3, <3>6, <3>7
    <3> QED BY <3>2, <3>8 DEF Excused
  <2>11. ASSUME NEW d \in Conns, Join(d) PROVE Excused(c)
    <3>1. CASE JoinSession(d)
      <4>1. d = c /\ conns[d].stage = "ended"
        BY <2>1, <3>1 DEF JoinSession
      <4> QED BY <2>1, <4>1 DEF StageOk
    <3>2. CASE ~JoinSession(d)
      <4>1. /\ conns[d].stage \in {"authorized", "paired"}
            /\ \E ob, charged : register_session(d, ob, charged)
        <5>1. CASE JoinIncoming(d)
          BY <2>2, <5>1 DEF JoinIncoming
        <5>2. CASE JoinOutbound(d)
          BY <2>2, <5>2 DEF JoinOutbound
        <5>3. CASE finish_pairing(d)
          BY <2>2, <5>3 DEF finish_pairing
        <5> QED BY <2>11, <3>2, <5>1, <5>2, <5>3 DEF Join
      <4> QED BY <1>1, <4>1, RegisterKeeps
    <3> QED BY <3>1, <3>2
  <2> QED BY <2>3, <2>4, <2>5, <2>6, <2>7, <2>8, <2>9, <2>10, <2>11 DEF Next
<1>2. (\A c \in Conns : Healthy(c) /\ c \notin sessions' => Excused(c)) <=>
      (\A c \in Conns : Healthy(c) /\ c \notin sessions' =>
          LET p == conns[c].peer IN
          \/ p = invalidating \/ state' = "ShuttingDown" \/ connectivity'[p].suspended
          \/ \E d \in sessions' : /\ conns'[d].peer = p /\ conns'[d].open
                                  /\ conns[c].origin # preferred(p) /\ conns'[d].origin = preferred(p))
  BY DEF Excused
<1>3. IInv /\ [Next]_vars =>
      [\A c \in Conns : Healthy(c) /\ c \notin sessions' =>
          LET p == conns[c].peer IN
          \/ p = invalidating \/ state' = "ShuttingDown" \/ connectivity'[p].suspended
          \/ \E d \in sessions' : /\ conns'[d].peer = p /\ conns'[d].open
                                  /\ conns[c].origin # preferred(p) /\ conns'[d].origin = preferred(p)]_vars
  BY <1>1, <1>2
<1> QED BY <1>3, InductiveInvariant, PTL DEF Spec, HealthySessionKept

=============================================================================
