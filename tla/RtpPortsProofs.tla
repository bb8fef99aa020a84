---------------------------- MODULE RtpPortsProofs ----------------------------
(***************************************************************************)
(* Theorems about the search for ports, for any number of connections and  *)
(* of ports.                                                               *)
(*                                                                         *)
(* Why the RTP port that a client is told belongs to its connection: a     *)
(* port that a search binds was free, so it is not the one that the        *)
(* connection advertises already, and closing it cannot release the        *)
(* latter.  Why a SETUP leaks one descriptor at most: a search that tries  *)
(* another pair has closed both sockets of the last one.                   *)
(*                                                                         *)
(* Why a search ends: P rises by two after each pair and stops at the      *)
(* limit, before a u_short would wrap.                                     *)
(***************************************************************************)
EXTENDS RtpPorts, FiniteSetTheorems, TLAPS

(* A step changes the ports, the sockets and the control of one connection *)
(* only; these are the parts of its invariant.                             *)
SearchInv(s) ==
    /\ pc[s] \in {"openRtcp", "closeRtp"} =>
         rtp[s] = P[s] /\ P[s] < PortLimit /\ P[s] \in bound[s]
    /\ pc[s] \in {"openRtcp", "closeRtp"} /\ m_RtpServerPort[s] # 0 =>
         m_RtpServerPort[s] # rtp[s]
    /\ pc[s] \in {"closeRtp", "closeRtcp"} /\ m_RtpServerPort[s] # 0 =>
         m_RtpServerPort[s] # rtcp[s]
    /\ pc[s] # "closed" /\ m_RtpServerPort[s] # 0 => m_RtpServerPort[s] \in bound[s]

(* What bind() promises. *)
Disjoint == \A s, t \in Sessions : s # t => bound[s] \cap bound[t] = {}

Inv == TypeOK /\ Disjoint /\ \A s \in Sessions : SearchInv(s)

LEMMA InvInit == Init => Inv
  BY FirstPortAssumption, PortLimitAssumption, ModulusAssumption, MaxSetupsAssumption
  DEF Init, Inv, TypeOK, Disjoint, SearchInv, PortNumbers, NoPort

LEMMA NextPortType == \A port \in PortNumbers : NextPort(port) \in PortNumbers
  BY PortLimitAssumption, ModulusAssumption DEF NextPort, PortNumbers

LEMMA TypeStep == Inv /\ [Next]_vars => TypeOK'
  <1> SUFFICES ASSUME Inv, [Next]_vars PROVE TypeOK'
    OBVIOUS
  <1> USE PortLimitAssumption, ModulusAssumption, FirstPortAssumption, MaxSetupsAssumption
      DEF Inv, TypeOK, vars, handles, ports, At
  <1>1. ASSUME NEW s \in Sessions, Connect(s) PROVE TypeOK'
    BY <1>1 DEF Connect
  <1>2. ASSUME NEW s \in Sessions, SetupTcp(s) PROVE TypeOK'
    BY <1>2 DEF SetupTcp
  <1>3. ASSUME NEW s \in Sessions, SetupUdp(s) PROVE TypeOK'
    BY <1>3 DEF SetupUdp, PortNumbers
  <1>4. ASSUME NEW s \in Sessions, OpenRtp(s) PROVE TypeOK'
    BY <1>4, NextPortType DEF OpenRtp
  <1>5. ASSUME NEW s \in Sessions, OpenRtcp(s) PROVE TypeOK'
    <2>1. P[s] + 1 \in PortNumbers
      BY <1>5 DEF OpenRtcp, SearchInv, PortNumbers
    <2> QED BY <1>5, <2>1 DEF OpenRtcp
  <1>6. ASSUME NEW s \in Sessions, CloseRtp(s) PROVE TypeOK'
    BY <1>6 DEF CloseRtp
  <1>7. ASSUME NEW s \in Sessions, CloseRtcp(s) PROVE TypeOK'
    BY <1>7, NextPortType DEF CloseRtcp
  <1>8. ASSUME NEW s \in Sessions, GiveUp(s) PROVE TypeOK'
    BY <1>8 DEF GiveUp
  <1>9. ASSUME NEW s \in Sessions, Disconnect(s) PROVE TypeOK'
    BY <1>9 DEF Disconnect
  <1>10. ASSUME NEW port \in FirstPort..(PortLimit - 1), ForeignBinds(port) \/ ForeignReleases(port)
         PROVE TypeOK'
    <2>1. port \in PortNumbers BY DEF PortNumbers
    <2> QED BY <1>10, <2>1 DEF ForeignBinds, ForeignReleases
  <1>11. CASE UNCHANGED vars
    BY <1>11
  <1> QED BY <1>1, <1>2, <1>3, <1>4, <1>5, <1>6, <1>7, <1>8, <1>9, <1>10, <1>11
          DEF Next, InitTransport

(* A port is bound only when nobody holds it. *)
LEMMA DisjointStep == Inv /\ [Next]_vars => Disjoint'
  <1> SUFFICES ASSUME Inv, [Next]_vars PROVE Disjoint'
    OBVIOUS
  <1> USE DEF Inv, TypeOK, Disjoint, vars, handles, ports, At
  <1>1. ASSUME NEW s \in Sessions, OpenRtp(s) \/ OpenRtcp(s) PROVE Disjoint'
    BY <1>1 DEF OpenRtp, OpenRtcp, Free
  <1>2. ASSUME NEW s \in Sessions, CloseRtp(s) \/ CloseRtcp(s) \/ Disconnect(s) PROVE Disjoint'
    BY <1>2 DEF CloseRtp, CloseRtcp, Disconnect
  <1>3. CASE bound' = bound
    BY <1>3
  <1> QED
    BY <1>1, <1>2, <1>3
    DEF Next, InitTransport, Connect, SetupTcp, SetupUdp, GiveUp, ForeignBinds, ForeignReleases

LEMMA SearchStep == Inv /\ [Next]_vars => \A s \in Sessions : SearchInv(s)'
  <1> SUFFICES ASSUME Inv, [Next]_vars, NEW t \in Sessions PROVE SearchInv(t)'
    OBVIOUS
  <1> USE DEF Inv, TypeOK, SearchInv, vars, handles, ports, At
  <1>1. ASSUME NEW s \in Sessions, Connect(s) \/ SetupTcp(s) \/ SetupUdp(s) \/ GiveUp(s)
        PROVE SearchInv(t)'
    BY <1>1 DEF Connect, SetupTcp, SetupUdp, GiveUp
  <1>2. ASSUME NEW s \in Sessions, OpenRtp(s) PROVE SearchInv(t)'
    <2>1. CASE s # t BY <1>2, <2>1 DEF OpenRtp
    <2>2. CASE s = t BY <1>2, <2>2 DEF OpenRtp, InLoop, Free
    <2> QED BY <2>1, <2>2
  <1>3. ASSUME NEW s \in Sessions, OpenRtcp(s) PROVE SearchInv(t)'
    <2>1. CASE s # t BY <1>3, <2>1 DEF OpenRtcp
    <2>2. CASE s = t /\ Free(P[s] + 1)
      <3>1. P[s] + 1 \notin bound[s] BY <2>2 DEF Free
      <3> QED BY <1>3, <2>2, <3>1 DEF OpenRtcp
    <2>3. CASE s = t /\ ~Free(P[s] + 1) BY <1>3, <2>3 DEF OpenRtcp
    <2> QED BY <2>1, <2>2, <2>3
  <1>4. ASSUME NEW s \in Sessions, CloseRtp(s) PROVE SearchInv(t)'
    BY <1>4 DEF CloseRtp
  <1>5. ASSUME NEW s \in Sessions, CloseRtcp(s) PROVE SearchInv(t)'
    BY <1>5 DEF CloseRtcp
  <1>6. ASSUME NEW s \in Sessions, Disconnect(s) PROVE SearchInv(t)'
    BY <1>6 DEF Disconnect
  <1>7. ASSUME NEW port, ForeignBinds(port) \/ ForeignReleases(port) PROVE SearchInv(t)'
    BY <1>7 DEF ForeignBinds, ForeignReleases
  <1>8. CASE UNCHANGED vars
    BY <1>8
  <1> QED BY <1>1, <1>2, <1>3, <1>4, <1>5, <1>6, <1>7, <1>8 DEF Next, InitTransport

(* How many descriptors a connection has at each point of a search, and    *)
(* which of them the next step closes.                                     *)
Spare(s) == Cardinality(bound[s]) < setups[s]

LeakInv(s) ==
    /\ IsFiniteSet(bound[s])
    /\ pc[s] = "new" => bound[s] = {}
    /\ pc[s] = "ready" =>
         /\ Cardinality(bound[s]) <= setups[s]
         /\ bound[s] = {} \/ Spare(s) \/ rtp[s] \in bound[s]
    /\ pc[s] = "openRtp" => Spare(s)
    /\ pc[s] = "openRtcp" => Cardinality(bound[s]) <= setups[s] /\ rtp[s] \in bound[s]
    /\ pc[s] = "closeRtp" =>
         /\ Cardinality(bound[s]) <= setups[s] + 1
         /\ rtp[s] \in bound[s] /\ rtcp[s] \in bound[s] /\ rtp[s] # rtcp[s]
    /\ pc[s] = "closeRtcp" => Cardinality(bound[s]) <= setups[s] /\ rtcp[s] \in bound[s]
    /\ pc[s] = "closed" => bound[s] = {} \/ Spare(s)

LEMMA LeakStep ==
    ASSUME Inv, \A s \in Sessions : LeakInv(s), [Next]_vars
    PROVE  \A s \in Sessions : LeakInv(s)'
  <1> SUFFICES ASSUME NEW t \in Sessions PROVE LeakInv(t)'
    OBVIOUS
  <1> DEFINE card == Cardinality(bound[t])
  <1>1. /\ IsFiniteSet(bound[t]) /\ card \in Nat /\ setups[t] \in Nat /\ LeakInv(t)
    BY FS_CardinalityType, MaxSetupsAssumption DEF LeakInv, Inv, TypeOK
  <1>2. /\ pc \in [Sessions -> {"new", "ready", "openRtp", "openRtcp", "closeRtp", "closeRtcp",
                                "closed"}]
        /\ bound \in [Sessions -> SUBSET PortNumbers] /\ DOMAIN setups = Sessions
        /\ DOMAIN rtp = Sessions /\ DOMAIN rtcp = Sessions
    BY DEF Inv, TypeOK
  (* What adding or removing a descriptor does to the count. *)
  <1>3. ASSUME NEW port, port \notin bound[t]
        PROVE  /\ IsFiniteSet(bound[t] \cup {port})
               /\ Cardinality(bound[t] \cup {port}) = card + 1
    BY <1>1, <1>3, FS_AddElement
  <1>4. ASSUME NEW port, port \in bound[t]
        PROVE  /\ IsFiniteSet(bound[t] \ {port})
               /\ Cardinality(bound[t] \ {port}) = card - 1
    BY <1>1, <1>4, FS_RemoveElement
  <1> USE DEF At, handles, ports, LeakInv, Spare
  <1>5. ASSUME NEW s \in Sessions, Connect(s) \/ SetupTcp(s) \/ GiveUp(s) PROVE LeakInv(t)'
    <2>1. Cardinality({}) = 0
      BY FS_EmptySet
    <2> QED BY <1>1, <1>2, <1>5, <2>1 DEF Connect, SetupTcp, GiveUp
  <1>6. ASSUME NEW s \in Sessions, SetupUdp(s) PROVE LeakInv(t)'
    BY <1>1, <1>2, <1>6 DEF SetupUdp
  <1>7. ASSUME NEW s \in Sessions, OpenRtp(s) PROVE LeakInv(t)'
    <2>1. CASE s = t /\ Free(P[s])
      <3>1. P[t] \notin bound[t]
        BY <2>1 DEF Free
      <3>2. /\ bound'[t] = bound[t] \cup {P[t]} /\ rtp'[t] = P[t] /\ setups' = setups
            /\ pc[t] = "openRtp" /\ pc'[t] = "openRtcp"
        BY <1>2, <1>7, <2>1 DEF OpenRtp
      <3>3. IsFiniteSet(bound'[t]) /\ Cardinality(bound'[t]) = card + 1
        BY <1>3, <3>1, <3>2
      <3>4. card < setups[t] /\ P[t] \in bound'[t]
        BY <1>1, <3>2
      <3> QED BY <1>1, <3>2, <3>3, <3>4
    <2>2. CASE s # t \/ ~Free(P[s])
      <3>1. /\ bound'[t] = bound[t] /\ setups' = setups /\ pc'[t] = pc[t] /\ rtcp' = rtcp
            /\ pc[t] # "openRtp" => rtp'[t] = rtp[t]
        BY <1>2, <1>7, <2>2 DEF OpenRtp
      <3> QED BY <1>1, <3>1
    <2> QED BY <2>1, <2>2
  <1>8. ASSUME NEW s \in Sessions, OpenRtcp(s) PROVE LeakInv(t)'
    <2>1. CASE s = t /\ Free(P[s] + 1)
      <3>1. P[t] + 1 \notin bound[t]
        BY <2>1 DEF Free
      <3>2. rtp[t] = P[t] /\ P[t] \in Nat
        BY <1>8, <2>1 DEF OpenRtcp, Inv, TypeOK, SearchInv, PortNumbers
      <3>3. /\ bound'[t] = bound[t] \cup {P[t] + 1} /\ rtcp'[t] = P[t] + 1 /\ rtp' = rtp
            /\ setups' = setups /\ pc[t] = "openRtcp" /\ pc'[t] = "closeRtp"
        BY <1>2, <1>8, <2>1 DEF OpenRtcp
      <3>4. IsFiniteSet(bound'[t]) /\ Cardinality(bound'[t]) = card + 1
        BY <1>3, <3>1, <3>3
      <3>5. /\ card <= setups[t] /\ rtp[t] \in bound'[t]
            /\ P[t] + 1 \in bound'[t] /\ rtp[t] # P[t] + 1
        BY <1>1, <3>2, <3>3
      <3> QED BY <1>1, <3>3, <3>4, <3>5
    <2>2. CASE s = t /\ ~Free(P[s] + 1)
      BY <1>1, <1>2, <1>8, <2>2 DEF OpenRtcp
    <2>3. CASE s # t
      BY <1>1, <1>2, <1>8, <2>3 DEF OpenRtcp
    <2> QED BY <2>1, <2>2, <2>3
  <1>9. ASSUME NEW s \in Sessions, CloseRtp(s) PROVE LeakInv(t)'
    <2>1. CASE s = t
      <3>1. /\ bound'[t] = bound[t] \ {rtp[t]} /\ rtcp' = rtcp /\ setups' = setups
            /\ pc[t] = "closeRtp" /\ pc'[t] = "closeRtcp"
        BY <1>2, <1>9, <2>1 DEF CloseRtp
      <3>2. /\ card <= setups[t] + 1 /\ rtp[t] \in bound[t]
            /\ rtcp[t] \in bound[t] /\ rtp[t] # rtcp[t]
        BY <1>1, <3>1
      <3>3. IsFiniteSet(bound'[t]) /\ Cardinality(bound'[t]) = card - 1
        BY <1>4, <3>1, <3>2
      <3>4. rtcp[t] \in bound'[t]
        BY <3>1, <3>2
      <3> QED BY <1>1, <3>1, <3>2, <3>3, <3>4
    <2>2. CASE s # t
      BY <1>1, <1>2, <1>9, <2>2 DEF CloseRtp
    <2> QED BY <2>1, <2>2
  <1>10. ASSUME NEW s \in Sessions, CloseRtcp(s) PROVE LeakInv(t)'
    <2>1. CASE s = t
      <3>1. /\ bound'[t] = bound[t] \ {rtcp[t]} /\ setups' = setups
            /\ pc[t] = "closeRtcp" /\ pc'[t] = "openRtp"
        BY <1>2, <1>10, <2>1 DEF CloseRtcp
      <3>2. card <= setups[t] /\ rtcp[t] \in bound[t]
        BY <1>1, <3>1
      <3>3. IsFiniteSet(bound'[t]) /\ Cardinality(bound'[t]) = card - 1
        BY <1>4, <3>1, <3>2
      <3> QED BY <1>1, <3>1, <3>2, <3>3
    <2>2. CASE s # t
      BY <1>1, <1>2, <1>10, <2>2 DEF CloseRtcp
    <2> QED BY <2>1, <2>2
  <1>11. ASSUME NEW s \in Sessions, Disconnect(s) PROVE LeakInv(t)'
    <2>1. CASE s = t
      <3>1. /\ bound'[t] = bound[t] \ {rtp[t], rtcp[t]} /\ setups' = setups
            /\ pc[t] = "ready" /\ pc'[t] = "closed"
        BY <1>2, <1>11, <2>1 DEF Disconnect
      <3>2. IsFiniteSet(bound'[t]) /\ Cardinality(bound'[t]) <= card
        BY <1>1, <3>1, FS_Subset
      <3>3. Cardinality(bound'[t]) \in Nat
        BY <3>2, FS_CardinalityType
      <3>4. CASE rtp[t] \in bound[t]
        <4>1. IsFiniteSet(bound[t] \ {rtp[t]}) /\ Cardinality(bound[t] \ {rtp[t]}) = card - 1
          BY <1>4, <3>4
        <4>2. Cardinality(bound'[t]) <= card - 1
          BY <3>1, <4>1, FS_Subset
        <4> QED BY <1>1, <3>1, <3>2, <3>3, <4>2
      <3>5. CASE bound[t] = {} \/ Spare(t)
        BY <1>1, <3>1, <3>2, <3>3, <3>5
      <3> QED BY <1>1, <3>1, <3>4, <3>5
    <2>2. CASE s # t
      BY <1>1, <1>2, <1>11, <2>2 DEF Disconnect
    <2> QED BY <2>1, <2>2
  <1>12. CASE UNCHANGED <<pc, handles, setups, bound>>
    BY <1>1, <1>12
  <1> QED BY <1>5, <1>6, <1>7, <1>8, <1>9, <1>10, <1>11, <1>12
          DEF Next, InitTransport, ForeignBinds, ForeignReleases, vars

LEMMA InvStep == Inv /\ [Next]_vars => Inv'
  BY TypeStep, DisjointStep, SearchStep DEF Inv

LEMMA Invariance == Spec => []Inv
  BY InvInit, InvStep, PTL DEF Spec

(* THEOREM: the variables keep their types; in particular the port that    *)
(* the search tries does not leave the range of a u_short, nor the port    *)
(* next to it.                                                             *)
THEOREM TypeCorrect == Spec => []TypeOK
  <1>1. Inv => TypeOK
    BY DEF Inv
  <1> QED BY <1>1, Invariance, PTL

(* THEOREM: as long as a connection lives the RTP port it has advertised   *)
(* is bound by it, and by no other connection.                             *)
THEOREM AdvertisedPortCorrect == Spec => []AdvertisedPortHeld
  <1>1. Inv => AdvertisedPortHeld
    BY DEF Inv, Disjoint, SearchInv, AdvertisedPortHeld
  <1> QED BY <1>1, Invariance, PTL

(* THEOREM: a connection leaks at most one descriptor for each SETUP, and  *)
(* the destructor releases one of them.                                    *)
THEOREM LeakCorrect == Spec => []LeakBounded
  <1> DEFINE Leaks == \A s \in Sessions : LeakInv(s)
  <1>1. Init => Leaks
    <2>1. IsFiniteSet({})
      BY FS_EmptySet
    <2> QED BY <2>1 DEF Init, LeakInv
  <1>2. Inv /\ Leaks /\ [Next]_vars => Leaks'
    BY LeakStep
  <1>3. Leaks => LeakBounded
    BY DEF LeakInv, Spare, LeakBounded
  <1> HIDE DEF Leaks
  <1> QED BY <1>1, <1>2, <1>3, Invariance, PTL DEF Spec

------------------------------------------------------------------------------
(***************************************************************************)
(* Why a search ends.                                                      *)
(***************************************************************************)

Searching(s) == pc[s] \in {"openRtp", "openRtcp", "closeRtp", "closeRtcp"}

OfPair(step) ==
    CASE step = "openRtp" -> 4 [] step = "openRtcp" -> 3
      [] step = "closeRtp" -> 2 [] step = "closeRtcp" -> 1
      [] OTHER -> 0

(* How many more steps a search takes at most: four for each number that   *)
(* P may still have, and what is left of this pair.                        *)
Left(s) == 4 * (PortLimit + 1 - P[s]) + OfPair(pc[s])

(* P may miss the limit by one; the numbers of a u_short end with this.    *)
InRange(s) ==
    /\ pc[s] = "openRtp" => P[s] <= PortLimit + 1
    /\ pc[s] \in {"openRtcp", "closeRtp", "closeRtcp"} => P[s] < PortLimit

(* The steps of a search bring it nearer to its end, and no other step     *)
(* takes it back.                                                          *)
Nearer(s) ==
    Searching(s) =>
        /\ Left(s) \in 1..4 * (PortLimit + 2)
        /\ InitTransport(s) /\ Searching(s)' => Left(s)' < Left(s)
        /\ InitTransport(s) \/ UNCHANGED <<pc[s], P[s]>>

LEMMA NextPortRises ==
    \A port \in PortNumbers : port < PortLimit => NextPort(port) = port + 2
  BY PortLimitAssumption, ModulusAssumption DEF NextPort, PortNumbers

LEMMA InRangeStep ==
    ASSUME TypeOK, \A s \in Sessions : InRange(s), [Next]_vars
    PROVE  \A s \in Sessions : InRange(s)'
  <1> SUFFICES ASSUME NEW t \in Sessions PROVE InRange(t)'
    OBVIOUS
  <1> USE PortLimitAssumption, FirstPortAssumption
      DEF TypeOK, InRange, At, vars, handles, ports
  <1>1. P[t] \in Nat
    BY DEF PortNumbers
  <1>2. ASSUME NEW s \in Sessions, Connect(s) \/ SetupTcp(s) \/ SetupUdp(s) \/ GiveUp(s)
        PROVE InRange(t)'
    BY <1>1, <1>2 DEF Connect, SetupTcp, SetupUdp, GiveUp
  <1>3. ASSUME NEW s \in Sessions, OpenRtp(s) PROVE InRange(t)'
    BY <1>1, <1>3, NextPortRises DEF OpenRtp, InLoop
  <1>4. ASSUME NEW s \in Sessions, OpenRtcp(s) \/ CloseRtp(s) PROVE InRange(t)'
    BY <1>1, <1>4 DEF OpenRtcp, CloseRtp
  <1>5. ASSUME NEW s \in Sessions, CloseRtcp(s) PROVE InRange(t)'
    BY <1>1, <1>5, NextPortRises DEF CloseRtcp
  <1>6. ASSUME NEW s \in Sessions, Disconnect(s) PROVE InRange(t)'
    BY <1>1, <1>6 DEF Disconnect
  <1>7. CASE UNCHANGED <<pc, P>>
    BY <1>7
  <1> QED BY <1>2, <1>3, <1>4, <1>5, <1>6, <1>7
          DEF Next, InitTransport, ForeignBinds, ForeignReleases

(* THEOREM: every step of a search, including the one that finds the port  *)
(* after the last one tried in use, leaves fewer steps to do, and nothing  *)
(* that the other connections or other programs do adds to them: the       *)
(* search cannot go round, though P is a u_short.  This is what SearchEnds *)
(* needs beside fairness.                                                  *)
THEOREM SearchProgress == Spec => [][\A s \in Sessions : Nearer(s)]_vars
  <1> DEFINE Ranged == \A s \in Sessions : InRange(s)
  <1>1. Init => Ranged
    BY DEF Init, InRange
  <1>2. TypeOK /\ Ranged /\ [Next]_vars => Ranged'
    BY InRangeStep
  <1>3. ASSUME TypeOK, TypeOK', Ranged, Next, NEW s \in Sessions PROVE Nearer(s)
    <2> SUFFICES ASSUME Searching(s) PROVE Nearer(s)
      BY DEF Nearer
    <2>1. /\ P[s] \in Nat /\ P[s] >= 0 /\ P[s] <= PortLimit + 1
          /\ OfPair(pc[s]) \in 1..4
      BY <1>3, PortLimitAssumption DEF TypeOK, InRange, PortNumbers, Searching, OfPair
    <2>2. Left(s) \in 1..4 * (PortLimit + 2)
      BY <2>1, PortLimitAssumption DEF Left
    <2>3. ASSUME InitTransport(s), Searching(s)' PROVE Left(s)' < Left(s)
      <3> USE <1>3, <2>1, <2>3, PortLimitAssumption
          DEF TypeOK, At, Left, OfPair, Searching, InRange
      <3>1. CASE OpenRtp(s)
        BY <3>1, NextPortRises DEF OpenRtp, InLoop
      <3>2. CASE OpenRtcp(s)
        BY <3>2 DEF OpenRtcp
      <3>3. CASE CloseRtp(s)
        BY <3>3 DEF CloseRtp
      <3>4. CASE CloseRtcp(s)
        BY <3>4, NextPortRises DEF CloseRtcp
      <3>5. CASE GiveUp(s)
        BY <3>5 DEF GiveUp
      <3> QED BY <2>3, <3>1, <3>2, <3>3, <3>4, <3>5 DEF InitTransport
    <2>4. InitTransport(s) \/ UNCHANGED <<pc[s], P[s]>>
      <3> USE <1>3 DEF TypeOK, At, Searching
      <3>1. ASSUME NEW t \in Sessions, InitTransport(t), t # s
            PROVE UNCHANGED <<pc[s], P[s]>>
        BY <3>1 DEF InitTransport, OpenRtp, OpenRtcp, CloseRtp, CloseRtcp, GiveUp
      <3>2. ASSUME NEW t \in Sessions,
                   Connect(t) \/ SetupTcp(t) \/ SetupUdp(t) \/ Disconnect(t)
            PROVE UNCHANGED <<pc[s], P[s]>>
        BY <3>2 DEF Connect, SetupTcp, SetupUdp, Disconnect
      <3>3. ASSUME NEW port, ForeignBinds(port) \/ ForeignReleases(port)
            PROVE UNCHANGED <<pc[s], P[s]>>
        BY <3>3 DEF ForeignBinds, ForeignReleases
      <3> QED BY <1>3, <3>1, <3>2, <3>3 DEF Next
    <2> QED BY <2>2, <2>3, <2>4 DEF Nearer
  <1>4. TypeOK /\ TypeOK' /\ Ranged /\ [Next]_vars => [\A s \in Sessions : Nearer(s)]_vars
    BY <1>3
  <1> HIDE DEF Ranged
  <1> QED BY <1>1, <1>2, <1>4, TypeCorrect, PTL DEF Spec


------------------------------------------------------------------------------
(* THEOREM: InitTransport never leaves a connection with an RTCP socket:   *)
(* the port that it announces as the RTCP port is one that it could not    *)
(* bind.  For any number of ports and connections, and whatever other      *)
(* programs do, the inverted test keeps the second socket from existing.   *)
THEOREM NeverAnRtcpSocket ==
    Spec => [](\A s \in Sessions :
                 pc[s] = "ready" => rtcp[s] = NoPort /\ rtcp[s] # m_RtcpServerPort[s])
  <1> DEFINE Closed == \A s \in Sessions :
                          pc[s] \notin {"closeRtp", "closeRtcp"} => rtcp[s] = NoPort
  <1>1. Init => Closed
    BY DEF Init
  <1>2. TypeOK /\ Closed /\ [Next]_vars => Closed'
    <2> SUFFICES ASSUME TypeOK, Closed, [Next]_vars, NEW t \in Sessions,
                        pc'[t] \notin {"closeRtp", "closeRtcp"}
                 PROVE  rtcp'[t] = NoPort
      OBVIOUS
    <2> USE DEF TypeOK, At, vars, handles
    <2>1. ASSUME NEW s \in Sessions, Connect(s) \/ SetupTcp(s) \/ SetupUdp(s) \/ GiveUp(s)
          PROVE  rtcp'[t] = NoPort
      BY <2>1 DEF Connect, SetupTcp, SetupUdp, GiveUp
    <2>2. ASSUME NEW s \in Sessions, OpenRtp(s) \/ CloseRtp(s) PROVE rtcp'[t] = NoPort
      BY <2>2 DEF OpenRtp, CloseRtp
    <2>3. ASSUME NEW s \in Sessions, OpenRtcp(s) PROVE rtcp'[t] = NoPort
      BY <2>3 DEF OpenRtcp
    <2>4. ASSUME NEW s \in Sessions, CloseRtcp(s) \/ Disconnect(s) PROVE rtcp'[t] = NoPort
      BY <2>4 DEF CloseRtcp, Disconnect
    <2>5. CASE UNCHANGED <<pc, rtcp>>
      BY <2>5
    <2> QED BY <2>1, <2>2, <2>3, <2>4, <2>5
            DEF Next, InitTransport, ForeignBinds, ForeignReleases
  <1>3. TypeOK /\ Closed =>
          \A s \in Sessions :
            pc[s] = "ready" => rtcp[s] = NoPort /\ rtcp[s] # m_RtcpServerPort[s]
    BY DEF TypeOK, PortNumbers, NoPort
  <1> HIDE DEF Closed
  <1> QED BY <1>1, <1>2, <1>3, TypeCorrect, PTL DEF Spec

==============================================================================
