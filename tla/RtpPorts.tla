------------------------------- MODULE RtpPorts -------------------------------
(***************************************************************************)
(* CStreamer::InitTransport: the search for a pair of UDP ports for a      *)
(* connection, one system call a step, against the searches of the other   *)
(* connections and against other programs that bind ports.                 *)
(*                                                                         *)
(* ACE_SOCK_Dgram::open returns 0 when it binds the port and -1 when it    *)
(* does not.  It does not close the descriptor that the object had: the    *)
(* port of that one stays bound and nothing can release it.                *)
(***************************************************************************)
EXTENDS Integers, FiniteSets

CONSTANTS
    Sessions,     \* connections; each is opened once
    FirstPort,    \* 6970
    PortLimit,    \* 0xFFFE
    Modulus,      \* 2^16, the width of u_short
    MaxSetups     \* bound: SETUP requests of a connection

ASSUME FirstPortAssumption == FirstPort \in Nat \ {0}
ASSUME PortLimitAssumption == PortLimit \in Nat /\ FirstPort < PortLimit
ASSUME ModulusAssumption ==
    /\ Modulus \in Nat /\ PortLimit + 2 = Modulus
    /\ FirstPort % 2 = 0 /\ PortLimit % 2 = 0
ASSUME MaxSetupsAssumption == MaxSetups \in Nat

VARIABLES
    pc,               \* where svc() is
    P,                \* the loop variable of InitTransport
    rtp,              \* port of m_RtpSocket, or NoPort
    rtcp,             \* port of m_RtcpSocket, or NoPort
    m_RtpServerPort,  \* what SETUP tells the client
    m_RtcpServerPort,
    m_TCPTransport,
    setups,           \* history: SETUP requests over UDP so far
    bound,            \* ports that descriptors made by the connection hold
    foreign           \* ports that other programs hold

handles == <<rtp, rtcp>>
ports   == <<m_RtpServerPort, m_RtcpServerPort>>
vars    == <<pc, P, handles, ports, m_TCPTransport, setups, bound, foreign>>

NoPort == -1
PortNumbers == 0..(Modulus - 1)

TypeOK ==
    /\ pc \in [Sessions -> {"new", "ready", "openRtp", "openRtcp", "closeRtp", "closeRtcp", "closed"}]
    /\ P \in [Sessions -> PortNumbers]
    /\ rtp \in [Sessions -> PortNumbers \cup {NoPort}]
    /\ rtcp \in [Sessions -> PortNumbers \cup {NoPort}]
    /\ m_RtpServerPort \in [Sessions -> PortNumbers]
    /\ m_RtcpServerPort \in [Sessions -> PortNumbers]
    /\ m_TCPTransport \in [Sessions -> BOOLEAN]
    /\ setups \in [Sessions -> 0..MaxSetups]
    /\ bound \in [Sessions -> SUBSET PortNumbers]
    /\ foreign \subseteq PortNumbers

Init ==
    /\ pc = [s \in Sessions |-> "new"]
    /\ P = [s \in Sessions |-> FirstPort]
    /\ rtp = [s \in Sessions |-> NoPort]
    /\ rtcp = [s \in Sessions |-> NoPort]
    /\ m_RtpServerPort = [s \in Sessions |-> 0]
    /\ m_RtcpServerPort = [s \in Sessions |-> 0]
    /\ m_TCPTransport = [s \in Sessions |-> FALSE]
    /\ setups = [s \in Sessions |-> 0]
    /\ bound = [s \in Sessions |-> {}]
    /\ foreign = {}

At(s, from, to) == pc[s] = from /\ pc' = [pc EXCEPT ![s] = to]

(* No two descriptors of the host are bound to one port. *)
Free(port) == port \notin foreign /\ \A t \in Sessions : port \notin bound[t]

(* Mutant: an int that steps over the next pair. *)
NextPortWide(port) == port + 4

NextPort(port) == (port + 2) % Modulus

------------------------------------------------------------------------------
(* The constructor of CStreamer. *)
Connect(s) ==
    /\ At(s, "new", "ready")
    /\ UNCHANGED <<P, handles, ports, m_TCPTransport, setups, bound, foreign>>

(* InitTransport without UDP: the ports and the sockets stay as they are. *)
SetupTcp(s) ==
    /\ At(s, "ready", "ready")
    /\ m_TCPTransport' = [m_TCPTransport EXCEPT ![s] = TRUE]
    /\ UNCHANGED <<P, handles, ports, setups, bound, foreign>>

SetupUdp(s) ==
    /\ setups[s] < MaxSetups
    /\ At(s, "ready", "openRtp")
    /\ P' = [P EXCEPT ![s] = FirstPort]
    /\ m_TCPTransport' = [m_TCPTransport EXCEPT ![s] = FALSE]
    /\ setups' = [setups EXCEPT ![s] = @ + 1]
    /\ UNCHANGED <<handles, ports, bound, foreign>>

(* Mutant: the condition of the loop includes 0xFFFE. *)
InLoopWide(s) == P[s] <= PortLimit

InLoop(s) == P[s] < PortLimit

(* The loop condition, and m_RtpSocket.open(P).  When it fails the object  *)
(* has lost its descriptor, and its close() has nothing to close.          *)
OpenRtp(s) ==
    /\ InLoop(s)
    /\ \/ /\ Free(P[s])
          /\ At(s, "openRtp", "openRtcp")
          /\ bound' = [bound EXCEPT ![s] = @ \cup {P[s]}]
          /\ rtp' = [rtp EXCEPT ![s] = P[s]]
          /\ UNCHANGED P
       \/ /\ ~Free(P[s])
          /\ At(s, "openRtp", "openRtp")
          /\ rtp' = [rtp EXCEPT ![s] = NoPort]
          /\ P' = [P EXCEPT ![s] = NextPort(@)]
          /\ UNCHANGED bound
    /\ UNCHANGED <<rtcp, ports, m_TCPTransport, setups, foreign>>

(* Mutant: the server ports are set for every pair that is tried. *)
OpenRtcpEager(s) ==
    /\ m_RtpServerPort' = [m_RtpServerPort EXCEPT ![s] = P[s]]
    /\ m_RtcpServerPort' = [m_RtcpServerPort EXCEPT ![s] = P[s] + 1]
    /\ \/ /\ Free(P[s] + 1)
          /\ At(s, "openRtcp", "closeRtp")
          /\ bound' = [bound EXCEPT ![s] = @ \cup {P[s] + 1}]
          /\ rtcp' = [rtcp EXCEPT ![s] = P[s] + 1]
       \/ /\ ~Free(P[s] + 1)
          /\ At(s, "openRtcp", "ready")
          /\ rtcp' = [rtcp EXCEPT ![s] = NoPort]
          /\ UNCHANGED bound
    /\ UNCHANGED <<P, rtp, m_TCPTransport, setups, foreign>>

(* m_RtcpSocket.open(P + 1): the pair is taken if this FAILS. *)
OpenRtcp(s) ==
    /\ \/ /\ Free(P[s] + 1)
          /\ At(s, "openRtcp", "closeRtp")
          /\ bound' = [bound EXCEPT ![s] = @ \cup {P[s] + 1}]
          /\ rtcp' = [rtcp EXCEPT ![s] = P[s] + 1]
          /\ UNCHANGED ports
       \/ /\ ~Free(P[s] + 1)
          /\ At(s, "openRtcp", "ready")
          /\ rtcp' = [rtcp EXCEPT ![s] = NoPort]
          /\ m_RtpServerPort' = [m_RtpServerPort EXCEPT ![s] = P[s]]
          /\ m_RtcpServerPort' = [m_RtcpServerPort EXCEPT ![s] = P[s] + 1]
          /\ UNCHANGED bound
    /\ UNCHANGED <<P, rtp, m_TCPTransport, setups, foreign>>

CloseRtp(s) ==
    /\ At(s, "closeRtp", "closeRtcp")
    /\ bound' = [bound EXCEPT ![s] = @ \ {rtp[s]}]
    /\ rtp' = [rtp EXCEPT ![s] = NoPort]
    /\ UNCHANGED <<P, rtcp, ports, m_TCPTransport, setups, foreign>>

(* Mutant: the second socket of a rejected pair stays open. *)
CloseRtcpLeaky(s) ==
    /\ At(s, "closeRtcp", "openRtp")
    /\ P' = [P EXCEPT ![s] = NextPort(@)]
    /\ UNCHANGED <<handles, ports, m_TCPTransport, setups, bound, foreign>>

CloseRtcp(s) ==
    /\ At(s, "closeRtcp", "openRtp")
    /\ bound' = [bound EXCEPT ![s] = @ \ {rtcp[s]}]
    /\ rtcp' = [rtcp EXCEPT ![s] = NoPort]
    /\ P' = [P EXCEPT ![s] = NextPort(@)]
    /\ UNCHANGED <<rtp, ports, m_TCPTransport, setups, foreign>>

(* The loop ends without a pair: the ports keep their values. *)
GiveUp(s) ==
    /\ ~InLoop(s)
    /\ At(s, "openRtp", "ready")
    /\ UNCHANGED <<P, handles, ports, m_TCPTransport, setups, bound, foreign>>

(* ~CStreamer. *)
Disconnect(s) ==
    /\ At(s, "ready", "closed")
    /\ bound' = [bound EXCEPT ![s] = @ \ {rtp[s], rtcp[s]}]
    /\ rtp' = [rtp EXCEPT ![s] = NoPort]
    /\ rtcp' = [rtcp EXCEPT ![s] = NoPort]
    /\ UNCHANGED <<P, ports, m_TCPTransport, setups, foreign>>

(* Another program binds a port, or releases it. *)
ForeignBinds(port) ==
    /\ Free(port)
    /\ foreign' = foreign \cup {port}
    /\ UNCHANGED <<pc, P, handles, ports, m_TCPTransport, setups, bound>>

ForeignReleases(port) ==
    /\ port \in foreign
    /\ foreign' = foreign \ {port}
    /\ UNCHANGED <<pc, P, handles, ports, m_TCPTransport, setups, bound>>

------------------------------------------------------------------------------
InitTransport(s) ==
    OpenRtp(s) \/ OpenRtcp(s) \/ CloseRtp(s) \/ CloseRtcp(s) \/ GiveUp(s)

Next ==
    \/ \E s \in Sessions : \/ Connect(s) \/ SetupTcp(s) \/ SetupUdp(s)
                           \/ InitTransport(s) \/ Disconnect(s)
    \/ \E port \in FirstPort..(PortLimit - 1) : ForeignBinds(port) \/ ForeignReleases(port)

Spec == Init /\ [][Next]_vars

(* The loop makes no call that blocks: it runs as long as it is scheduled. *)
FairSpec == Spec /\ \A s \in Sessions : WF_vars(InitTransport(s))

------------------------------------------------------------------------------
(***************************************************************************)
(* Properties.                                                             *)
(***************************************************************************)

(* The RTP port that a client was told is bound by its own connection, and *)
(* by no other, for as long as the connection lives: also while another    *)
(* SETUP of it searches, and after that search has found nothing.          *)
AdvertisedPortHeld ==
    \A s \in Sessions :
        pc[s] # "closed" /\ m_RtpServerPort[s] # 0 =>
            /\ m_RtpServerPort[s] \in bound[s]
            /\ \A t \in Sessions \ {s} : m_RtpServerPort[s] \notin bound[t]

(* Each SETUP costs one descriptor at most, and a connection that ends     *)
(* releases the last of them: one with a single SETUP leaves none behind.  *)
LeakBounded ==
    \A s \in Sessions :
        /\ pc[s] = "ready" => Cardinality(bound[s]) <= setups[s]
        /\ pc[s] = "closed" => bound[s] = {} \/ Cardinality(bound[s]) < setups[s]

(* The search ends: P, a u_short, does not wrap past the condition of the  *)
(* loop, whatever ports the others bind and release meanwhile.             *)
SearchEnds ==
    \A s \in Sessions : (pc[s] = "openRtp") ~> (pc[s] = "ready")

(* After InitTransport over UDP the connection has the pair of sockets     *)
(* that it tells the client (it has not: the test of the second open() is  *)
(* inverted).                                                              *)
PairAllocated ==
    \A s \in Sessions :
        pc[s] = "ready" /\ setups[s] > 0 /\ ~m_TCPTransport[s] =>
            rtp[s] = m_RtpServerPort[s] /\ rtcp[s] = m_RtcpServerPort[s]

==============================================================================
