---------------------------- MODULE SharedSocket ----------------------------
(***************************************************************************)
(* The two threads of a connection as senders.  svc() sends the answers to *)
(* requests on the TCP connection; the generator thread sends RTP packets, *)
(* on the same connection if the transport is TCP, or over UDP.  There is  *)
(* no lock.  Both send with send_n, a loop of send() calls: a call takes   *)
(* what fits in the socket buffer, and the next one waits for room.        *)
(*                                                                         *)
(* SETUP changes the transport by two assignments, while the generator     *)
(* reads port and transport by two reads for each packet.                  *)
(***************************************************************************)
EXTENDS Naturals, Sequences, FiniteSets

CONSTANTS
    Capacity,      \* bytes that the socket buffer holds
    AnswerSize,    \* bytes of an answer
    FrameSize,     \* bytes of an interleaved packet, RtpPacketSize + 4
    ImagePackets,  \* packets of an image
    Ports,         \* client ports of UDP transports
    MaxRequests,   \* bound: requests of the client
    MaxImages      \* bound: images that are sent

ASSUME SizesAssumption ==
    /\ Capacity \in Nat \ {0} /\ AnswerSize \in Nat \ {0} /\ FrameSize \in Nat \ {0}
    /\ ImagePackets \in Nat \ {0}
ASSUME BoundsAssumption == MaxRequests \in Nat /\ MaxImages \in Nat

VARIABLES
    wire,             \* bytes sent on the TCP connection: of which message each is
    taken,            \* how many of them have left the socket buffer
    reset,            \* the client has reset the connection
    svc,              \* control of svc()
    request,          \* the request that svc() handles
    requests,         \* how many it has got
    gen,              \* control of the generator
    remotePort,       \* port of remoteAddr, local to SendRtpPacket
    packets,          \* packets of the image not sent yet
    images,           \* images that were begun
    message,          \* number of the message that each thread is sending
    left,             \* bytes of it that are not in the socket buffer yet
    streamStarted,
    m_RtpClientPort, m_TCPTransport,
    full,             \* history: lengths of wire at which the buffer was full
    played,           \* history: number of the answer to the first PLAY, or 0
    unanswered,       \* history: a PLAY without an answer started the stream
    setups,           \* history: requests that changed the transport
    late              \* history: packets that left by another transport than the one set

svcVars == <<svc, request, requests>>
genVars == <<gen, remotePort, packets, images>>
sending == <<wire, message, left, full>>
streamer == <<m_RtpClientPort, m_TCPTransport>>
history == <<played, unanswered, setups, late>>
vars == <<taken, reset, svcVars, genVars, sending, streamStarted, streamer, history>>

Threads == {"svc", "gen"}
(* What InitTransport is called with: port 0 is that of a session that no  *)
(* SETUP has told a client_port yet.                                       *)
Transports == [tcp : BOOLEAN, port : Ports \cup {0}]
Requests == [method : {"SETUP"}, transport : Transports] \cup [method : {"PLAY", "OPTIONS"}]

TypeOK ==
    /\ wire \in Seq(Threads \X Nat) /\ taken \in 0..Len(wire) /\ reset \in BOOLEAN
    /\ svc \in {"recv", "port", "tcp", "send"}
    /\ request \in Requests /\ requests \in 0..MaxRequests
    /\ gen \in {"idle", "port", "test", "send", "datagram"}
    /\ remotePort \in Ports \cup {0}
    /\ packets \in 0..ImagePackets /\ images \in 0..MaxImages
    /\ message \in [Threads -> Nat]
    /\ left \in [Threads -> Nat]
    /\ streamStarted \in BOOLEAN
    /\ m_RtpClientPort \in Ports \cup {0} /\ m_TCPTransport \in BOOLEAN
    /\ full \subseteq 1..Len(wire)
    /\ played \in Nat /\ unanswered \in BOOLEAN /\ setups \in Nat /\ late \in Nat

Init ==
    /\ wire = <<>> /\ taken = 0 /\ reset = FALSE
    /\ svc = "recv" /\ request = [method |-> "OPTIONS"] /\ requests = 0
    /\ gen = "idle" /\ remotePort = 0 /\ packets = 0 /\ images = 0
    /\ message = [t \in Threads |-> 0] /\ left = [t \in Threads |-> 0]
    /\ streamStarted = FALSE
    /\ m_RtpClientPort = 0 /\ m_TCPTransport = FALSE
    /\ full = {} /\ played = 0 /\ unanswered = FALSE /\ setups = 0 /\ late = 0

------------------------------------------------------------------------------
(***************************************************************************)
(* send_n: one action per call of send().                                  *)
(***************************************************************************)
Room == Capacity - (Len(wire) - taken)

Least(a, b) == IF a <= b THEN a ELSE b

BeginMessage(t, size) ==
    /\ message' = [message EXCEPT ![t] = @ + 1]
    /\ left' = [left EXCEPT ![t] = size]
    /\ UNCHANGED <<wire, full>>

(* The kernel keeps the socket locked while what it copies fits. *)
Put(t, size) ==
    /\ wire' = wire \o [i \in 1..size |-> <<t, message[t]>>]
    /\ full' = IF size = Room THEN full \cup {Len(wire) + size} ELSE full

(* Mutants: send() in place of send_n(); a send() that takes half of what  *)
(* fits.                                                                   *)
SendBytesOnce(t) ==
    /\ left[t] > 0 /\ ~reset /\ Room > 0
    /\ Put(t, Least(left[t], Room))
    /\ left' = [left EXCEPT ![t] = 0]
    /\ UNCHANGED message

SendBytesShort(t) ==
    /\ left[t] > 0 /\ ~reset /\ Room > 0
    /\ Put(t, 1)
    /\ left' = [left EXCEPT ![t] = @ - 1]
    /\ UNCHANGED message

SendBytes(t) ==
    /\ left[t] > 0 /\ ~reset /\ Room > 0
    /\ LET size == Least(left[t], Room)
       IN  Put(t, size) /\ left' = [left EXCEPT ![t] = @ - size]
    /\ UNCHANGED message

(* Mutant: a send that fails is tried again. *)
SendFailsAgain(t) ==
    /\ left[t] > 0 /\ reset
    /\ UNCHANGED sending

(* The rest is given up.  svc() then tries to send "hello", which the      *)
(* connection does not take either; the generator ignores the error.       *)
SendFails(t) ==
    /\ left[t] > 0 /\ reset
    /\ left' = [left EXCEPT ![t] = 0]
    /\ UNCHANGED <<wire, message, full>>

------------------------------------------------------------------------------
(***************************************************************************)
(* svc().                                                                  *)
(***************************************************************************)
Recv(r) ==
    /\ svc = "recv" /\ requests < MaxRequests /\ ~reset
    /\ request' = r /\ requests' = requests + 1
    /\ \/ r.method = "SETUP" /\ svc' = "port" /\ UNCHANGED sending
       \/ r.method # "SETUP" /\ svc' = "send" /\ BeginMessage("svc", AnswerSize)
    /\ played' = IF r.method = "PLAY" /\ played = 0 THEN message["svc"] + 1 ELSE played
    /\ UNCHANGED <<taken, reset, genVars, streamStarted, streamer, unanswered, setups, late>>

(* The parser rejects what it got, such as a request that is cut before    *)
(* its CSeq.  Nothing is answered, but Handle_RtspRequest returns the      *)
(* method all the same, and PLAY starts the stream.                        *)
RecvRejected(r) ==
    /\ svc = "recv" /\ requests < MaxRequests /\ ~reset
    /\ requests' = requests + 1
    /\ streamStarted' = (streamStarted \/ r.method = "PLAY")
    /\ unanswered' = (unanswered \/ (r.method = "PLAY" /\ ~streamStarted))
    /\ UNCHANGED <<taken, reset, svc, request, genVars, sending, streamer, played, setups, late>>

(* InitTransport. *)
SetPort ==
    /\ svc = "port" /\ svc' = "tcp"
    /\ m_RtpClientPort' = request.transport.port
    /\ UNCHANGED <<taken, reset, request, requests, genVars, sending, streamStarted,
                   m_TCPTransport, history>>

SetTransport ==
    /\ svc = "tcp" /\ svc' = "send"
    /\ m_TCPTransport' = request.transport.tcp
    /\ setups' = setups + 1
    /\ BeginMessage("svc", AnswerSize)
    /\ UNCHANGED <<taken, reset, request, requests, genVars, streamStarted,
                   m_RtpClientPort, played, unanswered, late>>

SendAnswer ==
    /\ svc = "send" /\ (SendBytes("svc") \/ SendFails("svc"))
    /\ UNCHANGED <<taken, reset, svcVars, genVars, streamStarted, streamer, history>>

(* Mutant: the stream is started before the answer is sent. *)
AnsweredLater ==
    /\ svc = "send"
    /\ IF left["svc"] = 0 THEN svc' = "recv" ELSE UNCHANGED svc
    /\ streamStarted' = (streamStarted \/ request.method = "PLAY")
    /\ UNCHANGED <<taken, reset, request, requests, genVars, sending, streamer, history>>

(* Handle_RtspRequest returns; a PLAY that was answered starts the stream  *)
(* after its answer.                                                       *)
Answered ==
    /\ svc = "send" /\ left["svc"] = 0
    /\ svc' = "recv"
    /\ streamStarted' = (streamStarted \/ request.method = "PLAY")
    /\ UNCHANGED <<taken, reset, request, requests, genVars, sending, streamer, history>>

Svc ==
    \/ \E r \in Requests : Recv(r) \/ RecvRejected(r)
    \/ SetPort \/ SetTransport \/ SendAnswer \/ Answered

------------------------------------------------------------------------------
(***************************************************************************)
(* The generator.                                                          *)
(***************************************************************************)

StreamImage ==
    /\ gen = "idle" /\ streamStarted /\ images < MaxImages
    /\ gen' = "port" /\ packets' = ImagePackets /\ images' = images + 1
    /\ UNCHANGED <<taken, reset, svcVars, remotePort, sending, streamStarted, streamer, history>>

(* Mutant: the port is read once for an image, before the loop. *)
ReadPortOnce ==
    /\ gen = "port" /\ gen' = "test"
    /\ remotePort' = IF packets = ImagePackets THEN m_RtpClientPort ELSE remotePort
    /\ UNCHANGED <<taken, reset, svcVars, packets, images, sending, streamStarted, streamer, history>>

ReadPort ==
    /\ gen = "port" /\ gen' = "test"
    /\ remotePort' = m_RtpClientPort
    /\ UNCHANGED <<taken, reset, svcVars, packets, images, sending, streamStarted, streamer, history>>

TestTransport ==
    /\ gen = "test"
    /\ \/ m_TCPTransport /\ gen' = "send" /\ BeginMessage("gen", FrameSize)
       \/ ~m_TCPTransport /\ gen' = "datagram" /\ UNCHANGED sending
    /\ UNCHANGED <<taken, reset, svcVars, remotePort, packets, images, streamStarted,
                   streamer, history>>

(* Mutant: the loop over the packets runs once too often. *)
NextPacketOver(tcp) ==
    /\ packets' = packets - 1
    /\ gen' = IF packets = 0 THEN "idle" ELSE "port"
    /\ UNCHANGED <<taken, reset, svcVars, remotePort, images, streamStarted, streamer, history>>

(* What a packet that leaves by tcp has to do with what SETUP has set. *)
NextPacket(tcp) ==
    /\ packets' = packets - 1
    /\ gen' = IF packets = 1 THEN "idle" ELSE "port"
    /\ LET asSet == tcp = m_TCPTransport /\ (tcp \/ remotePort = m_RtpClientPort)
       IN  late' = IF asSet \/ svc = "tcp" THEN late ELSE late + 1
    /\ UNCHANGED <<taken, reset, svcVars, remotePort, images, streamStarted, streamer, played,
                   unanswered, setups>>

SendFrame ==
    /\ gen = "send" /\ (SendBytes("gen") \/ SendFails("gen"))
    /\ UNCHANGED <<taken, reset, svcVars, genVars, streamStarted, streamer, history>>

FrameSent == gen = "send" /\ left["gen"] = 0 /\ NextPacket(TRUE) /\ UNCHANGED sending

SendDatagram == gen = "datagram" /\ NextPacket(FALSE) /\ UNCHANGED sending

Generator ==
    \/ StreamImage \/ ReadPort \/ TestTransport \/ SendFrame \/ FrameSent \/ SendDatagram

------------------------------------------------------------------------------
ClientReads ==
    /\ ~reset /\ taken < Len(wire)
    /\ taken' = taken + 1
    /\ UNCHANGED <<reset, svcVars, genVars, sending, streamStarted, streamer, history>>

ClientResets ==
    /\ ~reset /\ reset' = TRUE
    /\ UNCHANGED <<taken, svcVars, genVars, sending, streamStarted, streamer, history>>

Next == Svc \/ Generator \/ ClientReads \/ ClientResets

Spec == Init /\ [][Next]_vars

(* Both threads run, and each gets at the room in the buffer if there is   *)
(* room again and again.  Nothing is assumed of the client.                *)
FairSpec ==
    /\ Spec
    /\ WF_vars(SetPort \/ SetTransport \/ SendAnswer \/ Answered) /\ WF_vars(Generator)
    /\ SF_vars(SendAnswer) /\ SF_vars(SendFrame)

------------------------------------------------------------------------------
(***************************************************************************)
(* Properties.                                                             *)
(***************************************************************************)
Positions(m) == {i \in DOMAIN wire : wire[i] = m}

Size(t) == IF t = "svc" THEN AnswerSize ELSE FrameSize

(* The client gets every answer and every interleaved packet whole, though *)
(* a full buffer cuts it in pieces and the other thread sends in between:  *)
(* what is missing of it is still being sent, or the connection is lost.   *)
MessagesComplete ==
    reset \/ \A t \in Threads : \A n \in 1..message[t] :
        Cardinality(Positions(<<t, n>>)) = Size(t) - (IF n = message[t] THEN left[t] ELSE 0)

(* Without a lock the bytes of one thread may get into the middle of a     *)
(* message of the other, which no client can take apart.  They do so only  *)
(* where the socket buffer was full: never with a client that reads fast   *)
(* enough.                                                                 *)
TornOnlyWhenFull ==
    \A i, k \in DOMAIN wire :
        wire[i] = wire[k] /\ (\E j \in i..k : wire[j] # wire[i])
            => \E p \in full : i <= p /\ p < k

(* No packet is interleaved before the last byte of the answer to PLAY,    *)
(* unless the stream was started by a PLAY that was never answered because *)
(* the parser rejected it.                                                 *)
PlayAnsweredFirst ==
    ~unanswered =>
        \A k \in DOMAIN wire :
            wire[k][1] = "gen" =>
                /\ played > 0
                /\ reset \/ Cardinality(Positions(<<"svc", played>>)) = AnswerSize
                /\ \A i \in Positions(<<"svc", played>>) : i < k

(* A SETUP takes effect on a stream that plays: at most one packet, the    *)
(* one that the generator is at, still leaves the old way, or to the port  *)
(* that was read before the transport changed from TCP to UDP.             *)
SwitchIsPrompt == late <= setups

(* A message that is begun is sent or given up, if the client reads all    *)
(* that it is sent again and again, or leaves.                             *)
SendsEnd ==
    []<>(taken = Len(wire) \/ reset) =>
        \A t \in Threads : (left[t] > 0) ~> (left[t] = 0)

==============================================================================
