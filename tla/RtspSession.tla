----------------------------- MODULE RtspSession -----------------------------
(***************************************************************************)
(* The requests of one connection: Client_Handler::process, the parser and *)
(* the handlers of CRtspSession, and what svc() does with the result.      *)
(*                                                                         *)
(* TCP is a byte stream: one recv() may return a part of a request or more *)
(* than one, and svc() takes what it returns for one request.  A request   *)
(* travels as up to three pieces, in the order in which clients write      *)
(* them: the request line, the CSeq header and the Transport header.  A    *)
(* piece that is cut counts as one of the buffer behind the cut; what that *)
(* does to the first word there is in FromMethod and in Drop.  URLs and    *)
(* values of headers hold no name of a method, and a blank follows the     *)
(* colon of a header.  The CSeq of a request is its position among the     *)
(* requests that the client sent.                                          *)
(*                                                                         *)
(* ParseRtspRequest copies the bytes that it got into a buffer on the      *)
(* stack and puts no NUL behind them, so strstr() reads on into what was   *)
(* left there, by earlier requests of this connection or of another whose  *)
(* thread had the stack before: what it finds there is any choice.         *)
(***************************************************************************)
EXTENDS Integers, SequencesExt

CONSTANTS
    Streams,      \* streams that DESCRIBE knows
    NoStream,     \* -1: what DESCRIBE of another URL sets, and the constructor
    Ports,        \* client_port values, none of them 0
    MaxRequests   \* bound: how many requests the client sends

ASSUME NoStreamAssumption == NoStream \notin Streams
ASSUME PortsAssumption == Ports \subseteq 1..65535
ASSUME MaxRequestsAssumption == MaxRequests \in Nat

VARIABLES
    sent,             \* requests that the client has sent
    net,              \* pieces of them that svc() has not received
    replies,          \* what the server has sent back
    pc,               \* svc(): in its loop, out of it, or dead in an assertion
    m_StreamID,       \* CRtspSession::m_StreamID
    m_ClientRTPPort,  \* CRtspSession::m_ClientRTPPort
    m_TcpTransport,   \* CRtspSession::m_TcpTransport
    m_RtpClientPort,  \* CStreamer::m_RtpClientPort
    m_TCPTransport,   \* CStreamer::m_TCPTransport
    streamID,         \* StreamSource::streamID
    streamStarted,    \* CStreamer::streamStarted
    intact            \* history: each recv() so far returned one whole request

session  == <<m_StreamID, m_ClientRTPPort, m_TcpTransport>>
streamer == <<m_RtpClientPort, m_TCPTransport>>
stream   == <<streamID, streamStarted>>
vars     == <<sent, net, replies, pc, session, streamer, stream, intact>>

StreamIDs == Streams \cup {NoStream}

(* Port 0: the header has no client_port, as that of a TCP transport, and  *)
(* as a UDP one that leaves it to the server or asks for multicast.        *)
Transports == [tcp : {FALSE}, port : Ports \cup {0}] \cup [tcp : {TRUE}, port : {0}]

(* GET_PARAMETER stands for the methods that begin with none of ODSPT. *)
Requests ==
    [method : {"OPTIONS", "PLAY", "PAUSE", "TEARDOWN", "GET_PARAMETER"}]
        \cup [method : {"DESCRIBE"}, url : StreamIDs]
        \cup [method : {"SETUP"}, transport : Transports]

Pieces == [seq : 1..MaxRequests, part : {"line", "CSeq", "Transport"}]

Replies ==
    [cseq : 1..MaxRequests, method : {"OPTIONS", "PLAY"}]
        \cup [cseq : 1..MaxRequests, method : {"DESCRIBE"}, stream : StreamIDs]
        \cup [cseq : 1..MaxRequests, method : {"SETUP"}, tcp : BOOLEAN, port : Ports \cup {0}]

TypeOK ==
    /\ sent \in Seq(Requests) /\ Len(sent) <= MaxRequests
    /\ net \in Seq(Pieces)
    /\ replies \in Seq(Replies)
    /\ pc \in {"loop", "stopped", "aborted"}
    /\ m_StreamID \in StreamIDs
    /\ m_ClientRTPPort \in Ports \cup {0}
    /\ m_TcpTransport \in BOOLEAN
    /\ m_RtpClientPort \in Ports \cup {0}
    /\ m_TCPTransport \in BOOLEAN
    /\ streamID \in StreamIDs
    /\ streamStarted \in BOOLEAN
    /\ intact \in BOOLEAN

Init ==
    /\ sent = <<>> /\ net = <<>> /\ replies = <<>>
    /\ pc = "loop"
    /\ m_StreamID = NoStream /\ m_ClientRTPPort = 0 /\ m_TcpTransport = FALSE
    /\ m_RtpClientPort = 0 /\ m_TCPTransport = FALSE
    /\ streamID = NoStream /\ streamStarted = FALSE
    /\ intact = TRUE

------------------------------------------------------------------------------
(***************************************************************************)
(* The client writes requests when it likes, before an answer or after it. *)
(***************************************************************************)
PiecesOf(n, req) ==
    LET piece(p) == [seq |-> n, part |-> p]
    IN  <<piece("line"), piece("CSeq")>>
           \o IF req.method = "SETUP" THEN <<piece("Transport")>> ELSE <<>>

ClientSends(req) ==
    /\ Len(sent) < MaxRequests
    /\ sent' = Append(sent, req)
    /\ net' = net \o PiecesOf(Len(sent) + 1, req)
    /\ UNCHANGED <<replies, pc, session, streamer, stream, intact>>

------------------------------------------------------------------------------
(***************************************************************************)
(* The parser.  Its argument is the buffer that recv() filled.             *)
(***************************************************************************)
Request(piece) == sent[piece.seq]

StartsRequest(buffer) == buffer[1].part = "line"

HasCSeq(buffer) == \E i \in DOMAIN buffer : buffer[i].part = "CSeq"

(* The first "CSeq:" of the buffer. *)
CSeq(buffer) == buffer[SelectInSeq(buffer, LAMBDA p : p.part = "CSeq")].seq

NamesPort(piece) == piece.part = "Transport" /\ Request(piece).transport.port # 0

(* The first "client_port" of the buffer, wherever it is; a NUL is written *)
(* at the end of its line.  0: there is none.                              *)
ClientPort(buffer) == SelectInSeq(buffer, NamesPort)

(* Mutant: the RTCP port is kept for the RTP port. *)
ParsedRtcpPort(buffer) ==
    IF ClientPort(buffer) = 0 THEN {m_ClientRTPPort} \cup Ports
    ELSE {(Request(buffer[ClientPort(buffer)]).transport.port + 1) % 65536}

(* What m_ClientRTPPort may be then.  Without a client_port in the buffer  *)
(* it stays, or a client_port is found in the stale bytes.                 *)
ParsedPort(buffer) ==
    IF ClientPort(buffer) = 0 THEN {m_ClientRTPPort} \cup Ports
    ELSE {Request(buffer[ClientPort(buffer)]).transport.port}

(* "RTP/AVP/TCP" is in the buffer, before that NUL. *)
NamesTcp(buffer) ==
    \E i \in DOMAIN buffer :
        /\ buffer[i].part = "Transport" /\ Request(buffer[i]).transport.tcp
        /\ ClientPort(buffer) \notin 1..i

(* Mutant: m_TcpTransport is set for TCP and not reset for UDP. *)
ParsedTcpSticky(buffer) ==
    IF NamesTcp(buffer) \/ m_TcpTransport THEN {TRUE}
    ELSE IF ClientPort(buffer) = 0 THEN BOOLEAN ELSE {FALSE}

(* What m_TcpTransport may be: without that NUL the search goes on into    *)
(* the stale bytes.                                                        *)
ParsedTcp(buffer) ==
    IF NamesTcp(buffer) THEN {TRUE}
    ELSE IF ClientPort(buffer) = 0 THEN BOOLEAN ELSE {FALSE}

WholeRequest(buffer) ==
    StartsRequest(buffer) /\ buffer = PiecesOf(buffer[1].seq, Request(buffer[1]))

(* Mutant: recv() with MSG_PEEK, which leaves the bytes in the socket. *)
ReceivePeek(received) ==
    /\ pc = "loop"
    /\ UNCHANGED <<sent, net>>

Receive(received) ==
    /\ pc = "loop"
    /\ net' = SubSeq(net, Len(received) + 1, Len(net))
    /\ UNCHANGED sent

(* The method is looked for in all that comes before the first blank.  A   *)
(* Transport header that is cut within its value has no blank left, so the *)
(* line of the next request is recognised behind it; but not behind a      *)
(* client_port, for the NUL that is written there ends the word.           *)
FromMethod(received) ==
    IF received[1].part = "Transport" /\ ~NamesPort(received[1]) THEN Tail(received)
    ELSE received

Parse(buffer, method) ==
    /\ buffer # <<>> /\ StartsRequest(buffer) /\ Request(buffer[1]).method = method
    /\ m_ClientRTPPort' \in ParsedPort(buffer)
    /\ IF method = "SETUP" THEN m_TcpTransport' \in ParsedTcp(buffer) ELSE UNCHANGED m_TcpTransport

------------------------------------------------------------------------------
(***************************************************************************)
(* One action for what svc() does with a buffer, by its first word.  The   *)
(* handlers run, and answer, only if the parser found a CSeq.              *)
(***************************************************************************)
Answer(reply) == replies' = Append(replies, reply)

(* No method is recognised: the first letter is not one of ODSPT, and then *)
(* not even the parser runs, or the first word holds no method, because it *)
(* is cut or because it begins within a request.  The line of a request    *)
(* may stand behind the last bytes of the one before.                      *)
Drop(received) ==
    LET behind == StartsRequest(received) /\ received[1].seq > 1
        spared == StartsRequest(received) /\ Request(received[1]).method = "GET_PARAMETER"
        cut    == StartsRequest(received) /\ Len(received) = 1
    IN  /\ Receive(received)
        /\ \/ /\ behind \/ spared \/ ~StartsRequest(received)
              /\ intact' = (intact /\ spared /\ WholeRequest(received))
              /\ UNCHANGED m_ClientRTPPort
           \/ /\ behind \/ (cut /\ ~spared) \/ ~StartsRequest(received)
              /\ intact' = FALSE
              /\ m_ClientRTPPort' \in ParsedPort(received)
        /\ UNCHANGED <<replies, pc, m_StreamID, m_TcpTransport, streamer, stream>>

Handle_RtspOPTION(buffer) ==
    /\ Parse(buffer, "OPTIONS")
    /\ IF HasCSeq(buffer) THEN Answer([cseq |-> CSeq(buffer), method |-> "OPTIONS"])
                          ELSE UNCHANGED replies
    /\ UNCHANGED <<pc, m_StreamID, streamer, stream>>

(* Mutant: the stream is selected before the request is known to be whole. *)
Handle_RtspDESCRIBEEarly(buffer) ==
    /\ Parse(buffer, "DESCRIBE")
    /\ m_StreamID' = Request(buffer[1]).url
    /\ IF HasCSeq(buffer)
       THEN Answer([cseq |-> CSeq(buffer), method |-> "DESCRIBE", stream |-> m_StreamID'])
       ELSE UNCHANGED replies
    /\ UNCHANGED <<pc, streamer, stream>>

(* A URL that is not known is answered with 404. *)
Handle_RtspDESCRIBE(buffer) ==
    /\ Parse(buffer, "DESCRIBE")
    /\ \/ /\ HasCSeq(buffer)
          /\ m_StreamID' = Request(buffer[1]).url
          /\ Answer([cseq |-> CSeq(buffer), method |-> "DESCRIBE", stream |-> m_StreamID'])
       \/ ~HasCSeq(buffer) /\ UNCHANGED <<m_StreamID, replies>>
    /\ UNCHANGED <<pc, streamer, stream>>

(* Mutant: InitTransport is called whether or not the parser failed. *)
Handle_RtspSETUPEarly(buffer) ==
    /\ Parse(buffer, "SETUP")
    /\ m_RtpClientPort' = m_ClientRTPPort'
    /\ m_TCPTransport' = m_TcpTransport'
    /\ IF HasCSeq(buffer)
       THEN Answer([cseq |-> CSeq(buffer), method |-> "SETUP", tcp |-> m_TcpTransport',
                    port |-> IF m_TcpTransport' THEN 0 ELSE m_ClientRTPPort'])
       ELSE UNCHANGED replies
    /\ UNCHANGED <<pc, m_StreamID, stream>>

Handle_RtspSETUP(buffer) ==
    /\ Parse(buffer, "SETUP")
    /\ \/ /\ HasCSeq(buffer)
          /\ m_RtpClientPort' = m_ClientRTPPort'
          /\ m_TCPTransport' = m_TcpTransport'
          /\ Answer([cseq |-> CSeq(buffer), method |-> "SETUP", tcp |-> m_TcpTransport',
                     port |-> IF m_TcpTransport' THEN 0 ELSE m_ClientRTPPort'])
       \/ ~HasCSeq(buffer) /\ UNCHANGED <<streamer, replies>>
    /\ UNCHANGED <<pc, m_StreamID, stream>>

(* Handle_RtspRequest returns RTSP_PLAY even when the parser failed.  Then *)
(* SetStreamID asserts that the stream is one of the two.                  *)
Handle_RtspPLAY(buffer) ==
    /\ Parse(buffer, "PLAY")
    /\ IF HasCSeq(buffer) THEN Answer([cseq |-> CSeq(buffer), method |-> "PLAY"])
                          ELSE UNCHANGED replies
    /\ \/ /\ m_StreamID \in Streams
          /\ streamID' = m_StreamID
          /\ streamStarted' = TRUE
          /\ UNCHANGED pc
       \/ /\ m_StreamID \notin Streams
          /\ pc' = "aborted"
          /\ UNCHANGED stream
    /\ UNCHANGED <<m_StreamID, streamer>>

(* RTSP_TEARDOWN is returned whether or not the parser failed. *)
HandleTeardown(buffer) ==
    /\ Parse(buffer, "TEARDOWN")
    /\ pc' = "stopped"
    /\ streamStarted' = FALSE
    /\ UNCHANGED <<replies, m_StreamID, streamer, streamID>>

(* RTSP_UNKNOWN: parsed and forgotten. *)
HandleUnknown(buffer) ==
    /\ Parse(buffer, "PAUSE")
    /\ UNCHANGED <<replies, pc, m_StreamID, streamer, stream>>

svc ==
    \E n \in 1..Len(net) :
        LET received == SubSeq(net, 1, n)
            buffer   == FromMethod(received)
        IN  \/ Drop(received)
            \/ /\ Receive(received)
               /\ intact' = (intact /\ WholeRequest(received))
               /\ \/ Handle_RtspOPTION(buffer)
                  \/ Handle_RtspDESCRIBE(buffer)
                  \/ Handle_RtspSETUP(buffer)
                  \/ Handle_RtspPLAY(buffer)
                  \/ HandleTeardown(buffer)
                  \/ HandleUnknown(buffer)

Next == svc \/ \E req \in Requests : ClientSends(req)

Spec == Init /\ [][Next]_vars

------------------------------------------------------------------------------
(***************************************************************************)
(* Properties.                                                             *)
(***************************************************************************)

(* However the requests are cut or run together, the client can match      *)
(* answers to requests: they carry growing CSeqs, so no request is         *)
(* answered twice and none is answered before an earlier one.              *)
RepliesInOrder ==
    \A i, j \in DOMAIN replies : i < j => replies[i].cseq < replies[j].cseq

(* What the client was told by the last answer to SETUP is what the        *)
(* streamer sends by, though the parser changes m_TcpTransport and         *)
(* m_ClientRTPPort also for requests that it then rejects.                 *)
TransportAgreed ==
    LET setups == {i \in DOMAIN replies : replies[i].method = "SETUP"}
        last   == replies[Max(setups)]
    IN  IF setups = {} THEN ~m_TCPTransport /\ m_RtpClientPort = 0
        ELSE /\ last.tcp = m_TCPTransport
             /\ last.tcp \/ last.port = m_RtpClientPort

(* A stream that plays is one that the client has described, and the       *)
(* description was answered with success.                                  *)
StreamWasDescribed ==
    streamStarted =>
        \E i \in DOMAIN replies : /\ replies[i].method = "DESCRIBE"
                                  /\ replies[i].stream = streamID
                                  /\ streamID \in Streams

Received(n) == \A i \in DOMAIN net : net[i].seq # n

(* The transport that a SETUP names: a UDP one must name its port. *)
AsAsked(reply, transport) ==
    /\ transport.tcp => reply.tcp
    /\ transport.port # 0 => ~reply.tcp /\ reply.port = transport.port

Answers(reply, n) ==
    /\ reply.cseq = n /\ reply.method = sent[n].method
    /\ reply.method = "DESCRIBE" => reply.stream = sent[n].url
    /\ reply.method = "SETUP" => AsAsked(reply, sent[n].transport)

(* If every recv() returns exactly one request then each of the four       *)
(* methods that have a handler is answered for what it asked: a transport  *)
(* or a port that a SETUP names is the one of its answer, whatever earlier *)
(* requests left in the session and on the stack.  A SETUP for UDP that    *)
(* names no port is the exception: it is answered with a port of an        *)
(* earlier request, with none, or even with TCP, so nothing is claimed of  *)
(* the transport of that answer.                                           *)
AnsweredInStep ==
    intact =>
        \A n \in DOMAIN sent :
            sent[n].method \in {"OPTIONS", "DESCRIBE", "SETUP", "PLAY"} /\ Received(n)
                => \E i \in DOMAIN replies : Answers(replies[i], n)

(* The assertion of StreamSource::SetStreamID holds (it does not: a PLAY   *)
(* may come before a DESCRIBE, or after one that was answered with 404).   *)
StreamIDAsserted == pc # "aborted"

(* The methods that the answer to OPTIONS announces are answered (PAUSE    *)
(* and TEARDOWN are not).                                                  *)
Public == {"DESCRIBE", "SETUP", "TEARDOWN", "PLAY", "PAUSE"}

PublicMethodsAnswered ==
    intact =>
        \A n \in DOMAIN sent :
            sent[n].method \in Public /\ Received(n)
                => \E i \in DOMAIN replies : replies[i].cseq = n

==============================================================================
