-------------------------- MODULE RtspSessionProofs --------------------------
(***************************************************************************)
(* Theorems about RtspSession, for any number of requests, cut into        *)
(* buffers in any way.                                                     *)
(*                                                                         *)
(* The CSeq headers that wait in the socket are in the order in which they *)
(* were sent, and behind those that were answered.  A buffer holds the     *)
(* first of them, so its answer is in order with the ones before it; what  *)
(* an answer says is what the handler has set.                             *)
(***************************************************************************)
EXTENDS RtspSession, SequenceTheorems, WellFoundedInduction, TLAPS

NetInv ==
    /\ \A j \in DOMAIN net :
          /\ net[j].seq \in 1..Len(sent)
          /\ net[j].part = "Transport" => sent[net[j].seq].method = "SETUP"
    /\ \A i, j \in DOMAIN net :
          i < j /\ net[i].part = "CSeq" /\ net[j].part = "CSeq" => net[i].seq < net[j].seq

ReplyInv ==
    /\ RepliesInOrder
    /\ \A i \in DOMAIN replies : replies[i].cseq <= Len(sent)
    /\ \A i \in DOMAIN replies, j \in DOMAIN net :
          net[j].part = "CSeq" => replies[i].cseq < net[j].seq

IsSetup(i) == i \in DOMAIN replies /\ replies[i].method = "SETUP"

TransportInv ==
    \/ (\A i \in DOMAIN replies : ~IsSetup(i)) /\ ~m_TCPTransport /\ m_RtpClientPort = 0
    \/ \E i \in DOMAIN replies :
          /\ IsSetup(i) /\ \A j \in DOMAIN replies : IsSetup(j) => j <= i
          /\ replies[i].tcp = m_TCPTransport
          /\ replies[i].tcp \/ replies[i].port = m_RtpClientPort

Described(id) ==
    \E i \in DOMAIN replies : replies[i].method = "DESCRIBE" /\ replies[i].stream = id

StreamInv ==
    /\ m_StreamID \in Streams => Described(m_StreamID)
    /\ streamStarted => streamID \in Streams /\ Described(streamID)

AnsweredFor(m) == \E i \in DOMAIN replies : Answers(replies[i], m)

Inv == TypeOK /\ NetInv /\ ReplyInv /\ TransportInv /\ StreamInv /\ AnsweredInStep

(* What recv() may return; a buffer of pieces of it; and what a handler    *)
(* does with it.                                                           *)
Buffer(received, n) == n \in 1..Len(net) /\ received = SubSeq(net, 1, n)

Cut(buffer, n) ==
    /\ buffer \in Seq(Pieces) /\ n \in 1..Len(net)
    /\ \A i \in DOMAIN buffer : \E j \in 1..n : buffer[i] = net[j]

AnswersOnce(buffer) ==
    \/ UNCHANGED replies
    \/ /\ HasCSeq(buffer)
       /\ \E r \in Replies : r.cseq = CSeq(buffer) /\ replies' = Append(replies, r)

Handler(buffer) ==
    \/ Handle_RtspOPTION(buffer) \/ Handle_RtspDESCRIBE(buffer) \/ Handle_RtspSETUP(buffer)
    \/ Handle_RtspPLAY(buffer) \/ HandleTeardown(buffer) \/ HandleUnknown(buffer)

Handles(received, buffer) ==
    /\ buffer = FromMethod(received)
    /\ \/ Drop(received)
       \/ /\ Receive(received)
          /\ intact' = (intact /\ WholeRequest(received))
          /\ Handler(buffer)

------------------------------------------------------------------------------
(***************************************************************************)
(* The first of a set of positions.                                        *)
(***************************************************************************)
LEMMA MinCorrect ==
    ASSUME NEW T, T \subseteq Nat, T # {}
    PROVE  Min(T) \in T /\ \A y \in T : Min(T) <= y
<1> DEFINE R == OpToRel(<, Nat)
<1>1. IsWellFoundedOn(R, Nat)
    BY NatLessThanWellFounded
<1>2. \A x, y \in Nat : <<y, x>> \in R <=> y < x
    BY DEF OpToRel
<1> HIDE DEF R
<1>3. \E x \in T : \A y \in T : ~(<<y, x>> \in R)
    BY <1>1, WFMin
<1>4. PICK x \in T : \A y \in T : ~(<<y, x>> \in R)
    BY <1>3
<1>5. \A y \in T : x <= y
    <2> TAKE y \in T
    <2>1. x \in Nat /\ y \in Nat
        OBVIOUS
    <2>2. ~(y < x)
        BY <2>1, <1>2, <1>4, Zenon
    <2> QED BY <2>1, <2>2
<1> QED BY <1>5 DEF Min

LEMMA MaxCorrect ==
    ASSUME NEW T, T \subseteq Nat, NEW x \in T, \A y \in T : y <= x
    PROVE  Max(T) = x
<1>1. \A y \in T : x >= y
    OBVIOUS
<1>2. Max(T) \in T /\ \A y \in T : Max(T) >= y
    BY <1>1 DEF Max
<1>3. x \in Nat /\ Max(T) \in Nat
    BY <1>2
<1>4. x <= Max(T) /\ Max(T) <= x
    BY <1>2, <1>3
<1> HIDE DEF Max
<1> QED BY <1>3, <1>4

LEMMA FirstCSeq ==
    ASSUME NEW buffer \in Seq(Pieces), HasCSeq(buffer)
    PROVE  \E i \in DOMAIN buffer :
              /\ buffer[i].part = "CSeq" /\ CSeq(buffer) = buffer[i].seq
              /\ \A j \in DOMAIN buffer : buffer[j].part = "CSeq" => i <= j
<1> DEFINE T == {i \in 1..Len(buffer) : buffer[i].part = "CSeq"}
<1>1. T \subseteq Nat /\ T # {} /\ DOMAIN buffer = 1..Len(buffer)
    BY DEF HasCSeq
<1>2. Min(T) \in T /\ \A y \in T : Min(T) <= y
    BY <1>1, MinCorrect
<1>3. CSeq(buffer) = buffer[Min(T)].seq
    BY <1>1 DEF CSeq, SelectInSeq
<1> QED BY <1>1, <1>2, <1>3

LEMMA FirstPort ==
    ASSUME NEW buffer \in Seq(Pieces)
    PROVE  \/ /\ ClientPort(buffer) = 0
              /\ \A i \in DOMAIN buffer : ~NamesPort(buffer[i])
           \/ /\ ClientPort(buffer) \in DOMAIN buffer /\ ClientPort(buffer) > 0
              /\ NamesPort(buffer[ClientPort(buffer)])
<1> DEFINE T == {i \in 1..Len(buffer) : NamesPort(buffer[i])}
<1>1. T \subseteq Nat /\ DOMAIN buffer = 1..Len(buffer)
    OBVIOUS
<1>2. ClientPort(buffer) = IF T # {} THEN Min(T) ELSE 0
    BY DEF ClientPort, SelectInSeq
<1>3. CASE T = {}
    BY <1>1, <1>2, <1>3
<1>4. CASE T # {}
    <2>1. Min(T) \in T
        BY <1>1, <1>4, MinCorrect
    <2>2. ClientPort(buffer) \in T
        BY <1>2, <1>4, <2>1
    <2> QED BY <1>1, <2>2
<1> QED BY <1>3, <1>4

------------------------------------------------------------------------------
(***************************************************************************)
(* What recv() returns and what it leaves.                                 *)
(***************************************************************************)
LEMMA BufferFacts ==
    ASSUME net \in Seq(Pieces), NEW n, NEW buffer, Buffer(buffer, n)
    PROVE  /\ buffer \in Seq(Pieces) /\ Len(buffer) = n /\ DOMAIN buffer = 1..n
           /\ n \in Nat /\ n > 0 /\ n <= Len(net) /\ Len(net) \in Nat
           /\ \A i \in 1..n : buffer[i] = net[i]
<1>1. n \in Nat /\ n > 0 /\ n <= Len(net) /\ Len(net) \in Nat
    BY DEF Buffer
<1>2. \A i \in 1..n : net[i] \in Pieces
    BY <1>1
<1>3. /\ buffer \in Seq(Pieces) /\ Len(buffer) = n - 1 + 1
      /\ \A i \in 1..n - 1 + 1 : buffer[i] = net[1 + i - 1]
    BY <1>1, <1>2, SubSeqProperties DEF Buffer
<1>4. n - 1 + 1 = n /\ \A i \in 1..n : 1 + i - 1 = i
    BY <1>1
<1> QED BY <1>1, <1>3, <1>4

LEMMA RestFacts ==
    ASSUME net \in Seq(Pieces), NEW n, NEW buffer, Buffer(buffer, n), Receive(buffer)
    PROVE  /\ net' \in Seq(Pieces) /\ DOMAIN net' = 1..Len(net) - n
           /\ \A j \in 1..Len(net) - n : net'[j] = net[n + j] /\ n + j \in DOMAIN net
<1>1. n \in Nat /\ n > 0 /\ n <= Len(net) /\ Len(net) \in Nat /\ Len(buffer) = n
    BY BufferFacts
<1>2. net' = SubSeq(net, n + 1, Len(net))
    BY <1>1 DEF Receive
<1>3. \A i \in n + 1..Len(net) : net[i] \in Pieces
    BY <1>1
<1>4. /\ net' \in Seq(Pieces)
      /\ Len(net') = IF n + 1 <= Len(net) THEN Len(net) - (n + 1) + 1 ELSE 0
      /\ \A i \in 1..Len(net) - (n + 1) + 1 : net'[i] = net[(n + 1) + i - 1]
    BY <1>1, <1>2, <1>3, SubSeqProperties
<1>5. Len(net) - (n + 1) + 1 = Len(net) - n /\ \A i \in Nat : (n + 1) + i - 1 = n + i
    BY <1>1
<1>6. Len(net') = Len(net) - n
    BY <1>1, <1>4
<1>7. \A j \in 1..Len(net) - n : j \in Nat /\ n + j \in 1..Len(net)
    BY <1>1
<1>8. ASSUME NEW j \in 1..Len(net) - n
      PROVE  net'[j] = net[n + j]
    <2>1. net'[j] = net[(n + 1) + j - 1] /\ j \in Nat
        BY <1>4, <1>5
    <2> QED BY <2>1, <1>5
<1>9. DOMAIN net' = 1..Len(net) - n
    BY <1>4, <1>6
<1> QED BY <1>4, <1>7, <1>8, <1>9

(* The parser looks at all of it, or at what is behind a Transport header. *)
LEMMA CutFacts ==
    ASSUME net \in Seq(Pieces), NEW n, NEW received, Buffer(received, n)
    PROVE  Cut(received, n) /\ Cut(FromMethod(received), n)
<1>1. /\ received \in Seq(Pieces) /\ Len(received) = n /\ DOMAIN received = 1..n
      /\ n \in 1..Len(net) /\ n \in Nat /\ n > 0 /\ \A i \in 1..n : received[i] = net[i]
    BY BufferFacts DEF Buffer
<1>2. Cut(received, n)
    BY <1>1 DEF Cut
<1>3. Cut(Tail(received), n)
    <2>1. received # <<>>
        BY <1>1
    <2>2. /\ Tail(received) \in Seq(Pieces) /\ DOMAIN Tail(received) = 1..n - 1
          /\ \A i \in 1..n - 1 : Tail(received)[i] = received[i + 1]
        BY <1>1, <2>1
    <2>3. \A i \in 1..n - 1 : i + 1 \in 1..n
        BY <1>1
    <2> QED BY <1>1, <2>2, <2>3 DEF Cut
<1> QED BY <1>2, <1>3 DEF FromMethod

------------------------------------------------------------------------------
(***************************************************************************)
(* What the handlers answer and set.                                       *)
(***************************************************************************)
LEMMA RequestFacts ==
    ASSUME NEW r \in Requests
    PROVE  /\ r.method = "DESCRIBE" => r.url \in StreamIDs
           /\ r.method = "SETUP" => /\ r.transport.tcp \in BOOLEAN
                                    /\ r.transport.port \in Ports \cup {0}
                                    /\ r.transport.tcp => r.transport.port = 0
                                    /\ r.transport
                                         = [tcp |-> r.transport.tcp, port |-> r.transport.port]
<1>1. r.method = "DESCRIBE" => r.url \in StreamIDs
    BY DEF Requests
<1>2. r.method = "SETUP" => r.transport \in Transports
    BY DEF Requests
<1>3. \A t \in Transports :
          /\ t.tcp \in BOOLEAN /\ t.port \in Ports \cup {0}
          /\ t.tcp => t.port = 0
          /\ t = [tcp |-> t.tcp, port |-> t.port]
    <2> TAKE t \in Transports
    <2>1. CASE t \in [tcp : {FALSE}, port : Ports \cup {0}]
        <3>1. t.tcp = FALSE /\ t.port \in Ports \cup {0}
            BY <2>1
        <3>2. t = [tcp |-> t.tcp, port |-> t.port]
            BY <2>1
        <3> QED BY <3>1, <3>2
    <2>2. CASE t \in [tcp : {TRUE}, port : {0}]
        <3>1. t.tcp = TRUE /\ t.port = 0
            BY <2>2
        <3>2. t = [tcp |-> t.tcp, port |-> t.port]
            BY <2>2
        <3> QED BY <3>1, <3>2
    <2> QED BY <2>1, <2>2 DEF Transports
<1> QED BY <1>1, <1>2, <1>3

LEMMA BufferRequests ==
    ASSUME TypeOK, NetInv, NEW n, NEW buffer, Cut(buffer, n)
    PROVE  \A i \in DOMAIN buffer :
              /\ buffer[i].seq \in 1..MaxRequests /\ buffer[i].seq \in DOMAIN sent
              /\ Request(buffer[i]) \in Requests
              /\ buffer[i].part = "Transport" => Request(buffer[i]).method = "SETUP"
<1>1. /\ net \in Seq(Pieces) /\ sent \in Seq(Requests)
      /\ DOMAIN sent = 1..Len(sent) /\ DOMAIN net = 1..Len(net)
    BY DEF TypeOK
<1>2. \A p \in Pieces : p.seq \in 1..MaxRequests
    BY DEF Pieces
<1> SUFFICES ASSUME NEW i \in DOMAIN buffer
             PROVE  /\ buffer[i].seq \in 1..MaxRequests /\ buffer[i].seq \in DOMAIN sent
                    /\ sent[buffer[i].seq] \in Requests
                    /\ buffer[i].part = "Transport" => sent[buffer[i].seq].method = "SETUP"
    BY DEF Request
<1>3. PICK j \in 1..n : buffer[i] = net[j]
    BY DEF Cut
<1>4. j \in DOMAIN net
    BY <1>1, <1>3 DEF Cut
<1>5. buffer[i] \in Pieces
    BY DEF Cut
<1>6. /\ buffer[i].seq \in DOMAIN sent
      /\ buffer[i].part = "Transport" => sent[buffer[i].seq].method = "SETUP"
    BY <1>1, <1>3, <1>4 DEF NetInv
<1> QED BY <1>1, <1>2, <1>5, <1>6

LEMMA ParsedType ==
    ASSUME TypeOK, NetInv, NEW n, NEW buffer, Cut(buffer, n)
    PROVE  ParsedPort(buffer) \subseteq Ports \cup {0} /\ ParsedTcp(buffer) \subseteq BOOLEAN
<1>1. buffer \in Seq(Pieces)
    BY DEF Cut
<1>2. ParsedTcp(buffer) \subseteq BOOLEAN
    BY DEF ParsedTcp
<1>3. CASE ClientPort(buffer) = 0
    BY <1>2, <1>3 DEF ParsedPort, TypeOK
<1>4. CASE ClientPort(buffer) # 0
    <2> DEFINE c == ClientPort(buffer)
    <2>1. c \in DOMAIN buffer /\ buffer[c].part = "Transport"
        BY <1>1, <1>4, FirstPort DEF NamesPort
    <2>2. Request(buffer[c]) \in Requests /\ Request(buffer[c]).method = "SETUP"
        BY <2>1, BufferRequests
    <2>3. Request(buffer[c]).transport.port \in Ports \cup {0}
        BY <2>2, RequestFacts
    <2> QED BY <1>2, <1>4, <2>3 DEF ParsedPort
<1> QED BY <1>3, <1>4

LEMMA AnswerFacts ==
    ASSUME TypeOK, NetInv, NEW n, NEW buffer, Cut(buffer, n), HasCSeq(buffer)
    PROVE  /\ CSeq(buffer) \in 1..MaxRequests /\ CSeq(buffer) \in 1..Len(sent)
           /\ \E i \in 1..n : net[i].part = "CSeq" /\ net[i].seq = CSeq(buffer)
<1>1. sent \in Seq(Requests) /\ buffer \in Seq(Pieces)
    BY DEF TypeOK, Cut
<1>2. PICK i \in DOMAIN buffer : buffer[i].part = "CSeq" /\ CSeq(buffer) = buffer[i].seq
    BY <1>1, FirstCSeq
<1>3. buffer[i].seq \in 1..MaxRequests /\ buffer[i].seq \in DOMAIN sent
    BY BufferRequests
<1>4. \E j \in 1..n : buffer[i] = net[j]
    BY DEF Cut
<1> QED BY <1>1, <1>2, <1>3, <1>4

SvcType ==
    /\ pc' \in {"loop", "stopped", "aborted"}
    /\ m_StreamID' \in StreamIDs
    /\ m_ClientRTPPort' \in Ports \cup {0} /\ m_TcpTransport' \in BOOLEAN
    /\ m_RtpClientPort' \in Ports \cup {0} /\ m_TCPTransport' \in BOOLEAN
    /\ streamID' \in StreamIDs /\ streamStarted' \in BOOLEAN

LEMMA HandlerStep ==
    ASSUME TypeOK, NetInv, NEW n, NEW received, NEW buffer, Buffer(received, n),
           Handles(received, buffer)
    PROVE  /\ AnswersOnce(buffer) /\ SvcType /\ Receive(received)
           /\ Cut(buffer, n) /\ intact' \in BOOLEAN
           /\ intact' => intact /\ WholeRequest(received)
<1>1. /\ pc \in {"loop", "stopped", "aborted"}
      /\ m_StreamID \in StreamIDs
      /\ m_ClientRTPPort \in Ports \cup {0} /\ m_TcpTransport \in BOOLEAN
      /\ m_RtpClientPort \in Ports \cup {0} /\ m_TCPTransport \in BOOLEAN
      /\ streamID \in StreamIDs /\ streamStarted \in BOOLEAN /\ intact \in BOOLEAN
    BY DEF TypeOK
<1>0. Cut(received, n) /\ Cut(buffer, n)
    BY CutFacts DEF TypeOK, Handles
<1>2. /\ ParsedPort(buffer) \subseteq Ports \cup {0} /\ ParsedTcp(buffer) \subseteq BOOLEAN
      /\ ParsedPort(received) \subseteq Ports \cup {0}
    BY <1>0, ParsedType
<1>3. HasCSeq(buffer) => CSeq(buffer) \in 1..MaxRequests
    BY <1>0, AnswerFacts
<1>4. buffer # <<>> => Request(buffer[1]) \in Requests
    <2>1. buffer # <<>> => 1 \in DOMAIN buffer
        BY <1>0 DEF Cut
    <2> QED BY <1>0, <2>1, BufferRequests
<1> USE DEF streamer, stream, SvcType
<1>13. Receive(received) /\ intact' \in BOOLEAN /\ (intact' => intact /\ WholeRequest(received))
    BY <1>1 DEF Handles, Drop
<1>5. CASE Drop(received)
    BY <1>0, <1>1, <1>2, <1>5, <1>13 DEF Drop, AnswersOnce
<1>6. ASSUME NEW method \in {"OPTIONS", "DESCRIBE", "SETUP", "PLAY", "TEARDOWN", "PAUSE"},
             Parse(buffer, method)
      PROVE  /\ m_ClientRTPPort' \in Ports \cup {0}
             /\ m_TcpTransport' \in BOOLEAN
             /\ Request(buffer[1]) \in Requests /\ Request(buffer[1]).method = method
    BY <1>1, <1>2, <1>4, <1>6 DEF Parse
<1>7. CASE Handle_RtspOPTION(buffer)
    <2>1. HasCSeq(buffer) => [cseq |-> CSeq(buffer), method |-> "OPTIONS"] \in Replies
        BY <1>3 DEF Replies
    <2> QED BY <1>0, <1>1, <1>13, <1>6, <1>7, <2>1 DEF Handle_RtspOPTION, Answer, AnswersOnce
<1>8. CASE Handle_RtspDESCRIBE(buffer)
    <2>1. Request(buffer[1]).url \in StreamIDs
        BY <1>6, <1>8, RequestFacts DEF Handle_RtspDESCRIBE
    <2>2. HasCSeq(buffer) =>
              [cseq |-> CSeq(buffer), method |-> "DESCRIBE", stream |-> Request(buffer[1]).url]
                  \in Replies
        BY <1>3, <2>1 DEF Replies
    <2> QED BY <1>0, <1>1, <1>13, <1>6, <1>8, <2>1, <2>2 DEF Handle_RtspDESCRIBE, Answer, AnswersOnce
<1>9. CASE Handle_RtspSETUP(buffer)
    <2>1. HasCSeq(buffer) =>
              [cseq |-> CSeq(buffer), method |-> "SETUP", tcp |-> m_TcpTransport',
               port |-> IF m_TcpTransport' THEN 0 ELSE m_ClientRTPPort'] \in Replies
        BY <1>3, <1>6, <1>9 DEF Replies, Handle_RtspSETUP
    <2> QED BY <1>0, <1>1, <1>13, <1>6, <1>9, <2>1 DEF Handle_RtspSETUP, Answer, AnswersOnce
<1>10. CASE Handle_RtspPLAY(buffer)
    <2>1. HasCSeq(buffer) => [cseq |-> CSeq(buffer), method |-> "PLAY"] \in Replies
        BY <1>3 DEF Replies
    <2> QED BY <1>0, <1>1, <1>13, <1>6, <1>10, <2>1 DEF Handle_RtspPLAY, Answer, AnswersOnce
<1>11. CASE HandleTeardown(buffer)
    BY <1>0, <1>1, <1>13, <1>6, <1>11 DEF HandleTeardown, AnswersOnce
<1>12. CASE HandleUnknown(buffer)
    BY <1>0, <1>1, <1>13, <1>6, <1>12 DEF HandleUnknown, AnswersOnce
<1> QED BY <1>0, <1>5, <1>7, <1>8, <1>9, <1>10, <1>11, <1>12, <1>13 DEF Handles, Handler

LEMMA SvcStep ==
    ASSUME svc
    PROVE  \E n, received, buffer : Buffer(received, n) /\ Handles(received, buffer)
BY DEF svc, Buffer, Handles, Handler

------------------------------------------------------------------------------
(***************************************************************************)
(* A request of the client.                                                *)
(***************************************************************************)
LEMMA PiecesFacts ==
    ASSUME NEW k \in 1..MaxRequests, NEW req
    PROVE  /\ PiecesOf(k, req) \in Seq(Pieces)
           /\ Len(PiecesOf(k, req)) = (IF req.method = "SETUP" THEN 3 ELSE 2)
           /\ \A i \in 1..Len(PiecesOf(k, req)) :
                 /\ PiecesOf(k, req)[i].seq = k
                 /\ i = 1 => PiecesOf(k, req)[i].part = "line"
                 /\ i = 2 => PiecesOf(k, req)[i].part = "CSeq"
                 /\ i > 2 => PiecesOf(k, req)[i].part = "Transport"
<1> DEFINE first == <<[seq |-> k, part |-> "line"], [seq |-> k, part |-> "CSeq"]>>
           third == <<[seq |-> k, part |-> "Transport"]>>
           rest == IF req.method = "SETUP" THEN third ELSE <<>>
<1>1. first \in Seq(Pieces) /\ Len(first) = 2
      /\ first[1] = [seq |-> k, part |-> "line"] /\ first[2] = [seq |-> k, part |-> "CSeq"]
    BY DEF Pieces
<1>2. third \in Seq(Pieces) /\ Len(third) = 1 /\ third[1] = [seq |-> k, part |-> "Transport"]
    BY DEF Pieces
<1>3. rest \in Seq(Pieces) /\ Len(rest) = (IF req.method = "SETUP" THEN 1 ELSE 0)
      /\ (req.method = "SETUP" => rest[1] = [seq |-> k, part |-> "Transport"])
    BY <1>2
<1>4. PiecesOf(k, req) = first \o rest
    BY DEF PiecesOf
<1> HIDE DEF first, rest
<1>5. /\ first \o rest \in Seq(Pieces) /\ Len(first \o rest) = Len(first) + Len(rest)
      /\ \A i \in 1..Len(first) + Len(rest) :
            (first \o rest)[i] = IF i <= Len(first) THEN first[i] ELSE rest[i - Len(first)]
    BY <1>1, <1>3, ConcatProperties
<1> DEFINE all == first \o rest
<1> HIDE DEF all
<1>6. /\ all \in Seq(Pieces) /\ Len(all) = 2 + Len(rest)
      /\ all[1] = first[1] /\ all[2] = first[2] /\ (Len(rest) = 1 => all[3] = rest[1])
    BY <1>1, <1>3, <1>5 DEF all
<1>7. ASSUME NEW i \in 1..Len(all)
      PROVE  /\ all[i].seq = k
             /\ i = 1 => all[i].part = "line"
             /\ i = 2 => all[i].part = "CSeq"
             /\ i > 2 => all[i].part = "Transport"
    <2>1. i = 1 \/ i = 2 \/ (i = 3 /\ Len(rest) = 1 /\ req.method = "SETUP")
        BY <1>3, <1>6
    <2>2. CASE i = 1
        <3>1. all[1] = [seq |-> k, part |-> "line"]
            BY <1>1, <1>6
        <3> QED BY <2>2, <3>1
    <2>3. CASE i = 2
        <3>1. all[2] = [seq |-> k, part |-> "CSeq"]
            BY <1>1, <1>6
        <3> QED BY <2>3, <3>1
    <2>4. CASE i = 3 /\ Len(rest) = 1 /\ req.method = "SETUP"
        <3>1. all[3] = [seq |-> k, part |-> "Transport"]
            BY <2>4, <1>3, <1>6
        <3> QED BY <2>4, <3>1
    <2> QED BY <2>1, <2>2, <2>3, <2>4
<1>8. PiecesOf(k, req) = all
    BY <1>4 DEF all
<1>9. Len(all) = IF req.method = "SETUP" THEN 3 ELSE 2
    BY <1>3, <1>6
<1> QED BY <1>6, <1>7, <1>8, <1>9

(* What a request adds behind what waits already. *)
LEMMA SendFacts ==
    ASSUME TypeOK, NEW req \in Requests, ClientSends(req)
    PROVE  LET k == Len(sent) + 1  L == Len(net)
               pieces == PiecesOf(k, req)
           IN  /\ k \in 1..MaxRequests /\ L \in Nat
               /\ sent' \in Seq(Requests) /\ Len(sent') = k /\ sent'[k] = req
               /\ \A i \in 1..Len(sent) : sent'[i] = sent[i] /\ i \in 1..k
               /\ net' \in Seq(Pieces) /\ DOMAIN net' = 1..L + Len(pieces)
               /\ \A j \in 1..L : net'[j] = net[j] /\ j \in DOMAIN net'
               /\ \A j \in DOMAIN net' : j \in 1..L \/
                     /\ j - L \in 1..Len(pieces) /\ j > L
                     /\ net'[j] = pieces[j - L]
<1> DEFINE k == Len(sent) + 1
           L == Len(net)
           pieces == PiecesOf(k, req)
<1>1. /\ sent \in Seq(Requests) /\ net \in Seq(Pieces) /\ L \in Nat /\ Len(sent) \in Nat
      /\ k \in 1..MaxRequests
    BY MaxRequestsAssumption DEF TypeOK, ClientSends
<1>2. sent' = Append(sent, req) /\ net' = net \o pieces
    BY DEF ClientSends
<1>3. pieces \in Seq(Pieces) /\ Len(pieces) \in Nat
    <2>1. pieces \in Seq(Pieces)
        BY <1>1, PiecesFacts
    <2> HIDE DEF pieces
    <2> QED BY <2>1
<1>4. /\ sent' \in Seq(Requests) /\ Len(sent') = k /\ sent'[k] = req
      /\ \A i \in 1..Len(sent) : sent'[i] = sent[i] /\ i \in 1..k
    BY <1>1, <1>2
<1> HIDE DEF pieces
<1>5. /\ net' \in Seq(Pieces) /\ Len(net') = L + Len(pieces)
      /\ \A j \in 1..L + Len(pieces) : net'[j] = IF j <= L THEN net[j] ELSE pieces[j - L]
    BY <1>1, <1>2, <1>3, ConcatProperties
<1>6. \A j \in 1..L : j \in 1..L + Len(pieces) /\ j <= L
    BY <1>1, <1>3
<1>7. \A j \in 1..L + Len(pieces) :
          j \in 1..L \/ (j - L \in 1..Len(pieces) /\ j > L /\ ~(j <= L))
    BY <1>1, <1>3
<1>8. DOMAIN net' = 1..L + Len(pieces)
    BY <1>5
<1> QED BY <1>1, <1>4, <1>5, <1>6, <1>7, <1>8 DEF pieces

LEMMA ClientStep ==
    ASSUME Inv, NEW req \in Requests, ClientSends(req)
    PROVE  Inv'
<1> DEFINE k == Len(sent) + 1
           L == Len(net)
           pieces == PiecesOf(k, req)
<1>1. /\ k \in 1..MaxRequests /\ L \in Nat /\ Len(sent) \in Nat
      /\ sent' \in Seq(Requests) /\ Len(sent') = k /\ sent'[k] = req
      /\ \A i \in 1..Len(sent) : sent'[i] = sent[i] /\ i \in 1..k
      /\ net' \in Seq(Pieces) /\ DOMAIN net' = 1..L + Len(pieces)
      /\ \A j \in 1..L : net'[j] = net[j] /\ j \in DOMAIN net'
      /\ DOMAIN net = 1..L /\ DOMAIN sent = 1..Len(sent)
    BY SendFacts DEF Inv, TypeOK
<1>2. \A j \in DOMAIN net' : j \in 1..L \/
          /\ j - L \in 1..Len(pieces) /\ j > L /\ j \in Nat
          /\ net'[j] = pieces[j - L]
    <2>1. \A j \in DOMAIN net' : j \in Nat
        BY <1>1
    <2> QED BY <2>1, SendFacts DEF Inv
<1>3. /\ Len(pieces) \in Nat /\ Len(pieces) >= 2
      /\ Len(pieces) > 2 => req.method = "SETUP"
      /\ \A i \in 1..Len(pieces) :
            /\ pieces[i].seq = k
            /\ i = 1 => pieces[i].part = "line"
            /\ i = 2 => pieces[i].part = "CSeq"
            /\ i > 2 => pieces[i].part = "Transport"
    <2>0. k \in 1..MaxRequests
        BY <1>1
    <2> HIDE DEF k
    <2>1. Len(pieces) = IF req.method = "SETUP" THEN 3 ELSE 2
        BY ONLY <2>0, PiecesFacts, SMT
    <2>2. \A i \in 1..Len(pieces) :
              /\ pieces[i].seq = k
              /\ i = 1 => pieces[i].part = "line"
              /\ i = 2 => pieces[i].part = "CSeq"
              /\ i > 2 => pieces[i].part = "Transport"
        BY ONLY <2>0, PiecesFacts, SMT
    <2> HIDE DEF pieces
    <2>3. Len(pieces) \in Nat /\ Len(pieces) >= 2 /\ (Len(pieces) > 2 => req.method = "SETUP")
        BY <2>1
    <2> QED BY <2>2, <2>3
<1> HIDE DEF pieces
<1>4. /\ UNCHANGED <<replies, pc, session, streamer, stream, intact>>
      /\ replies' = replies /\ intact' = intact
      /\ UNCHANGED <<m_StreamID, m_RtpClientPort, m_TCPTransport, streamID, streamStarted>>
    BY DEF ClientSends, streamer, session, stream
<1>5. TypeOK'
    <2>1. Len(sent') <= MaxRequests
        BY <1>1
    <2> QED BY <1>1, <1>4, <2>1 DEF Inv, TypeOK, streamer, session, stream
(* A piece that waits is an old one or a piece of the new request. *)
<1>6. ASSUME NEW j \in DOMAIN net'
      PROVE  \/ /\ j \in 1..L /\ net'[j] = net[j] /\ net[j].seq \in 1..Len(sent)
                /\ (net[j].part = "Transport" => sent[net[j].seq].method = "SETUP")
             \/ /\ j > L /\ net'[j].seq = k
                /\ net'[j].part = "Transport" => req.method = "SETUP"
                /\ net'[j].part = "CSeq" => j = L + 2
    <2>1. CASE j \in 1..L
        BY <1>1, <2>1 DEF Inv, NetInv
    <2>2. CASE j \notin 1..L
        <3>1. /\ j - L \in 1..Len(pieces) /\ j > L /\ net'[j] = pieces[j - L] /\ j \in Nat
            BY <1>2, <2>2
        <3>2. j - L = 1 \/ j - L = 2 \/ (j - L > 2 /\ Len(pieces) > 2)
            BY <1>1, <1>3, <3>1
        <3>3. /\ net'[j].seq = k
              /\ j - L = 1 => net'[j].part = "line"
              /\ j - L = 2 => net'[j].part = "CSeq"
              /\ j - L > 2 => net'[j].part = "Transport"
            BY <1>3, <3>1
        <3>4. j - L = 2 => j = L + 2
            BY <1>1, <3>1
        <3> QED BY <1>3, <3>1, <3>2, <3>3, <3>4
    <2> QED BY <2>1, <2>2
<1>7. NetInv'
    <2>1. ASSUME NEW j \in DOMAIN net'
          PROVE  /\ net'[j].seq \in 1..Len(sent')
                 /\ net'[j].part = "Transport" => sent'[net'[j].seq].method = "SETUP"
        BY <1>1, <1>6
    <2>2. ASSUME NEW i \in DOMAIN net', NEW j \in DOMAIN net', i < j,
                 net'[i].part = "CSeq", net'[j].part = "CSeq"
          PROVE  net'[i].seq < net'[j].seq
        <3>1. CASE i \in 1..L /\ j \in 1..L
            <4>1. net'[i] = net[i] /\ net'[j] = net[j]
                BY <3>1, <1>1
            <4> QED BY <3>1, <4>1, <2>2, <1>1 DEF Inv, NetInv
        <3>2. CASE i \in 1..L /\ j \notin 1..L
            BY <3>2, <1>1, <1>6
        <3>3. CASE i \notin 1..L
            <4>1. i > L /\ i = L + 2
                BY <3>3, <1>6, <2>2
            <4>2. j \notin 1..L
                BY <4>1, <2>2, <1>1
            <4>3. j = L + 2
                BY <4>2, <1>6, <2>2
            <4> QED BY <4>1, <4>3, <2>2, <1>1
        <3> QED BY <3>1, <3>2, <3>3
    <2> QED BY <2>1, <2>2 DEF NetInv
<1>8. ReplyInv'
    <2>1. \A i \in DOMAIN replies : replies[i].cseq \in Nat /\ replies[i].cseq <= Len(sent)
        <3>1. \A i \in DOMAIN replies : replies[i] \in Replies
            BY DEF Inv, TypeOK
        <3>2. \A r \in Replies : r.cseq \in Nat
            BY DEF Replies
        <3> QED BY <3>1, <3>2 DEF Inv, ReplyInv
    <2>2. ASSUME NEW i \in DOMAIN replies, NEW j \in DOMAIN net', net'[j].part = "CSeq"
          PROVE  replies[i].cseq < net'[j].seq
        <3>1. CASE j \in 1..L
            <4>1. net'[j] = net[j]
                BY <3>1, <1>1
            <4> QED BY <3>1, <4>1, <2>2, <1>1 DEF Inv, ReplyInv
        <3>2. CASE j \notin 1..L
            <4>1. net'[j].seq = k
                BY <3>2, <1>6
            <4> QED BY <4>1, <2>1, <1>1
        <3> QED BY <3>1, <3>2
    <2>3. \A i \in DOMAIN replies : replies[i].cseq <= k
        BY <2>1, <1>1
    <2> QED BY <2>2, <2>3, <1>1, <1>4 DEF Inv, ReplyInv, RepliesInOrder
<1>9. TransportInv' /\ StreamInv'
    BY <1>4 DEF Inv, TransportInv, IsSetup, StreamInv, Described
<1>10. AnsweredInStep'
    <2> SUFFICES ASSUME intact', NEW m \in 1..k,
                        sent'[m].method \in {"OPTIONS", "DESCRIBE", "SETUP", "PLAY"}, Received(m)'
                 PROVE  AnsweredFor(m)'
        BY <1>1 DEF AnsweredInStep, AnsweredFor
    <2>1. m # k
        <3>1. 1 \in 1..Len(pieces) /\ L + 1 \in DOMAIN net' /\ ~(L + 1 \in 1..L)
            BY <1>1, <1>3
        <3>2. net'[L + 1].seq = k
            BY <3>1, <1>6
        <3> QED BY <3>1, <3>2 DEF Received
    <2>2. m \in DOMAIN sent /\ sent'[m] = sent[m]
        BY <2>1, <1>1
    <2>3. Received(m)
        BY <1>1 DEF Received
    <2>4. AnsweredFor(m)
        BY <2>2, <2>3, <1>4 DEF Inv, AnsweredInStep, AnsweredFor
    <2> QED BY <2>2, <2>4, <1>4 DEF AnsweredFor, Answers, AsAsked
<1> QED BY <1>5, <1>7, <1>8, <1>9, <1>10 DEF Inv

------------------------------------------------------------------------------
(***************************************************************************)
(* A buffer that svc() handles.                                            *)
(***************************************************************************)
LEMMA AppendFacts ==
    ASSUME replies \in Seq(Replies), NEW r \in Replies, replies' = Append(replies, r)
    PROVE  /\ replies' \in Seq(Replies) /\ Len(replies) \in Nat
           /\ DOMAIN replies = 1..Len(replies) /\ DOMAIN replies' = 1..Len(replies) + 1
           /\ Len(replies) + 1 \in DOMAIN replies' /\ replies'[Len(replies) + 1] = r
           /\ \A i \in DOMAIN replies : i \in DOMAIN replies' /\ replies'[i] = replies[i]
           /\ \A i \in DOMAIN replies' : \/ i \in DOMAIN replies /\ i < Len(replies) + 1
                                        \/ i = Len(replies) + 1
<1>1. /\ replies' \in Seq(Replies) /\ Len(replies) \in Nat
      /\ DOMAIN replies = 1..Len(replies) /\ Len(replies') = Len(replies) + 1
      /\ replies'[Len(replies) + 1] = r
      /\ \A i \in 1..Len(replies) : replies'[i] = replies[i]
    OBVIOUS
<1>2. DOMAIN replies' = 1..Len(replies) + 1
    BY <1>1
<1>3. \A i \in 1..Len(replies) : i \in 1..Len(replies) + 1
    BY <1>1
<1>4. \A i \in 1..Len(replies) + 1 : \/ i \in 1..Len(replies) /\ i < Len(replies) + 1
                                     \/ i = Len(replies) + 1
    BY <1>1
<1>5. Len(replies) + 1 \in 1..Len(replies) + 1
    BY <1>1
<1> QED BY <1>1, <1>2, <1>3, <1>4, <1>5

LEMMA SvcNet ==
    ASSUME Inv, NEW n, NEW received, NEW buffer, Buffer(received, n),
           Handles(received, buffer)
    PROVE  TypeOK' /\ NetInv' /\ sent' = sent
<1>1. SvcType /\ AnswersOnce(buffer) /\ Receive(received)
    BY HandlerStep DEF Inv
<1>2. net \in Seq(Pieces) /\ DOMAIN net = 1..Len(net) /\ Len(net) \in Nat /\ n \in 1..Len(net)
    BY DEF Inv, TypeOK, Buffer
<1>3. /\ net' \in Seq(Pieces) /\ DOMAIN net' = 1..Len(net) - n
      /\ \A j \in 1..Len(net) - n : net'[j] = net[n + j] /\ n + j \in DOMAIN net
    BY <1>1, <1>2, RestFacts
<1>4. sent' = sent
    BY <1>1 DEF Receive
<1>5. replies' \in Seq(Replies)
    <2>1. CASE UNCHANGED replies
        BY <2>1 DEF Inv, TypeOK
    <2>2. CASE \E r \in Replies : r.cseq = CSeq(buffer) /\ replies' = Append(replies, r)
        BY <2>2, AppendFacts DEF Inv, TypeOK
    <2> QED BY <1>1, <2>1, <2>2 DEF AnswersOnce
<1>6. intact' \in BOOLEAN
    BY HandlerStep DEF Inv
<1>7. TypeOK'
    <2>1. sent' \in Seq(Requests) /\ Len(sent') <= MaxRequests
        BY <1>4 DEF Inv, TypeOK
    <2> QED BY <2>1, <1>1, <1>3, <1>5, <1>6 DEF TypeOK, SvcType
<1>8. NetInv'
    <2>1. ASSUME NEW j \in DOMAIN net'
          PROVE  /\ net'[j].seq \in 1..Len(sent')
                 /\ net'[j].part = "Transport" => sent'[net'[j].seq].method = "SETUP"
        <3>1. net'[j] = net[n + j] /\ n + j \in DOMAIN net
            BY <1>3
        <3> QED BY <3>1, <1>4 DEF Inv, NetInv
    <2>2. ASSUME NEW i \in DOMAIN net', NEW j \in DOMAIN net', i < j,
                 net'[i].part = "CSeq", net'[j].part = "CSeq"
          PROVE  net'[i].seq < net'[j].seq
        <3>1. /\ net'[i] = net[n + i] /\ n + i \in DOMAIN net
              /\ net'[j] = net[n + j] /\ n + j \in DOMAIN net
            BY <1>3
        <3>2. n + i < n + j
            BY <1>2, <1>3, <2>2
        <3> QED BY <3>1, <3>2, <2>2 DEF Inv, NetInv
    <2> QED BY <2>1, <2>2 DEF NetInv
<1> QED BY <1>4, <1>7, <1>8

(* The CSeq of an answer was in the buffer: behind those of the answers    *)
(* before it, and before those that still wait.                            *)
LEMMA SvcReplies ==
    ASSUME Inv, NEW n, NEW received, NEW buffer, Buffer(received, n),
           Handles(received, buffer)
    PROVE  ReplyInv'
<1>1. AnswersOnce(buffer) /\ Receive(received) /\ Cut(buffer, n) /\ sent' = sent
    BY HandlerStep, SvcNet DEF Inv
<1>2. /\ net \in Seq(Pieces) /\ DOMAIN net = 1..Len(net) /\ Len(net) \in Nat
      /\ n \in 1..Len(net) /\ replies \in Seq(Replies)
    BY DEF Inv, TypeOK, Buffer
<1>3. /\ DOMAIN net' = 1..Len(net) - n
      /\ \A j \in 1..Len(net) - n : net'[j] = net[n + j] /\ n + j \in DOMAIN net
    BY <1>1, <1>2, RestFacts
<1>4. ASSUME NEW i \in DOMAIN replies, NEW j \in DOMAIN net', net'[j].part = "CSeq"
      PROVE  replies[i].cseq < net'[j].seq
    BY <1>3, <1>4 DEF Inv, ReplyInv
<1>5. CASE UNCHANGED replies
    BY <1>1, <1>4, <1>5 DEF Inv, ReplyInv, RepliesInOrder
<1>6. ASSUME HasCSeq(buffer), NEW r \in Replies, r.cseq = CSeq(buffer),
             replies' = Append(replies, r)
      PROVE  ReplyInv'
    <2>1. /\ CSeq(buffer) \in 1..Len(sent)
          /\ \E i \in 1..n : net[i].part = "CSeq" /\ net[i].seq = CSeq(buffer)
        BY <1>1, <1>6, AnswerFacts DEF Inv
    <2>2. PICK f \in 1..n : net[f].part = "CSeq" /\ net[f].seq = r.cseq
        BY <1>6, <2>1
    <2>3. f \in DOMAIN net
        BY <1>2
    <2>4. /\ Len(replies) + 1 \in DOMAIN replies' /\ replies'[Len(replies) + 1] = r
          /\ \A i \in DOMAIN replies : i \in DOMAIN replies' /\ replies'[i] = replies[i]
          /\ \A i \in DOMAIN replies' : \/ i \in DOMAIN replies /\ i < Len(replies) + 1
                                       \/ i = Len(replies) + 1
          /\ DOMAIN replies' = 1..Len(replies) + 1 /\ Len(replies) \in Nat
        BY <1>2, <1>6, AppendFacts
    <2>5. \A i \in DOMAIN replies : replies[i].cseq < r.cseq
        BY <2>2, <2>3 DEF Inv, ReplyInv
    <2>6. RepliesInOrder'
        <3> SUFFICES ASSUME NEW i \in DOMAIN replies', NEW j \in DOMAIN replies', i < j
                     PROVE  replies'[i].cseq < replies'[j].cseq
            BY DEF RepliesInOrder
        <3>1. CASE j = Len(replies) + 1
            <4>1. i \in DOMAIN replies
                BY <2>4, <3>1
            <4> QED BY <2>4, <2>5, <3>1, <4>1
        <3>2. CASE j \in DOMAIN replies /\ j < Len(replies) + 1
            <4>1. i \in DOMAIN replies
                <5>1. i # Len(replies) + 1
                    BY <2>4, <3>2
                <5> QED BY <2>4, <5>1
            <4> QED BY <2>4, <3>2, <4>1 DEF Inv, ReplyInv, RepliesInOrder
        <3> QED BY <2>4, <3>1, <3>2
    <2>7. ASSUME NEW i \in DOMAIN replies'
          PROVE  replies'[i].cseq <= Len(sent')
        <3>1. CASE i \in DOMAIN replies
            BY <3>1, <2>4, <1>1 DEF Inv, ReplyInv
        <3>2. CASE i = Len(replies) + 1
            BY <3>2, <2>1, <2>4, <1>1, <1>6
        <3> QED BY <2>4, <3>1, <3>2
    <2>8. ASSUME NEW i \in DOMAIN replies', NEW j \in DOMAIN net', net'[j].part = "CSeq"
          PROVE  replies'[i].cseq < net'[j].seq
        <3>1. CASE i \in DOMAIN replies
            BY <3>1, <2>4, <1>4, <2>8
        <3>2. CASE i = Len(replies) + 1
            <4>1. net'[j] = net[n + j] /\ n + j \in DOMAIN net /\ f < n + j
                BY <1>2, <1>3
            <4>2. net[f].seq < net[n + j].seq
                BY <2>2, <2>3, <2>8, <4>1 DEF Inv, NetInv
            <4> QED BY <2>2, <2>4, <3>2, <4>1, <4>2
        <3> QED BY <2>4, <3>1, <3>2
    <2> QED BY <2>6, <2>7, <2>8 DEF ReplyInv
<1> QED BY <1>1, <1>5, <1>6 DEF AnswersOnce

(* An answer other than to SETUP comes with an unchanged streamer; the one *)
(* to SETUP says what InitTransport was called with.                       *)
LEMMA SvcTransport ==
    ASSUME Inv, NEW n, NEW received, NEW buffer, Buffer(received, n),
           Handles(received, buffer)
    PROVE  TransportInv'
<1>1. AnswersOnce(buffer) /\ replies \in Seq(Replies)
    BY HandlerStep DEF Inv, TypeOK
<1>2. \/ /\ UNCHANGED <<m_RtpClientPort, m_TCPTransport>>
         /\ \/ UNCHANGED replies
            \/ \E r : replies' = Append(replies, r) /\ r.method # "SETUP"
      \/ \E r : /\ replies' = Append(replies, r) /\ r.method = "SETUP"
               /\ r.tcp = m_TCPTransport' /\ (r.tcp \/ r.port = m_RtpClientPort')
    <2> USE DEF streamer, Answer
    <2>1. CASE Drop(received)
        BY <2>1 DEF Drop
    <2>2. CASE Handle_RtspOPTION(buffer)
        BY <2>2 DEF Handle_RtspOPTION
    <2>3. CASE Handle_RtspDESCRIBE(buffer)
        BY <2>3 DEF Handle_RtspDESCRIBE
    <2>4. CASE Handle_RtspSETUP(buffer)
        <3>1. SvcType
            BY HandlerStep DEF Inv
        <3>2. m_TCPTransport' \in BOOLEAN
            BY <3>1 DEF SvcType
        <3> QED BY <2>4, <3>2 DEF Handle_RtspSETUP
    <2>5. CASE Handle_RtspPLAY(buffer)
        BY <2>5 DEF Handle_RtspPLAY
    <2>6. CASE HandleTeardown(buffer)
        BY <2>6 DEF HandleTeardown
    <2>7. CASE HandleUnknown(buffer)
        BY <2>7 DEF HandleUnknown
    <2> QED BY <2>1, <2>2, <2>3, <2>4, <2>5, <2>6, <2>7 DEF Handles, Handler
<1>3. CASE UNCHANGED replies /\ UNCHANGED <<m_RtpClientPort, m_TCPTransport>>
    BY <1>3 DEF Inv, TransportInv, IsSetup
<1>4. ASSUME NEW r, replies' = Append(replies, r)
      PROVE  /\ Len(replies) + 1 \in DOMAIN replies' /\ replies'[Len(replies) + 1] = r
             /\ \A i \in DOMAIN replies : i \in DOMAIN replies' /\ replies'[i] = replies[i]
             /\ \A i \in DOMAIN replies' : \/ i \in DOMAIN replies /\ i < Len(replies) + 1
                                          \/ i = Len(replies) + 1
             /\ Len(replies) + 1 <= Len(replies) + 1
    <2>1. Len(replies) \in Nat /\ DOMAIN replies = 1..Len(replies)
        BY <1>1
    <2>2. /\ DOMAIN replies' = 1..Len(replies) + 1 /\ replies'[Len(replies) + 1] = r
          /\ \A i \in 1..Len(replies) : replies'[i] = replies[i]
        BY <1>1, <1>4
    <2>3. /\ \A i \in 1..Len(replies) : i \in 1..Len(replies) + 1
          /\ \A i \in 1..Len(replies) + 1 : \/ i \in 1..Len(replies) /\ i < Len(replies) + 1
                                            \/ i = Len(replies) + 1
          /\ Len(replies) + 1 \in 1..Len(replies) + 1
          /\ Len(replies) + 1 <= Len(replies) + 1
        BY <2>1
    <2> QED BY <2>1, <2>2, <2>3
<1>5. ASSUME NEW r, replies' = Append(replies, r), r.method # "SETUP",
             UNCHANGED <<m_RtpClientPort, m_TCPTransport>>
      PROVE  TransportInv'
    <2>1. \A i \in DOMAIN replies' : IsSetup(i)' <=> IsSetup(i)
        BY <1>4, <1>5 DEF IsSetup
    <2>2. CASE (\A i \in DOMAIN replies : ~IsSetup(i)) /\ ~m_TCPTransport /\ m_RtpClientPort = 0
        <3>1. \A i \in DOMAIN replies' : ~IsSetup(i)'
            BY <2>1, <2>2 DEF IsSetup
        <3> QED BY <3>1, <2>2, <1>5 DEF TransportInv
    <2>3. ASSUME NEW i \in DOMAIN replies, IsSetup(i),
                 \A j \in DOMAIN replies : IsSetup(j) => j <= i,
                 replies[i].tcp = m_TCPTransport,
                 replies[i].tcp \/ replies[i].port = m_RtpClientPort
          PROVE  TransportInv'
        <3>1. i \in DOMAIN replies' /\ replies'[i] = replies[i] /\ IsSetup(i)'
            BY <2>1, <2>3, <1>4, <1>5
        <3>2. \A j \in DOMAIN replies' : IsSetup(j)' => j <= i
            BY <2>1, <2>3 DEF IsSetup
        <3> QED BY <3>1, <3>2, <2>3, <1>5 DEF TransportInv
    <2> QED BY <2>2, <2>3 DEF Inv, TransportInv
<1>6. ASSUME NEW r, replies' = Append(replies, r), r.method = "SETUP",
             r.tcp = m_TCPTransport', r.tcp \/ r.port = m_RtpClientPort'
      PROVE  TransportInv'
    <2>1. PICK last : last = Len(replies) + 1
        OBVIOUS
    <2>2. last \in DOMAIN replies' /\ replies'[last] = r
        BY <1>4, <1>6, <2>1
    <2>3. \A j \in DOMAIN replies' : j <= last
        <3>1. Len(replies) \in Nat /\ DOMAIN replies = 1..Len(replies)
            BY <1>1
        <3> QED BY <3>1, <1>4, <1>6, <2>1
    <2>4. IsSetup(last)'
        BY <2>2, <1>6 DEF IsSetup
    <2> QED BY <2>2, <2>3, <2>4, <1>6 DEF TransportInv
<1> QED BY <1>2, <1>3, <1>5, <1>6

(* Answers are kept, so a stream stays described. *)
LEMMA SvcStream ==
    ASSUME Inv, NEW n, NEW received, NEW buffer, Buffer(received, n),
           Handles(received, buffer)
    PROVE  StreamInv'
<1>1. AnswersOnce(buffer) /\ replies \in Seq(Replies)
    BY HandlerStep DEF Inv, TypeOK
<1>2. ASSUME NEW id, Described(id)
      PROVE  Described(id)'
    <2>1. CASE UNCHANGED replies
        BY <1>2, <2>1 DEF Described
    <2>2. ASSUME NEW r \in Replies, replies' = Append(replies, r)
          PROVE  Described(id)'
        <3>1. \A i \in DOMAIN replies : i \in DOMAIN replies' /\ replies'[i] = replies[i]
            BY <1>1, <2>2, AppendFacts
        <3> QED BY <1>2, <3>1 DEF Described
    <2> QED BY <1>1, <2>1, <2>2 DEF AnswersOnce
<1>3. /\ m_StreamID \in Streams => Described(m_StreamID)
      /\ streamStarted => streamID \in Streams /\ Described(streamID)
    BY DEF Inv, StreamInv
<1>4. CASE Handle_RtspDESCRIBE(buffer)
    <2>1. UNCHANGED <<streamID, streamStarted>>
        BY <1>4 DEF Handle_RtspDESCRIBE, stream
    <2>2. CASE m_StreamID' = m_StreamID
        BY <1>2, <1>3, <2>1, <2>2 DEF StreamInv
    <2>3. CASE HasCSeq(buffer) /\ Answer([cseq |-> CSeq(buffer), method |-> "DESCRIBE",
                                          stream |-> m_StreamID'])
        <3> DEFINE r == [cseq |-> CSeq(buffer), method |-> "DESCRIBE", stream |-> m_StreamID']
        <3>1. Len(replies) + 1 \in DOMAIN replies' /\ replies'[Len(replies) + 1] = r
            <4>1. Len(replies) \in Nat /\ DOMAIN replies = 1..Len(replies)
                BY <1>1
            <4>2. replies' = Append(replies, r)
                BY <2>3 DEF Answer
            <4> HIDE DEF r
            <4>3. DOMAIN replies' = 1..Len(replies) + 1 /\ replies'[Len(replies) + 1] = r
                BY <1>1, <4>2
            <4> QED BY <4>1, <4>3
        <3>2. Described(m_StreamID)'
            BY <3>1 DEF Described
        <3> QED BY <1>2, <1>3, <2>1, <3>2 DEF StreamInv
    <2> QED BY <1>4, <2>2, <2>3 DEF Handle_RtspDESCRIBE
<1>5. CASE Handle_RtspPLAY(buffer)
    <2>1. m_StreamID' = m_StreamID
        BY <1>5 DEF Handle_RtspPLAY
    <2>2. CASE m_StreamID \in Streams /\ streamID' = m_StreamID
        <3>1. PICK id : id = m_StreamID
            OBVIOUS
        <3>2. Described(id)'
            BY <1>2, <1>3, <2>2, <3>1
        <3>3. id = m_StreamID' /\ id = streamID' /\ id \in Streams
            BY <2>1, <2>2, <3>1
        <3> QED BY <3>2, <3>3 DEF StreamInv, Described
    <2>3. CASE UNCHANGED stream
        BY <1>2, <1>3, <2>1, <2>3 DEF StreamInv, stream
    <2> QED BY <1>5, <2>2, <2>3 DEF Handle_RtspPLAY
<1>6. CASE HandleTeardown(buffer)
    BY <1>2, <1>3, <1>6 DEF HandleTeardown, StreamInv
<1>7. CASE \/ Drop(received) \/ Handle_RtspOPTION(buffer)
           \/ Handle_RtspSETUP(buffer) \/ HandleUnknown(buffer)
    <2>1. UNCHANGED <<m_StreamID, streamID, streamStarted>>
        BY <1>7 DEF Drop, Handle_RtspOPTION, Handle_RtspSETUP, HandleUnknown, stream
    <2> QED BY <1>2, <1>3, <2>1 DEF StreamInv
<1> QED BY <1>4, <1>5, <1>6, <1>7 DEF Handles, Handler

(***************************************************************************)
(* A buffer that is one whole request.                                     *)
(***************************************************************************)
LEMMA WholeFacts ==
    ASSUME Inv, NEW n, NEW buffer, Buffer(buffer, n), WholeRequest(buffer)
    PROVE  LET q == buffer[1].seq  req == Request(buffer[1])
           IN  /\ q \in DOMAIN sent /\ req = sent[q] /\ req \in Requests
               /\ n > 1 /\ HasCSeq(buffer) /\ CSeq(buffer) = q
               /\ \A i \in 1..n : buffer[i].seq = q /\ buffer[i] = net[i]
               /\ req.method = "SETUP" => n = 3 /\ buffer[3].part = "Transport"
<1> DEFINE q == buffer[1].seq
           req == Request(buffer[1])
<1>1. /\ buffer \in Seq(Pieces) /\ Len(buffer) = n /\ DOMAIN buffer = 1..n
      /\ n \in Nat /\ n > 0 /\ \A i \in 1..n : buffer[i] = net[i]
    BY BufferFacts DEF Inv, TypeOK
<1>2. 1 \in DOMAIN buffer
    BY <1>1
<1>3. q \in 1..MaxRequests /\ q \in DOMAIN sent /\ req \in Requests /\ req = sent[q]
    <2>1. Cut(buffer, n)
        BY CutFacts DEF Inv, TypeOK
    <2> QED BY <1>2, <2>1, BufferRequests DEF Inv, Request
<1>4. buffer = PiecesOf(q, req)
    BY DEF WholeRequest
<1> HIDE DEF q, req
<1>5. /\ Len(PiecesOf(q, req)) = IF req.method = "SETUP" THEN 3 ELSE 2
      /\ \A i \in 1..Len(PiecesOf(q, req)) :
            /\ PiecesOf(q, req)[i].seq = q
            /\ i = 1 => PiecesOf(q, req)[i].part = "line"
            /\ i = 2 => PiecesOf(q, req)[i].part = "CSeq"
            /\ i > 2 => PiecesOf(q, req)[i].part = "Transport"
    <2>1. q \in 1..MaxRequests
        BY <1>3
    <2>2. Len(PiecesOf(q, req)) = IF req.method = "SETUP" THEN 3 ELSE 2
        BY ONLY <2>1, PiecesFacts, SMT
    <2>3. \A i \in 1..Len(PiecesOf(q, req)) :
            /\ PiecesOf(q, req)[i].seq = q
            /\ i = 1 => PiecesOf(q, req)[i].part = "line"
            /\ i = 2 => PiecesOf(q, req)[i].part = "CSeq"
            /\ i > 2 => PiecesOf(q, req)[i].part = "Transport"
        BY ONLY <2>1, PiecesFacts, SMT
    <2> QED BY <2>2, <2>3
<1>6. n = (IF req.method = "SETUP" THEN 3 ELSE 2) /\ PiecesOf(q, req) = buffer
    BY <1>1, <1>4, <1>5
<1>7. /\ n > 1 /\ 2 \in 1..n /\ buffer[2].part = "CSeq"
      /\ req.method = "SETUP" => n = 3 /\ buffer[3].part = "Transport"
    <2>1. n > 1 /\ 2 \in 1..n
        BY <1>6
    <2>2. req.method = "SETUP" => n = 3 /\ 3 \in 1..n
        BY <1>6
    <2>3. 3 \in 1..n => buffer[3].part = "Transport"
        BY <1>1, <1>5, <1>6
    <2>4. buffer[2].part = "CSeq"
        BY <1>1, <1>5, <1>6, <2>1
    <2> QED BY <2>1, <2>2, <2>3, <2>4
<1>8. \A i \in 1..n : buffer[i].seq = q /\ buffer[i] = net[i]
    BY <1>1, <1>5, <1>6
<1>9. HasCSeq(buffer)
    BY <1>1, <1>7 DEF HasCSeq
<1>10. CSeq(buffer) = q
    <2>1. PICK i \in DOMAIN buffer : CSeq(buffer) = buffer[i].seq
        BY <1>1, <1>9, FirstCSeq
    <2> QED BY <1>1, <1>8, <2>1
<1> QED BY <1>3, <1>7, <1>9, <1>10, <1>8 DEF q, req

(* A transport or a port that the request names is what the parser finds. *)
LEMMA WholeTransport ==
    ASSUME Inv, NEW n, NEW buffer, Buffer(buffer, n), WholeRequest(buffer),
           Request(buffer[1]).method = "SETUP"
    PROVE  LET t == Request(buffer[1]).transport
           IN  /\ t.tcp => ParsedTcp(buffer) = {TRUE}
               /\ t.port # 0 => ParsedTcp(buffer) = {FALSE} /\ ParsedPort(buffer) = {t.port}
<1> DEFINE req == Request(buffer[1])
           c == ClientPort(buffer)
<1>1. buffer \in Seq(Pieces) /\ DOMAIN buffer = 1..n
    BY BufferFacts DEF Inv, TypeOK
<1>2. /\ \A i \in 1..n : Request(buffer[i]) = req
      /\ n = 3 /\ buffer[3].part = "Transport"
    BY WholeFacts DEF Request
<1>3. 3 \in 1..n /\ 0 \notin 1..3
    BY <1>2
<1>4. req.transport.tcp \in BOOLEAN /\ (req.transport.tcp => req.transport.port = 0)
    <2>1. req \in Requests
        BY WholeFacts
    <2> HIDE DEF req
    <2>2. req.method = "SETUP"
        BY DEF req
    <2> QED BY <2>1, <2>2, RequestFacts
<1>5. \/ c = 0 /\ \A i \in DOMAIN buffer : ~NamesPort(buffer[i])
      \/ c \in DOMAIN buffer /\ c > 0 /\ NamesPort(buffer[c])
    BY <1>1, FirstPort
<1> HIDE DEF c
<1>6. CASE req.transport.tcp
    <2>1. c = 0
        BY <1>1, <1>2, <1>4, <1>5, <1>6 DEF NamesPort
    <2>2. NamesTcp(buffer)
        BY <1>1, <1>2, <1>3, <1>6, <2>1 DEF NamesTcp, c
    <2> QED BY <1>4, <1>6, <2>2 DEF ParsedTcp
<1>7. CASE req.transport.port # 0
    <2>1. NamesPort(buffer[3])
        BY <1>2, <1>3, <1>7 DEF NamesPort
    <2>2. c \in 1..n /\ c # 0
        BY <1>1, <1>2, <1>3, <1>5, <2>1
    <2>3. ~NamesTcp(buffer)
        BY <1>1, <1>2, <1>4, <1>7 DEF NamesTcp
    <2>4. ParsedPort(buffer) = {req.transport.port}
        <3>1. Request(buffer[c]) = req
            BY <1>2, <2>2
        <3> QED BY <3>1, <2>2 DEF ParsedPort, c
    <2>5. ParsedTcp(buffer) = {FALSE}
        BY <2>2, <2>3 DEF ParsedTcp, c
    <2> QED BY <1>4, <1>7, <2>4, <2>5
<1>8. CASE ~req.transport.tcp /\ req.transport.port = 0
    BY <1>8
<1> QED BY <1>6, <1>7, <1>8

LEMMA SvcAnswers ==
    ASSUME Inv, NEW n, NEW received, NEW buffer, Buffer(received, n),
           Handles(received, buffer)
    PROVE  AnsweredInStep'
<1>1. AnswersOnce(buffer) /\ Receive(received) /\ Cut(buffer, n) /\ sent' = sent
    BY HandlerStep, SvcNet DEF Inv
<1>2. replies \in Seq(Replies) /\ net \in Seq(Pieces) /\ DOMAIN net = 1..Len(net)
      /\ n \in 1..Len(net) /\ Len(net) \in Nat
    BY DEF Inv, TypeOK, Buffer
<1> SUFFICES ASSUME intact', NEW m \in DOMAIN sent,
                    sent[m].method \in {"OPTIONS", "DESCRIBE", "SETUP", "PLAY"}, Received(m)'
             PROVE  \E i \in DOMAIN replies' : Answers(replies'[i], m)
    <2>1. ASSUME NEW r, NEW k
          PROVE  Answers(r, k)' <=> Answers(r, k)
        BY <1>1 DEF Answers, AsAsked
    <2> QED BY <1>1, <2>1 DEF AnsweredInStep, Answers, AsAsked
<1>0. intact /\ WholeRequest(received)
    BY HandlerStep DEF Inv
<1>3. buffer = received /\ WholeRequest(buffer) /\ Buffer(buffer, n)
    <2>1. received[1].part = "line"
        BY <1>0 DEF WholeRequest, StartsRequest
    <2> QED BY <1>0, <2>1 DEF Handles, FromMethod
<1> DEFINE q == buffer[1].seq
           req == Request(buffer[1])
<1>4. /\ q \in DOMAIN sent /\ req = sent[q] /\ req \in Requests
      /\ n > 1 /\ HasCSeq(buffer) /\ CSeq(buffer) = q
      /\ \A i \in 1..n : buffer[i].seq = q /\ buffer[i] = net[i]
    BY <1>3, WholeFacts
<1>6. CASE m # q
    <2>1. Received(m)
        <3> SUFFICES ASSUME NEW j \in DOMAIN net
                     PROVE  net[j].seq # m
            BY DEF Received
        <3>1. CASE j \in 1..n
            <4>1. net[j].seq = q
                BY <1>4, <3>1
            <4> QED BY <1>6, <4>1
        <3>2. CASE j \notin 1..n
            <4>1. j - n \in 1..Len(net) - n /\ n + (j - n) = j
                BY <1>2, <3>2
            <4>2. j - n \in DOMAIN net' /\ net'[j - n] = net[n + (j - n)]
                BY <1>1, <1>2, <4>1, RestFacts
            <4> QED BY <4>1, <4>2 DEF Received
        <3> QED BY <3>1, <3>2
    <2>2. PICK i \in DOMAIN replies : Answers(replies[i], m)
        BY <1>0, <2>1 DEF Inv, AnsweredInStep
    <2>3. i \in DOMAIN replies' /\ replies'[i] = replies[i]
        BY <1>1, <1>2, AppendFacts DEF AnswersOnce
    <2> QED BY <2>2, <2>3
<1>7. CASE m = q
    <2>1. ASSUME NEW r, replies' = Append(replies, r), Answers(r, m)
          PROVE  \E i \in DOMAIN replies' : Answers(replies'[i], m)
        <3>1. Len(replies) \in Nat
            BY <1>2
        <3>2. DOMAIN replies' = 1..Len(replies) + 1 /\ replies'[Len(replies) + 1] = r
            BY <1>2, <2>1
        <3>3. Len(replies) + 1 \in DOMAIN replies'
            BY <3>1, <3>2
        <3> QED BY <3>2, <3>3, <2>1
    <2>2. req.method = sent[m].method /\ req.method \in {"OPTIONS", "DESCRIBE", "SETUP", "PLAY"}
        BY <1>4, <1>7
    <2>3. ~Drop(received) /\ ~HandleTeardown(buffer) /\ ~HandleUnknown(buffer)
        <3>1. ~Drop(received)
            BY <1>3, <2>2 DEF Drop
        <3> QED BY <3>1, <2>2 DEF HandleTeardown, HandleUnknown, Parse
    <2>4. CASE Handle_RtspOPTION(buffer)
        <3>1. req.method = "OPTIONS"
            BY <2>4 DEF Handle_RtspOPTION, Parse
        <3>2. replies' = Append(replies, [cseq |-> CSeq(buffer), method |-> "OPTIONS"])
            BY <1>4, <2>4 DEF Handle_RtspOPTION, Answer
        <3> DEFINE r == [cseq |-> CSeq(buffer), method |-> "OPTIONS"]
        <3>3. r.cseq = m /\ r.method = "OPTIONS"
            BY <1>4, <1>7
        <3> HIDE DEF r
        <3>4. Answers(r, m)
            BY <3>1, <3>3, <2>2 DEF Answers
        <3> QED BY <3>2, <3>4, <2>1 DEF r
    <2>5. CASE Handle_RtspPLAY(buffer)
        <3>1. req.method = "PLAY"
            BY <2>5 DEF Handle_RtspPLAY, Parse
        <3>2. replies' = Append(replies, [cseq |-> CSeq(buffer), method |-> "PLAY"])
            BY <1>4, <2>5 DEF Handle_RtspPLAY, Answer
        <3> DEFINE r == [cseq |-> CSeq(buffer), method |-> "PLAY"]
        <3>3. r.cseq = m /\ r.method = "PLAY"
            BY <1>4, <1>7
        <3> HIDE DEF r
        <3>4. Answers(r, m)
            BY <3>1, <3>3, <2>2 DEF Answers
        <3> QED BY <3>2, <3>4, <2>1 DEF r
    <2>6. CASE Handle_RtspDESCRIBE(buffer)
        <3>1. req.method = "DESCRIBE"
            BY <2>6 DEF Handle_RtspDESCRIBE, Parse
        <3> DEFINE r == [cseq |-> CSeq(buffer), method |-> "DESCRIBE", stream |-> m_StreamID']
        <3>2. replies' = Append(replies, r) /\ m_StreamID' = req.url
            BY <1>4, <2>6 DEF Handle_RtspDESCRIBE, Answer
        <3>3. r.cseq = m /\ r.method = "DESCRIBE" /\ r.stream = m_StreamID'
            BY <1>4, <1>7
        <3> HIDE DEF r
        <3>4. Answers(r, m)
            BY <1>4, <1>7, <3>1, <3>2, <3>3 DEF Answers
        <3> QED BY <3>2, <3>4, <2>1
    <2>7. CASE Handle_RtspSETUP(buffer)
        <3>1. req.method = "SETUP"
            BY <2>7 DEF Handle_RtspSETUP, Parse
        <3> DEFINE t == req.transport
                   r == [cseq |-> CSeq(buffer), method |-> "SETUP", tcp |-> m_TcpTransport',
                         port |-> IF m_TcpTransport' THEN 0 ELSE m_ClientRTPPort']
        <3>2. /\ replies' = Append(replies, r)
              /\ m_TcpTransport' \in ParsedTcp(buffer) /\ m_ClientRTPPort' \in ParsedPort(buffer)
            BY <1>4, <2>7 DEF Handle_RtspSETUP, Parse, Answer
        <3>3. /\ t.tcp => ParsedTcp(buffer) = {TRUE}
              /\ t.port # 0 => ParsedTcp(buffer) = {FALSE} /\ ParsedPort(buffer) = {t.port}
            BY <1>3, <3>1, WholeTransport
        <3>4. /\ t.tcp => m_TcpTransport' = TRUE
              /\ t.port # 0 => m_TcpTransport' = FALSE /\ m_ClientRTPPort' = t.port
            BY <3>2, <3>3
        <3>5. r.cseq = m /\ r.method = "SETUP"
            BY <1>4, <1>7
        <3>6. (t.tcp => r.tcp) /\ (t.port # 0 => ~r.tcp /\ r.port = t.port)
            BY <3>4
        <3>7. t = sent[m].transport /\ sent[m].method = "SETUP"
            BY <1>4, <1>7, <3>1
        <3> HIDE DEF r, t
        <3>8. Answers(r, m)
            BY <3>5, <3>6, <3>7 DEF Answers, AsAsked
        <3> QED BY <3>2, <3>8, <2>1
    <2> QED BY <2>3, <2>4, <2>5, <2>6, <2>7 DEF Handles, Handler
<1> QED BY <1>6, <1>7

------------------------------------------------------------------------------
(***************************************************************************)
(* The invariant and what follows from it.                                 *)
(***************************************************************************)
LEMMA InitInv == Init => Inv
<1> SUFFICES ASSUME Init PROVE Inv
    OBVIOUS
<1> USE DEF Init
<1>1. TypeOK
    <2>1. sent \in Seq(Requests) /\ Len(sent) = 0 /\ 0 <= MaxRequests
        BY MaxRequestsAssumption
    <2>2. net \in Seq(Pieces) /\ replies \in Seq(Replies)
        OBVIOUS
    <2>3. NoStream \in StreamIDs /\ 0 \in Ports \cup {0}
        BY DEF StreamIDs
    <2>4. Len(sent) <= MaxRequests
        BY <2>1
    <2> QED BY <2>1, <2>2, <2>3, <2>4 DEF TypeOK
<1>2. DOMAIN net = {} /\ DOMAIN replies = {} /\ DOMAIN sent = {}
    OBVIOUS
<1>3. NetInv /\ ReplyInv /\ AnsweredInStep
    BY <1>2 DEF NetInv, ReplyInv, RepliesInOrder, AnsweredInStep
<1>4. TransportInv
    BY <1>2 DEF TransportInv, IsSetup
<1>5. StreamInv
    BY NoStreamAssumption DEF StreamInv
<1> QED BY <1>1, <1>3, <1>4, <1>5 DEF Inv

LEMMA Invariance == Spec => []Inv
<1>1. Inv /\ [Next]_vars => Inv'
    <2> SUFFICES ASSUME Inv, [Next]_vars PROVE Inv'
        OBVIOUS
    <2>1. ASSUME NEW req \in Requests, ClientSends(req)
          PROVE  Inv'
        BY <2>1, ClientStep
    <2>2. ASSUME svc
          PROVE  Inv'
        <3>1. PICK n, received, buffer : Buffer(received, n) /\ Handles(received, buffer)
            BY <2>2, SvcStep
        <3> QED BY <3>1, SvcNet, SvcReplies, SvcTransport, SvcStream, SvcAnswers DEF Inv
    <2>3. CASE UNCHANGED vars
        <3>1. UNCHANGED <<sent, net, replies, pc, m_StreamID, m_ClientRTPPort, m_TcpTransport,
                          m_RtpClientPort, m_TCPTransport, streamID, streamStarted, intact>>
            BY <2>3 DEF vars, session, streamer, stream
        <3>2. TypeOK' /\ NetInv' /\ ReplyInv'
            BY <3>1 DEF Inv, TypeOK, NetInv, ReplyInv, RepliesInOrder
        <3>3. TransportInv' /\ StreamInv'
            BY <3>1 DEF Inv, TransportInv, IsSetup, StreamInv, Described
        <3>4. AnsweredInStep'
            BY <3>1 DEF Inv, AnsweredInStep, Received, Answers, AsAsked
        <3> QED BY <3>2, <3>3, <3>4 DEF Inv
    <2> QED BY <2>1, <2>2, <2>3 DEF Next
<1> QED BY <1>1, InitInv, PTL DEF Spec

(* THEOREM: every variable keeps its type.                                 *)
THEOREM TypeCorrect == Spec => []TypeOK
<1>1. Inv => TypeOK
    BY DEF Inv
<1> QED BY <1>1, Invariance, PTL

(* THEOREM: however the bytes of the requests are cut into buffers, the    *)
(* answers carry growing CSeqs: Client_Handler::svc, CRtspSession::Parse.  *)
THEOREM RepliesCorrect == Spec => []RepliesInOrder
<1>1. Inv => RepliesInOrder
    BY DEF Inv, ReplyInv
<1> QED BY <1>1, Invariance, PTL

(* THEOREM: the last answer to SETUP names the transport that the streamer *)
(* uses: CRtspSession::Handle_RtspSETUP, CStreamer::InitTransport.         *)
THEOREM TransportCorrect == Spec => []TransportAgreed
<1>1. Inv => TransportAgreed
    <2> SUFFICES ASSUME Inv PROVE TransportAgreed
        OBVIOUS
    <2> DEFINE setups == {i \in DOMAIN replies : replies[i].method = "SETUP"}
    <2>1. \A i : i \in setups <=> IsSetup(i)
        BY DEF IsSetup
    <2>2. setups \subseteq Nat
        BY DEF Inv, TypeOK
    <2>3. CASE (\A i \in DOMAIN replies : ~IsSetup(i)) /\ ~m_TCPTransport /\ m_RtpClientPort = 0
        BY <2>1, <2>3 DEF TransportAgreed
    <2>4. ASSUME NEW i \in DOMAIN replies, IsSetup(i),
                 \A j \in DOMAIN replies : IsSetup(j) => j <= i,
                 replies[i].tcp = m_TCPTransport,
                 replies[i].tcp \/ replies[i].port = m_RtpClientPort
          PROVE  TransportAgreed
        <3>1. i \in setups /\ \A j \in setups : j <= i
            BY <2>1, <2>4
        <3>2. Max(setups) = i
            <4> HIDE DEF setups
            <4> QED BY <2>2, <3>1, MaxCorrect
        <3> QED BY <2>4, <3>1, <3>2 DEF TransportAgreed
    <2> QED BY <2>3, <2>4 DEF Inv, TransportInv
<1> QED BY <1>1, Invariance, PTL

(* THEOREM: a stream that plays was described to the client before:        *)
(* CRtspSession::Handle_RtspDESCRIBE, StreamSource::SetStreamID.           *)
THEOREM StreamCorrect == Spec => []StreamWasDescribed
<1>1. Inv => StreamWasDescribed
    BY DEF Inv, StreamInv, Described, StreamWasDescribed
<1> QED BY <1>1, Invariance, PTL

(* THEOREM: when every recv() returns one request, each of them is         *)
(* answered for what it asked, but for the transport of a SETUP over UDP   *)
(* that names no port: CRtspSession::Handle_RtspRequest.                   *)
THEOREM AnswersCorrect == Spec => []AnsweredInStep
<1>1. Inv => AnsweredInStep
    BY DEF Inv
<1> QED BY <1>1, Invariance, PTL
==============================================================================
