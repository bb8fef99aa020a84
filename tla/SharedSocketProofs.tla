------------------------- MODULE SharedSocketProofs -------------------------
(***************************************************************************)
(* Theorems about SharedSocket, for messages, buffers and images of any    *)
(* size, any number of requests and any number of ports.                   *)
(*                                                                         *)
(* As to the connection a step of either thread begins a message, sends    *)
(* bytes of one, or gives one up (SendingStep): the invariants on the      *)
(* bytes are proved for these three.                                       *)
(***************************************************************************)
EXTENDS SharedSocket, FiniteSetTheorems, SequenceTheorems, TLAPS

Control ==
    /\ svc # "send" => left["svc"] = 0
    /\ gen # "send" => left["gen"] = 0
    /\ gen # "idle" => packets > 0
    /\ svc \in {"port", "tcp"} => request.method = "SETUP"

(* The bytes on the connection are of messages that were begun, and where  *)
(* a message was cut the buffer was full. *)
Numbered ==
    /\ \A t \in Threads : left[t] > 0 => message[t] > 0
    /\ \A i \in DOMAIN wire : wire[i][2] > 0 /\ wire[i][2] <= message[wire[i][1]]

CutWhereFull ==
    \A t \in Threads : \A i \in DOMAIN wire :
        wire[i] = <<t, message[t]>> /\ left[t] > 0 => \E p \in full : i <= p

PlayDone ==
    /\ played > 0 /\ played <= message["svc"]
    /\ played < message["svc"] \/ left["svc"] = 0

PlayBegun ==
    /\ played <= message["svc"]
    /\ svc = "send" /\ request.method = "PLAY" => played > 0
    /\ streamStarted \/ gen # "idle" => unanswered \/ PlayDone
    /\ \A k \in DOMAIN wire : wire[k][1] = "gen" => unanswered \/ PlayDone

AnswerBefore ==
    ~unanswered =>
        \A k \in DOMAIN wire : wire[k][1] = "gen" =>
            \A i \in Positions(<<"svc", played>>) : i < k

(* The packet that the generator is at will leave by another way than the  *)
(* one that is set now.                                                    *)
Stale ==
    \/ gen = "test" /\ remotePort # m_RtpClientPort
    \/ gen = "send" /\ ~m_TCPTransport
    \/ gen = "datagram" /\ (m_TCPTransport \/ remotePort # m_RtpClientPort)

LateBounded == late <= setups /\ (Stale /\ svc # "tcp" => late < setups)

Begins(t) == BeginMessage(t, Size(t)) /\ left[t] = 0

Same == UNCHANGED sending

------------------------------------------------------------------------------
LEMMA SizeType == \A t \in Threads : Size(t) \in Nat /\ Size(t) > 0
BY SizesAssumption DEF Size

(* What a call of send() appends. *)
LEMMA PutBytes ==
    ASSUME wire \in Seq(Threads \X Nat), message \in [Threads -> Nat],
           NEW t \in Threads, NEW size \in Nat, Put(t, size)
    PROVE  /\ wire' \in Seq(Threads \X Nat) /\ Len(wire') = Len(wire) + size
           /\ \A i \in 1..Len(wire) : wire'[i] = wire[i]
           /\ \A i \in Len(wire) + 1..Len(wire) + size : wire'[i] = <<t, message[t]>>
<1> DEFINE new == [i \in 1..size |-> <<t, message[t]>>]
<1>1. new \in Seq(Threads \X Nat) /\ Len(new) = size
    <2>1. <<t, message[t]>> \in Threads \X Nat
        OBVIOUS
    <2>2. new \in [1..size -> Threads \X Nat]
        BY <2>1
    <2> QED BY <2>2
<1>2. wire' = wire \o new
    BY DEF Put
<1>3. \A i \in 1..size : new[i] = <<t, message[t]>>
    OBVIOUS
<1> HIDE DEF new
<1>4. /\ wire' \in Seq(Threads \X Nat) /\ Len(wire') = Len(wire) + size
      /\ \A i \in 1..Len(wire) + size :
            wire'[i] = IF i <= Len(wire) THEN wire[i] ELSE new[i - Len(wire)]
    BY <1>1, <1>2, ConcatProperties
<1>5. Len(wire) \in Nat
    OBVIOUS
<1>6. \A i \in 1..Len(wire) : wire'[i] = wire[i]
    <2> TAKE i \in 1..Len(wire)
    <2>1. i \in 1..Len(wire) + size /\ i <= Len(wire)
        BY <1>5
    <2> QED BY <2>1, <1>4
<1>7. \A i \in Len(wire) + 1..Len(wire) + size : wire'[i] = <<t, message[t]>>
    <2> TAKE i \in Len(wire) + 1..Len(wire) + size
    <2>1. i - Len(wire) \in 1..size /\ i \in 1..Len(wire) + size /\ ~(i <= Len(wire))
        BY <1>5
    <2> QED BY <2>1, <1>3, <1>4
<1> QED BY <1>4, <1>6, <1>7

(* How many bytes that is, and when the buffer is full behind them. *)
LEMMA SentSize ==
    ASSUME TypeOK, NEW t \in Threads, SendBytes(t)
    PROVE  \E size \in Nat :
              /\ size > 0 /\ size <= left[t] /\ Put(t, size)
              /\ left' = [left EXCEPT ![t] = @ - size] /\ message' = message
              /\ size < left[t] => Len(wire) + size \in full'
              /\ full \subseteq full' /\ full' \subseteq full \cup {Len(wire) + size}
<1> DEFINE size == Least(left[t], Room)
<1>1. Len(wire) \in Nat /\ taken \in Nat /\ taken <= Len(wire) /\ left[t] \in Nat /\ Capacity \in Nat
    BY SizesAssumption DEF TypeOK
<1>2. Room \in Int /\ Room > 0 /\ left[t] > 0
    BY <1>1 DEF SendBytes, Room
<1>3. size \in Nat /\ size > 0 /\ size <= left[t] /\ (size < left[t] => size = Room)
    BY <1>1, <1>2 DEF Least
<1>4. Put(t, size) /\ left' = [left EXCEPT ![t] = @ - size] /\ message' = message
    BY DEF SendBytes
<1> HIDE DEF size
<1>5. full' = IF size = Room THEN full \cup {Len(wire) + size} ELSE full
    BY <1>4 DEF Put
<1>6. size < left[t] => Len(wire) + size \in full'
    BY <1>3, <1>5
<1>7. full \subseteq full' /\ full' \subseteq full \cup {Len(wire) + size}
    BY <1>5
<1> QED BY <1>3, <1>4, <1>6, <1>7

LEMMA SendingStep ==
    ASSUME TypeOK, Control, [Next]_vars
    PROVE  /\ reset => reset'
           /\ \/ Same
              \/ \E t \in Threads : Begins(t) \/ SendBytes(t) \/ SendFails(t)
<1> USE DEF Threads, Begins, Same, Size
<1>1. CASE Svc
    <2> USE <1>1 DEF Svc, Control
    <2>1. ASSUME NEW r \in Requests, Recv(r)
          PROVE  reset' = reset /\ (Same \/ Begins("svc"))
        BY <2>1 DEF Recv, sending
    <2>6. ASSUME NEW r \in Requests, RecvRejected(r)
          PROVE  reset' = reset /\ Same
        BY <2>6 DEF RecvRejected
    <2>2. CASE SetPort
        BY <2>2 DEF SetPort, sending
    <2>3. CASE SetTransport
        BY <2>3 DEF SetTransport, sending
    <2>4. CASE SendAnswer
        BY <2>4 DEF SendAnswer
    <2>5. CASE Answered
        BY <2>5 DEF Answered, sending
    <2> QED BY <2>1, <2>2, <2>3, <2>4, <2>5, <2>6
<1>2. CASE Generator
    <2> USE <1>2 DEF Generator, Control
    <2>1. CASE StreamImage
        BY <2>1 DEF StreamImage, sending
    <2>2. CASE ReadPort
        BY <2>2 DEF ReadPort, sending
    <2>3. CASE TestTransport
        BY <2>3 DEF TestTransport, sending
    <2>4. CASE SendFrame
        BY <2>4 DEF SendFrame
    <2>5. CASE FrameSent
        BY <2>5 DEF FrameSent, NextPacket, sending
    <2>6. CASE SendDatagram
        BY <2>6 DEF SendDatagram, NextPacket, sending
    <2> QED BY <2>1, <2>2, <2>3, <2>4, <2>5, <2>6
<1>3. CASE ClientReads
    BY <1>3 DEF ClientReads, sending
<1>4. CASE ClientResets
    BY <1>4 DEF ClientResets, sending
<1>5. CASE UNCHANGED vars
    BY <1>5 DEF vars, sending
<1> QED BY <1>1, <1>2, <1>3, <1>4, <1>5 DEF Next

------------------------------------------------------------------------------
(***************************************************************************)
(* Types and control.                                                      *)
(***************************************************************************)
LEMMA SendingType ==
    ASSUME TypeOK,
           Same \/ \E t \in Threads : Begins(t) \/ SendBytes(t) \/ SendFails(t)
    PROVE  /\ wire' \in Seq(Threads \X Nat) /\ Len(wire) \in Nat /\ Len(wire') \in Nat
           /\ Len(wire) <= Len(wire') /\ full' \subseteq 1..Len(wire')
           /\ message' \in [Threads -> Nat] /\ left' \in [Threads -> Nat]
<1>1. wire \in Seq(Threads \X Nat) /\ full \subseteq 1..Len(wire) /\ Len(wire) \in Nat
    BY DEF TypeOK
<1>2. message \in [Threads -> Nat] /\ left \in [Threads -> Nat]
    BY DEF TypeOK
<1>3. CASE Same
    BY <1>1, <1>2, <1>3 DEF Same, sending
<1>4. ASSUME NEW t \in Threads, Begins(t)
      PROVE  /\ wire' = wire /\ full' = full
             /\ message' \in [Threads -> Nat] /\ left' \in [Threads -> Nat]
    <2>1. Size(t) \in Nat /\ message[t] + 1 \in Nat
        BY <1>2, SizeType
    <2> QED BY <1>2, <1>4, <2>1 DEF Begins, BeginMessage
<1>5. ASSUME NEW t \in Threads, SendBytes(t)
      PROVE  /\ wire' \in Seq(Threads \X Nat) /\ Len(wire') \in Nat
             /\ Len(wire) <= Len(wire') /\ full' \subseteq 1..Len(wire')
             /\ message' \in [Threads -> Nat] /\ left' \in [Threads -> Nat]
    <2>1. PICK size \in Nat :
              /\ size > 0 /\ size <= left[t] /\ Put(t, size)
              /\ left' = [left EXCEPT ![t] = @ - size] /\ message' = message
              /\ full' \subseteq full \cup {Len(wire) + size}
        BY <1>5, SentSize
    <2>2. wire' \in Seq(Threads \X Nat) /\ Len(wire') = Len(wire) + size
        BY <1>1, <1>2, <2>1, PutBytes
    <2>3. left[t] - size \in Nat
        BY <1>2, <2>1
    <2>4. full' \subseteq 1..Len(wire')
        <3>1. Len(wire) + size \in 1..Len(wire') /\ Len(wire) <= Len(wire')
            BY <1>1, <2>1, <2>2
        <3>2. \A p \in 1..Len(wire) : p \in 1..Len(wire')
            BY <1>1, <2>2
        <3> QED BY <1>1, <2>1, <3>1, <3>2
    <2>5. Len(wire') \in Nat /\ Len(wire) <= Len(wire')
        BY <1>1, <2>2
    <2>6. message' \in [Threads -> Nat] /\ left' \in [Threads -> Nat]
        BY <1>2, <2>1, <2>3
    <2> QED BY <2>2, <2>4, <2>5, <2>6
<1>6. ASSUME NEW t \in Threads, SendFails(t)
      PROVE  /\ wire' = wire /\ full' = full
             /\ message' \in [Threads -> Nat] /\ left' \in [Threads -> Nat]
    BY <1>2, <1>6 DEF SendFails
<1>7. ASSUME NEW t \in Threads, Begins(t) \/ SendFails(t)
      PROVE  /\ wire' \in Seq(Threads \X Nat) /\ Len(wire') \in Nat
             /\ Len(wire) <= Len(wire') /\ full' \subseteq 1..Len(wire')
             /\ message' \in [Threads -> Nat] /\ left' \in [Threads -> Nat]
    <2>1. /\ wire' = wire /\ full' = full
          /\ message' \in [Threads -> Nat] /\ left' \in [Threads -> Nat]
        BY <1>4, <1>6, <1>7
    <2> QED BY <1>1, <2>1
<1>8. ASSUME NEW t \in Threads, Begins(t) \/ SendBytes(t) \/ SendFails(t)
      PROVE  /\ wire' \in Seq(Threads \X Nat) /\ Len(wire') \in Nat
             /\ Len(wire) <= Len(wire') /\ full' \subseteq 1..Len(wire')
             /\ message' \in [Threads -> Nat] /\ left' \in [Threads -> Nat]
    BY ONLY <1>5, <1>7, <1>8, Zenon
<1> HIDE DEF Same
<1> QED BY ONLY <1>1, <1>3, <1>8, Zenon,
           Same \/ \E t \in Threads : Begins(t) \/ SendBytes(t) \/ SendFails(t)

(* What a thread sends is no more than what is left of its own message.    *)
LEMMA OwnBytes ==
    ASSUME TypeOK, NEW t \in Threads, SendBytes(t) \/ SendFails(t)
    PROVE  /\ message' = message /\ left[t] > 0
           /\ \A u \in Threads : u # t => left'[u] = left[u]
<1>1. left \in [Threads -> Nat]
    BY DEF TypeOK
<1> QED BY <1>1 DEF SendBytes, SendFails

LEMMA RequestType ==
    ASSUME request \in Requests, request.method = "SETUP"
    PROVE  /\ request.transport.port \in Ports \cup {0}
           /\ request.transport.tcp \in BOOLEAN
BY DEF Requests, Transports

(* What a step may change besides what is sent. *)
LEMMA TypeStep == TypeOK /\ Control /\ [Next]_vars => TypeOK' /\ Control'
<1> SUFFICES ASSUME TypeOK, Control, [Next]_vars PROVE TypeOK' /\ Control'
    OBVIOUS
<1>1. /\ wire' \in Seq(Threads \X Nat) /\ Len(wire) \in Nat /\ Len(wire') \in Nat
      /\ Len(wire) <= Len(wire') /\ full' \subseteq 1..Len(wire')
      /\ message' \in [Threads -> Nat] /\ left' \in [Threads -> Nat]
    BY SendingStep, SendingType
<1>2. /\ taken \in Nat /\ taken <= Len(wire) /\ reset \in BOOLEAN
      /\ svc \in {"recv", "port", "tcp", "send"}
      /\ request \in Requests /\ requests \in 0..MaxRequests
      /\ gen \in {"idle", "port", "test", "send", "datagram"}
      /\ remotePort \in Ports \cup {0}
      /\ packets \in 0..ImagePackets /\ images \in 0..MaxImages
      /\ streamStarted \in BOOLEAN
      /\ m_RtpClientPort \in Ports \cup {0} /\ m_TCPTransport \in BOOLEAN
      /\ played \in Nat /\ unanswered \in BOOLEAN /\ setups \in Nat /\ late \in Nat
    BY <1>1 DEF TypeOK
<1>3. message \in [Threads -> Nat] /\ left \in [Threads -> Nat]
    BY DEF TypeOK
<1>4. ImagePackets \in Nat /\ ImagePackets > 0 /\ MaxRequests \in Nat /\ MaxImages \in Nat
    BY SizesAssumption, BoundsAssumption
<1> DEFINE Kept == UNCHANGED <<svcVars, genVars, streamStarted, streamer, history>>
           SvcType == /\ svc' \in {"recv", "port", "tcp", "send"}
                      /\ request' \in Requests /\ requests' \in 0..MaxRequests
           GenType == /\ gen' \in {"idle", "port", "test", "send", "datagram"}
                      /\ remotePort' \in Ports \cup {0}
                      /\ packets' \in 0..ImagePackets /\ images' \in 0..MaxImages
           StreamerType == /\ streamStarted' \in BOOLEAN
                           /\ m_RtpClientPort' \in Ports \cup {0} /\ m_TCPTransport' \in BOOLEAN
           HistoryType == /\ played' \in Nat /\ unanswered' \in BOOLEAN
                          /\ setups' \in Nat /\ late' \in Nat
           ClientType == taken' \in Nat /\ taken' <= Len(wire') /\ reset' \in BOOLEAN
           Goal == /\ SvcType /\ GenType /\ StreamerType /\ HistoryType /\ ClientType
                   /\ Control'
<1>5. Goal
    <2> USE <1>1, <1>2, <1>3, <1>4 DEF svcVars, genVars, streamer, history, Control, Threads
    <2>1. ASSUME NEW r \in Requests, Recv(r) PROVE Goal
        BY <2>1 DEF Recv, BeginMessage, sending
    <2>15. ASSUME NEW r \in Requests, RecvRejected(r) PROVE Goal
        BY <2>15 DEF RecvRejected, sending
    <2>2. CASE SetPort
        <3>1. request.method = "SETUP"
            BY <2>2 DEF SetPort
        <3> QED BY <2>2, <3>1, RequestType DEF SetPort, sending
    <2>3. CASE SetTransport
        <3>1. request.method = "SETUP"
            BY <2>3 DEF SetTransport
        <3> QED BY <2>3, <3>1, RequestType DEF SetTransport, BeginMessage
    <2>4. CASE SendAnswer
        <3>1. left'["gen"] = left["gen"]
            BY <2>4, OwnBytes DEF SendAnswer
        <3> QED BY <2>4, <3>1 DEF SendAnswer
    <2>5. CASE Answered
        BY <2>5 DEF Answered, sending
    <2>6. CASE StreamImage
        BY <2>6 DEF StreamImage, sending
    <2>7. CASE ReadPort
        BY <2>7 DEF ReadPort, sending
    <2>8. CASE TestTransport
        BY <2>8 DEF TestTransport, BeginMessage, sending
    <2>9. CASE SendFrame
        <3>1. left'["svc"] = left["svc"]
            BY <2>9, OwnBytes DEF SendFrame
        <3> QED BY <2>9, <3>1 DEF SendFrame
    <2>10. CASE FrameSent
        BY <2>10 DEF FrameSent, NextPacket, sending
    <2>11. CASE SendDatagram
        BY <2>11 DEF SendDatagram, NextPacket, sending
    <2>12. CASE ClientReads
        BY <2>12 DEF ClientReads, sending
    <2>13. CASE ClientResets
        BY <2>13 DEF ClientResets, sending
    <2>14. CASE UNCHANGED vars
        BY <2>14 DEF vars, sending
    <2> QED BY <2>1, <2>2, <2>3, <2>4, <2>5, <2>6, <2>7, <2>8, <2>9, <2>10, <2>11, <2>12,
               <2>13, <2>14, <2>15 DEF Next, Svc, Generator
<1>6. taken' \in 0..Len(wire')
    BY <1>1, <1>5
<1> QED BY ONLY <1>1, <1>5, <1>6, Zenon DEF TypeOK

------------------------------------------------------------------------------
(***************************************************************************)
(* The bytes on the connection.                                            *)
(***************************************************************************)
Bytes == Numbered /\ CutWhereFull /\ TornOnlyWhenFull /\ MessagesComplete

LEMMA BeginKeeps ==
    ASSUME TypeOK, Bytes, NEW t \in Threads, Begins(t), reset => reset'
    PROVE  Bytes'
<1>1. wire \in Seq(Threads \X Nat) /\ Len(wire) \in Nat
    BY DEF TypeOK
<1>2. message \in [Threads -> Nat] /\ left \in [Threads -> Nat] /\ message' \in [Threads -> Nat]
    BY DEF TypeOK, Begins, BeginMessage
<1>3. /\ wire' = wire /\ full' = full /\ left[t] = 0
      /\ message'[t] = message[t] + 1 /\ left'[t] = Size(t)
      /\ \A u \in Threads \ {t} : message'[u] = message[u] /\ left'[u] = left[u]
    BY <1>2 DEF Begins, BeginMessage
<1>4. \A i \in DOMAIN wire : wire[i][1] \in Threads /\ wire[i][2] \in Nat
    BY <1>1
<1>5. \A u \in Threads : message[u] \in Nat /\ left[u] \in Nat /\ Size(u) \in Nat
    BY <1>2, SizeType
<1>6. Numbered'
    <2>1. \A u \in Threads : left'[u] > 0 => message'[u] > 0
        BY <1>3, <1>5 DEF Bytes, Numbered
    <2>2. ASSUME NEW i \in DOMAIN wire
          PROVE  wire[i][2] > 0 /\ wire[i][2] <= message'[wire[i][1]]
        <3>1. wire[i][2] > 0 /\ wire[i][2] <= message[wire[i][1]]
            BY DEF Bytes, Numbered
        <3> QED BY <3>1, <1>3, <1>4, <1>5
    <2> QED BY <1>3, <2>1, <2>2 DEF Numbered
<1>7. \A i \in DOMAIN wire : wire[i] # <<t, message[t] + 1>>
    BY <1>4, <1>5 DEF Bytes, Numbered
<1>8. CutWhereFull'
    BY <1>3, <1>7 DEF Bytes, CutWhereFull
<1>9. TornOnlyWhenFull'
    BY <1>3 DEF Bytes, TornOnlyWhenFull
<1>10. MessagesComplete'
    <2> SUFFICES ASSUME ~reset, NEW u \in Threads, NEW n \in 1..message'[u]
                 PROVE  Cardinality(Positions(<<u, n>>)')
                            = Size(u) - (IF n = message'[u] THEN left'[u] ELSE 0)
        BY DEF MessagesComplete, Size
    <2>1. Positions(<<u, n>>)' = Positions(<<u, n>>)
        BY <1>3 DEF Positions
    <2>2. CASE u = t /\ n = message[t] + 1
        <3>1. Positions(<<u, n>>) = {}
            BY <2>2, <1>7 DEF Positions
        <3>2. Cardinality(Positions(<<u, n>>)) = 0
            BY <3>1, FS_EmptySet
        <3> QED BY <2>1, <2>2, <3>2, <1>3, <1>5
    <2>3. CASE ~(u = t /\ n = message[t] + 1)
        <3>1. n \in 1..message[u]
            BY <2>3, <1>3, <1>5
        <3>2. Cardinality(Positions(<<u, n>>))
                  = Size(u) - (IF n = message[u] THEN left[u] ELSE 0)
            BY <3>1 DEF Bytes, MessagesComplete
        <3>3. CASE u = t
            <4>1. n # message'[u] /\ left[u] = 0
                BY <3>3, <2>3, <1>3
            <4> QED BY <4>1, <3>2, <2>1
        <3>4. CASE u # t
            <4>1. message'[u] = message[u] /\ left'[u] = left[u]
                BY <3>4, <1>3
            <4> QED BY <4>1, <3>2, <2>1
        <3> QED BY <3>3, <3>4
    <2> QED BY <2>2, <2>3
<1> QED BY <1>6, <1>8, <1>9, <1>10 DEF Bytes

LEMMA FailKeeps ==
    ASSUME TypeOK, Bytes, NEW t \in Threads, SendFails(t), reset => reset'
    PROVE  Bytes'
<1>1. message \in [Threads -> Nat] /\ left \in [Threads -> Nat]
    BY DEF TypeOK
<1>2. /\ wire' = wire /\ full' = full /\ message' = message /\ left'[t] = 0 /\ reset'
      /\ \A u \in Threads \ {t} : left'[u] = left[u]
    BY <1>1 DEF SendFails
<1>3. Numbered' /\ CutWhereFull'
    BY <1>2 DEF Bytes, Numbered, CutWhereFull
<1>4. TornOnlyWhenFull'
    BY <1>2 DEF Bytes, TornOnlyWhenFull
<1>5. MessagesComplete'
    BY <1>2 DEF MessagesComplete
<1> QED BY <1>3, <1>4, <1>5 DEF Bytes

LEMMA SendKeeps ==
    ASSUME TypeOK, Bytes, NEW t \in Threads, SendBytes(t)
    PROVE  Bytes'
<1>1. PICK size \in Nat :
          /\ size > 0 /\ size <= left[t] /\ Put(t, size)
          /\ left' = [left EXCEPT ![t] = @ - size] /\ message' = message
          /\ size < left[t] => Len(wire) + size \in full'
          /\ full \subseteq full'
    BY SentSize
<1>2. /\ wire \in Seq(Threads \X Nat) /\ Len(wire) \in Nat /\ full \subseteq 1..Len(wire)
      /\ message \in [Threads -> Nat] /\ left \in [Threads -> Nat]
    BY DEF TypeOK
<1> DEFINE L == Len(wire)
           New == L + 1..L + size
           now == <<t, message[t]>>
<1>3. /\ wire' \in Seq(Threads \X Nat) /\ Len(wire') = L + size
      /\ \A i \in 1..L : wire'[i] = wire[i]
      /\ \A i \in New : wire'[i] = now
    BY <1>1, <1>2, PutBytes
<1>4. DOMAIN wire = 1..L /\ DOMAIN wire' = 1..L + size
    BY <1>2, <1>3
<1>5. L \in Nat /\ (\A i \in 1..L : i \in 1..L + size)
      /\ (\A i \in 1..L + size : i \in 1..L \/ i \in New)
    BY <1>2
<1>6. /\ left'[t] = left[t] - size /\ left[t] \in Nat /\ message[t] \in Nat
      /\ \A u \in Threads \ {t} : left'[u] = left[u]
      /\ now[1] = t /\ now[2] = message[t]
    BY <1>1, <1>2
<1> HIDE DEF now
<1>7. Numbered'
    <2>1. \A u \in Threads : left'[u] > 0 => message'[u] > 0
        BY <1>1, <1>6 DEF Bytes, Numbered
    <2>2. message[t] > 0
        BY <1>1, <1>6 DEF Bytes, Numbered
    <2>3. ASSUME NEW i \in 1..L + size
          PROVE  wire'[i][2] > 0 /\ wire'[i][2] <= message[wire'[i][1]]
        <3>1. CASE i \in 1..L
            BY <3>1, <1>3, <1>4 DEF Bytes, Numbered
        <3>2. CASE i \in New
            BY <3>2, <1>3, <1>6, <2>2
        <3> QED BY <3>1, <3>2, <1>5
    <2> QED BY <1>1, <1>4, <2>1, <2>3 DEF Numbered
<1>8. CutWhereFull'
    <2> SUFFICES ASSUME NEW u \in Threads, NEW i \in 1..L + size,
                        wire'[i] = <<u, message[u]>>, left'[u] > 0
                 PROVE  \E p \in full' : i <= p
        BY <1>1, <1>4 DEF CutWhereFull
    <2>1. CASE u = t
        <3>1. size < left[t]
            BY <2>1, <1>6
        <3> QED BY <3>1, <1>1, <1>5
    <2>2. CASE u # t
        <3>1. i \in 1..L
            BY <2>2, <1>3, <1>5, <1>6
        <3>2. wire[i] = <<u, message[u]>> /\ left[u] > 0
            BY <3>1, <2>2, <1>3, <1>6
        <3>3. \E p \in full : i <= p
            BY <3>1, <3>2, <1>4 DEF Bytes, CutWhereFull
        <3> QED BY <3>3, <1>1
    <2> QED BY <2>1, <2>2
<1>9. TornOnlyWhenFull'
    <2> SUFFICES ASSUME NEW i \in 1..L + size, NEW k \in 1..L + size,
                        wire'[i] = wire'[k], NEW j \in i..k, wire'[j] # wire'[i]
                 PROVE  \E p \in full' : i <= p /\ p < k
        BY <1>4 DEF TornOnlyWhenFull
    <2>1. CASE k \in 1..L
        <3>1. i \in 1..L /\ j \in 1..L
            BY <2>1, <1>5
        <3>2. wire[i] = wire[k] /\ wire[j] # wire[i]
            BY <3>1, <2>1, <1>3
        <3>3. \E p \in full : i <= p /\ p < k
            BY <3>1, <3>2, <2>1, <1>4 DEF Bytes, TornOnlyWhenFull
        <3> QED BY <3>3, <1>1
    <2>2. CASE k \in New /\ i \in New
        <3>1. j \in New
            BY <2>2, <1>5
        <3> QED BY <3>1, <2>2, <1>3
    <2>3. CASE k \in New /\ i \in 1..L
        <3>1. wire[i] = <<t, message[t]>> /\ left[t] > 0
            <4>1. wire'[k] = now /\ wire'[i] = wire[i]
                BY <2>3, <1>3
            <4>2. left[t] > 0
                BY <1>1, <1>6
            <4> QED BY <4>1, <4>2 DEF now
        <3>2. \E p \in full : i <= p
            BY <3>1, <2>3, <1>4 DEF Bytes, CutWhereFull
        <3>3. \A p \in full : p < k
            BY <2>3, <1>2, <1>5
        <3> QED BY <3>2, <3>3, <1>1
    <2> QED BY <2>1, <2>2, <2>3, <1>5
<1>10. MessagesComplete'
    <2> SUFFICES ASSUME NEW u \in Threads, NEW n \in 1..message[u]
                 PROVE  Cardinality(Positions(<<u, n>>)')
                            = Size(u) - (IF n = message[u] THEN left'[u] ELSE 0)
        BY <1>1 DEF MessagesComplete, Size
    <2>1. ~reset
        BY DEF SendBytes
    <2>2. Cardinality(Positions(<<u, n>>))
              = Size(u) - (IF n = message[u] THEN left[u] ELSE 0)
        BY <2>1 DEF Bytes, MessagesComplete
    <2>3. CASE <<u, n>> = now
        <3>1. Positions(<<u, n>>)' = Positions(<<u, n>>) \cup New
            BY <2>3, <1>3, <1>4, <1>5 DEF Positions
        <3>2. Positions(<<u, n>>) \subseteq 1..L
            BY <1>4 DEF Positions
        <3>3. IsFiniteSet(Positions(<<u, n>>))
            <4>1. IsFiniteSet(1..L)
                BY <1>5, FS_Interval
            <4> QED BY <3>2, <4>1, FS_Subset
        <3>4. IsFiniteSet(New) /\ Cardinality(New) = size
            <4>1. L + 1 \in Int /\ L + size \in Int /\ ~(L + 1 > L + size)
                BY <1>1, <1>5
            <4>2. IsFiniteSet(New) /\ Cardinality(New) = (L + size) - (L + 1) + 1
                BY <4>1, FS_Interval
            <4> QED BY <4>2, <1>1, <1>5
        <3>5. Positions(<<u, n>>) \cap New = {}
            BY <3>2, <1>5
        <3>6. Cardinality(Positions(<<u, n>>) \cup New)
                  = Cardinality(Positions(<<u, n>>)) + Cardinality(New)
                    - Cardinality(Positions(<<u, n>>) \cap New)
            BY <3>3, <3>4, FS_Union
        <3>7. Cardinality(Positions(<<u, n>>)') = Cardinality(Positions(<<u, n>>)) + size
            <4>1. Cardinality(Positions(<<u, n>>)) \in Nat
                BY <3>3, FS_CardinalityType
            <4>2. Cardinality(Positions(<<u, n>>) \cap New) = 0
                BY <3>5, FS_EmptySet
            <4>3. Cardinality(Positions(<<u, n>>) \cup New)
                      = Cardinality(Positions(<<u, n>>)) + size
                <5> HIDE DEF New
                <5> QED BY <4>1, <4>2, <3>4, <3>6
            <4> QED BY <4>3, <3>1
        <3>8. u = t /\ n = message[t]
            BY <2>3 DEF now
        <3>9. Size(u) \in Nat
            BY SizeType
        <3> QED BY <3>7, <3>8, <3>9, <2>2, <1>6
    <2>4. CASE <<u, n>> # now
        <3>1. Positions(<<u, n>>)' = Positions(<<u, n>>)
            BY <2>4, <1>3, <1>4, <1>5 DEF Positions
        <3>2. u # t \/ n # message[u]
            BY <2>4 DEF now
        <3>3. n = message[u] => left'[u] = left[u]
            BY <3>2, <1>6
        <3> QED BY <3>1, <3>3, <2>2
    <2> QED BY <2>3, <2>4
<1> QED BY <1>7, <1>8, <1>9, <1>10 DEF Bytes

LEMMA BytesStep == TypeOK /\ Control /\ Bytes /\ [Next]_vars => Bytes'
<1> SUFFICES ASSUME TypeOK, Control, Bytes, [Next]_vars PROVE Bytes'
    OBVIOUS
<1>1. CASE Same
    <2>1. wire' = wire /\ full' = full /\ message' = message /\ left' = left
        BY <1>1 DEF Same, sending
    <2>2. reset => reset'
        BY SendingStep
    <2> QED BY <2>1, <2>2 DEF Bytes, Numbered, CutWhereFull, TornOnlyWhenFull,
                              MessagesComplete, Positions
<1>2. CASE \E t \in Threads : Begins(t) \/ SendBytes(t) \/ SendFails(t)
    BY <1>2, SendingStep, BeginKeeps, SendKeeps, FailKeeps
<1> QED BY <1>1, <1>2, SendingStep

------------------------------------------------------------------------------
(***************************************************************************)
(* The answer to PLAY.                                                     *)
(***************************************************************************)

(* Once the answer is done it stays so, whatever svc() begins next. *)
LEMMA PlayMonotonic ==
    ASSUME TypeOK, Control, PlayBegun, [Next]_vars
    PROVE  /\ played' <= message'["svc"]
           /\ played > 0 => played' = played
           /\ PlayDone => PlayDone'
           /\ unanswered => unanswered'
<1>1. /\ message \in [Threads -> Nat] /\ left \in [Threads -> Nat] /\ played \in Nat
      /\ message["svc"] \in Nat /\ left["svc"] \in Nat /\ played <= message["svc"]
    BY DEF TypeOK, Threads, PlayBegun
<1> DEFINE Goal == /\ played' <= message'["svc"]
                   /\ played > 0 => played' = played
                   /\ PlayDone => PlayDone'
<1>2. ASSUME played' = played, message'["svc"] = message["svc"],
             left'["svc"] = left["svc"] \/ left'["svc"] = 0
      PROVE  Goal
    BY <1>1, <1>2 DEF PlayDone
<1> USE DEF streamer, history
<1>9. unanswered => unanswered'
    BY DEF Next, Svc, Recv, RecvRejected, SetPort, SetTransport, SendAnswer, Answered,
           Generator, StreamImage, ReadPort, TestTransport, SendFrame, FrameSent, SendDatagram,
           NextPacket, ClientReads, ClientResets, vars
<1>10. ASSUME NEW r \in Requests, RecvRejected(r) PROVE Goal
    <2>1. played' = played /\ message' = message /\ left' = left
        BY <1>10 DEF RecvRejected, sending
    <2> QED BY <1>2, <2>1
<1>3. ASSUME NEW r \in Requests, Recv(r) PROVE Goal
    <2>1. played > 0 => played' = played
        BY <1>3 DEF Recv
    <2>2. \/ message'["svc"] = message["svc"] /\ left'["svc"] = left["svc"] /\ r.method = "SETUP"
          \/ message'["svc"] = message["svc"] + 1
        BY <1>1, <1>3 DEF Recv, BeginMessage, sending, Threads
    <2>3. played' = played \/ (r.method = "PLAY" /\ played' = message["svc"] + 1)
        BY <1>3 DEF Recv
    <2>4. played' <= message'["svc"]
        BY <1>1, <2>2, <2>3
    <2>5. PlayDone => PlayDone'
        BY <1>1, <2>1, <2>2 DEF PlayDone
    <2> QED BY <2>1, <2>4, <2>5
<1>4. CASE SetTransport
    <2>1. message'["svc"] = message["svc"] + 1 /\ played' = played
        BY <1>1, <1>4 DEF SetTransport, BeginMessage, Threads
    <2> QED BY <1>1, <1>9, <2>1 DEF PlayDone
<1>5. CASE SendAnswer
    <2>1. /\ played' = played /\ message' = message /\ left["svc"] > 0
        BY <1>5, OwnBytes DEF SendAnswer, Threads
    <2> QED BY <1>1, <1>9, <2>1 DEF PlayDone
<1>6. CASE SendFrame
    <2>1. /\ played' = played /\ message' = message /\ left'["svc"] = left["svc"]
        BY <1>6, OwnBytes DEF SendFrame, Threads
    <2> QED BY <1>2, <1>9, <2>1
<1>7. CASE TestTransport
    <2>1. /\ played' = played /\ message'["svc"] = message["svc"] /\ left'["svc"] = left["svc"]
        BY <1>1, <1>7 DEF TestTransport, BeginMessage, sending, Threads
    <2> QED BY <1>2, <1>9, <2>1
<1>8. CASE \/ SetPort \/ Answered \/ StreamImage \/ ReadPort \/ FrameSent \/ SendDatagram
           \/ ClientReads \/ ClientResets \/ UNCHANGED vars
    <2>1. played' = played /\ message' = message /\ left' = left
        BY <1>8 DEF SetPort, Answered, StreamImage, ReadPort, FrameSent, SendDatagram,
                    NextPacket, ClientReads, ClientResets, vars, sending
    <2> QED BY <1>2, <1>9, <2>1
<1> QED BY <1>3, <1>4, <1>5, <1>6, <1>7, <1>8, <1>9, <1>10 DEF Next, Svc, Generator

LEMMA PlayStep ==
    TypeOK /\ Control /\ PlayBegun /\ AnswerBefore /\ [Next]_vars
        => PlayBegun' /\ AnswerBefore'
<1> SUFFICES ASSUME TypeOK, Control, PlayBegun, AnswerBefore, [Next]_vars
             PROVE  PlayBegun' /\ AnswerBefore'
    OBVIOUS
<1>1. /\ message \in [Threads -> Nat] /\ left \in [Threads -> Nat]
      /\ message["svc"] \in Nat /\ left["svc"] \in Nat /\ played \in Nat
      /\ wire \in Seq(Threads \X Nat) /\ Len(wire) \in Nat
    BY DEF TypeOK, Threads
<1>2. /\ played' <= message'["svc"]
      /\ played > 0 => played' = played
      /\ PlayDone => PlayDone'
      /\ unanswered => unanswered'
    BY PlayMonotonic
<1>3. PlayDone => played > 0
    BY DEF PlayDone
<1> USE DEF svcVars, genVars, streamer, history
(* The thread that plays the stream begins after the answer. *)
<1>4. /\ svc' = "send" /\ request'.method = "PLAY" => played' > 0
      /\ streamStarted' \/ gen' # "idle" => unanswered' \/ PlayDone'
    <2>6. ASSUME NEW r \in Requests, RecvRejected(r)
          PROVE  /\ svc' = "recv" /\ gen' = gen
                 /\ streamStarted' => streamStarted \/ unanswered'
        BY <2>6 DEF RecvRejected
    <2>1. ASSUME NEW r \in Requests, Recv(r)
          PROVE  /\ request'.method = "PLAY" => played' > 0
                 /\ streamStarted' = streamStarted /\ gen' = gen
        BY <1>1, <2>1 DEF Recv
    <2>2. CASE SetPort \/ SetTransport
        <3>1. request'.method = "SETUP" /\ streamStarted' = streamStarted /\ gen' = gen
            BY <2>2 DEF SetPort, SetTransport, Control
        <3> QED BY <3>1, <1>2 DEF PlayBegun
    <2>3. CASE Answered
        <3>1. request.method = "PLAY" => PlayDone
            BY <2>3 DEF Answered, PlayBegun, PlayDone
        <3>2. svc' # "send" /\ gen' = gen
              /\ (streamStarted' => streamStarted \/ request.method = "PLAY")
            BY <2>3 DEF Answered
        <3> QED BY <3>1, <3>2, <1>2 DEF PlayBegun
    <2>4. CASE StreamImage
        <3>1. streamStarted /\ svc' = svc /\ request' = request /\ played' = played
            BY <2>4 DEF StreamImage
        <3> QED BY <3>1, <1>2 DEF PlayBegun
    <2>5. CASE SendAnswer \/ ReadPort \/ TestTransport \/ SendFrame \/ FrameSent \/ SendDatagram
               \/ ClientReads \/ ClientResets \/ UNCHANGED vars
        <3>1. /\ svc' = svc /\ request' = request /\ played' = played
              /\ streamStarted' = streamStarted /\ (gen' # "idle" => gen # "idle")
            BY <2>5 DEF SendAnswer, ReadPort, TestTransport, SendFrame, FrameSent, SendDatagram,
                        NextPacket, ClientReads, ClientResets, vars
        <3> QED BY <3>1, <1>2 DEF PlayBegun
    <2> QED BY <2>1, <2>2, <2>3, <2>4, <2>5, <2>6, <1>2 DEF Next, Svc, Generator, PlayBegun
<1>5. CASE wire' = wire
    <2>1. ASSUME NEW k \in DOMAIN wire, wire[k][1] = "gen", ~unanswered'
          PROVE  PlayDone' /\ \A i \in Positions(<<"svc", played'>>) : i < k
        BY <2>1, <1>2, <1>3 DEF PlayBegun, AnswerBefore
    <2> QED BY <1>2, <1>4, <1>5, <2>1 DEF PlayBegun, AnswerBefore, Positions
<1>6. ASSUME NEW t \in Threads, SendBytes(t), t = "gen" => gen = "send"
      PROVE  PlayBegun' /\ AnswerBefore'
    <2>1. PICK size \in Nat : Put(t, size)
        BY <1>6, SentSize
    <2> DEFINE L == Len(wire)
               New == L + 1..L + size
    <2>2. /\ wire' \in Seq(Threads \X Nat) /\ Len(wire') = L + size
          /\ \A i \in 1..L : wire'[i] = wire[i]
          /\ \A i \in New : wire'[i] = <<t, message[t]>>
        BY <1>1, <2>1, PutBytes
    <2>3. /\ DOMAIN wire = 1..L /\ DOMAIN wire' = 1..L + size
          /\ \A i \in 1..L + size : i \in 1..L \/ i \in New
        BY <1>1, <2>2
    <2>4. ASSUME NEW k \in 1..L + size, wire'[k][1] = "gen"
          PROVE  (unanswered \/ PlayDone) /\ (k \in New => t = "gen")
        <3>1. CASE k \in 1..L
            <4>1. wire'[k] = wire[k]
                BY <3>1, <2>2
            <4>2. wire[k][1] = "gen"
                BY <4>1, <2>4
            <4>3. k \notin New
                BY <3>1, <1>1
            <4> QED BY <3>1, <4>2, <4>3, <2>3 DEF PlayBegun
        <3>2. CASE k \in New
            BY <3>2, <2>2, <2>4, <1>6 DEF PlayBegun
        <3> QED BY <3>1, <3>2, <2>3
    <2>5. ASSUME ~unanswered, NEW k \in 1..L + size, wire'[k][1] = "gen",
                 NEW i \in 1..L + size, wire'[i] = <<"svc", played>>
          PROVE  i < k
        <3>1. i \in 1..L
            <4> SUFFICES ASSUME i \in New PROVE FALSE
                BY <2>3
            <4>1. t = "svc" /\ message["svc"] = played
                BY <2>2, <2>5
            <4>2. left["svc"] > 0
                BY <4>1, <1>6 DEF SendBytes
            <4> QED BY <4>1, <4>2, <2>4, <2>5, <1>1 DEF PlayDone
        <3>2. CASE k \in 1..L
            BY <3>1, <3>2, <2>2, <2>3, <2>5 DEF AnswerBefore, Positions
        <3>3. CASE k \in New
            BY <3>1, <3>3, <1>1
        <3> QED BY <3>2, <3>3, <2>3
    <2>6. PlayBegun'
        BY <1>2, <1>4, <2>3, <2>4 DEF PlayBegun
    <2>7. AnswerBefore'
        <3> SUFFICES ASSUME ~unanswered', NEW k \in 1..L + size, wire'[k][1] = "gen",
                            NEW i \in 1..L + size, wire'[i] = <<"svc", played'>>
                     PROVE  i < k
            BY <2>3 DEF AnswerBefore, Positions
        <3>1. played' = played /\ ~unanswered
            BY <2>4, <1>2, <1>3
        <3> QED BY <3>1, <2>5
    <2> QED BY <2>6, <2>7
<1>7. wire' = wire \/ \E t \in Threads : SendBytes(t) /\ (t = "gen" => gen = "send")
    <2>1. CASE SendAnswer \/ SendFrame
        BY <2>1 DEF SendAnswer, SendFrame, SendFails, Threads
    <2>2. ASSUME NEW r \in Requests, Recv(r) \/ RecvRejected(r) PROVE wire' = wire
        BY <2>2 DEF Recv, RecvRejected, BeginMessage, sending
    <2>3. CASE \/ SetPort \/ SetTransport \/ Answered \/ StreamImage \/ ReadPort
               \/ TestTransport \/ FrameSent \/ SendDatagram
               \/ ClientReads \/ ClientResets \/ UNCHANGED vars
        BY <2>3 DEF SetPort, SetTransport, Answered, StreamImage, ReadPort, TestTransport,
                    FrameSent, SendDatagram, ClientReads, ClientResets, vars, sending, BeginMessage
    <2> QED BY <2>1, <2>2, <2>3 DEF Next, Svc, Generator
<1> QED BY <1>5, <1>6, <1>7

LEMMA PlayFirst ==
    ASSUME TypeOK, MessagesComplete, PlayBegun, AnswerBefore
    PROVE  PlayAnsweredFirst
<1>1. ASSUME NEW k \in DOMAIN wire, wire[k][1] = "gen", ~reset, ~unanswered
      PROVE  Cardinality(Positions(<<"svc", played>>)) = AnswerSize
    <2>1. /\ played > 0 /\ played <= message["svc"] /\ played \in Nat /\ message["svc"] \in Nat
          /\ played = message["svc"] => left["svc"] = 0
        BY <1>1 DEF PlayBegun, PlayDone, TypeOK, Threads
    <2>2. played \in 1..message["svc"] /\ "svc" \in Threads
        BY <2>1 DEF Threads
    <2>3. Cardinality(Positions(<<"svc", played>>))
              = Size("svc") - (IF played = message["svc"] THEN left["svc"] ELSE 0)
        BY <1>1, <2>2 DEF MessagesComplete
    <2>4. Size("svc") \in Nat /\ Size("svc") = AnswerSize
        BY <2>2, SizeType DEF Size
    <2> QED BY <2>1, <2>3, <2>4
<1> QED BY <1>1 DEF PlayAnsweredFirst, PlayBegun, PlayDone, AnswerBefore

------------------------------------------------------------------------------
(***************************************************************************)
(* SETUP on a stream that plays.                                           *)
(***************************************************************************)
LEMMA LateStep == TypeOK /\ LateBounded /\ [Next]_vars => LateBounded'
<1> SUFFICES ASSUME TypeOK, LateBounded, [Next]_vars PROVE LateBounded'
    OBVIOUS
<1>1. late \in Nat /\ setups \in Nat /\ m_TCPTransport \in BOOLEAN
    BY DEF TypeOK
<1> USE <1>1 DEF LateBounded, Stale, svcVars, genVars, streamer, history
<1>2. ASSUME NEW r \in Requests, Recv(r) \/ RecvRejected(r) PROVE LateBounded'
    BY <1>2 DEF Recv, RecvRejected
<1>3. CASE SetPort
    BY <1>3 DEF SetPort
<1>4. CASE SetTransport
    BY <1>4 DEF SetTransport
<1>5. CASE SendAnswer
    BY <1>5 DEF SendAnswer
<1>6. CASE Answered
    BY <1>6 DEF Answered
<1>7. CASE StreamImage
    BY <1>7 DEF StreamImage
<1>8. CASE ReadPort
    BY <1>8 DEF ReadPort
<1>9. CASE TestTransport
    BY <1>9 DEF TestTransport
<1>10. CASE SendFrame
    BY <1>10 DEF SendFrame
<1>11. CASE FrameSent
    BY <1>11 DEF FrameSent, NextPacket
<1>12. CASE SendDatagram
    BY <1>12 DEF SendDatagram, NextPacket
<1>13. CASE ClientReads
    BY <1>13 DEF ClientReads
<1>14. CASE ClientResets
    BY <1>14 DEF ClientResets
<1>15. CASE UNCHANGED vars
    BY <1>15 DEF vars
<1> QED BY <1>2, <1>3, <1>4, <1>5, <1>6, <1>7, <1>8, <1>9, <1>10, <1>11, <1>12, <1>13,
           <1>14, <1>15 DEF Next, Svc, Generator

------------------------------------------------------------------------------
(***************************************************************************)
(* The theorems.                                                           *)
(***************************************************************************)
Inv == TypeOK /\ Control /\ Bytes /\ PlayBegun /\ AnswerBefore /\ LateBounded

LEMMA InitInv == Init => Inv
<1> SUFFICES ASSUME Init PROVE Inv
    OBVIOUS
<1>1. TypeOK
    <2>1. /\ wire \in Seq(Threads \X Nat) /\ taken \in 0..Len(wire) /\ full \subseteq 1..Len(wire)
          /\ message \in [Threads -> Nat] /\ left \in [Threads -> Nat]
        BY DEF Init
    <2>2. request \in Requests
        BY DEF Init, Requests
    <2>3. requests \in 0..MaxRequests /\ packets \in 0..ImagePackets /\ images \in 0..MaxImages
        BY SizesAssumption, BoundsAssumption DEF Init
    <2> QED BY <2>1, <2>2, <2>3 DEF Init, TypeOK
<1>2. Control /\ LateBounded
    BY DEF Init, Control, LateBounded, Stale, Threads
<1>3. wire = <<>> /\ DOMAIN wire = {} /\ (\A t \in Threads : message[t] = 0 /\ left[t] = 0)
    BY DEF Init
<1>4. Bytes
    BY <1>3 DEF Bytes, Numbered, CutWhereFull, TornOnlyWhenFull, MessagesComplete
<1>5. PlayBegun /\ AnswerBefore
    BY <1>3 DEF Init, PlayBegun, AnswerBefore, Threads
<1> QED BY <1>1, <1>2, <1>4, <1>5 DEF Inv

LEMMA InvStep == Inv /\ [Next]_vars => Inv'
BY TypeStep, BytesStep, PlayStep, LateStep DEF Inv

LEMMA Invariance == Spec => []Inv
BY InitInv, InvStep, PTL DEF Spec

(* The variables keep their types: no thread sends bytes, packets or       *)
(* images that it does not have.                                           *)
THEOREM TypeCorrect == Spec => []TypeOK
<1>1. Inv => TypeOK
    BY DEF Inv
<1> QED BY <1>1, Invariance, PTL

(* Every answer and every interleaved packet that was begun arrives whole, *)
(* in pieces of any size, or the connection is lost.                       *)
THEOREM MessagesCorrect == Spec => []MessagesComplete
<1>1. Inv => MessagesComplete
    BY DEF Inv, Bytes
<1> QED BY <1>1, Invariance, PTL

(* The two threads send without a lock, and yet a message of one is torn   *)
(* by the other only where the socket buffer was full.                     *)
THEOREM TornCorrect == Spec => []TornOnlyWhenFull
<1>1. Inv => TornOnlyWhenFull
    BY DEF Inv, Bytes
<1> QED BY <1>1, Invariance, PTL

(* The first interleaved packet comes after the whole answer to PLAY,      *)
(* unless a PLAY that was rejected, and never answered, started the        *)
(* stream.                                                                 *)
THEOREM PlayCorrect == Spec => []PlayAnsweredFirst
<1>1. Inv => PlayAnsweredFirst
    BY PlayFirst DEF Inv, Bytes
<1> QED BY <1>1, Invariance, PTL

(* However often the client changes the transport of a stream that plays,  *)
(* at most one packet for each change leaves by another one than is set.   *)
THEOREM SwitchCorrect == Spec => []SwitchIsPrompt
<1>1. Inv => SwitchIsPrompt
    BY DEF Inv, LateBounded, SwitchIsPrompt
<1> QED BY <1>1, Invariance, PTL

(* Whose turn it is to send, and what a step does to a message that is     *)
(* being sent.                                                             *)
AtSend(t) == IF t = "svc" THEN svc = "send" ELSE gen = "send"

SendGoesOn(t) ==
    left[t] > 0 =>
        /\ AtSend(t)
        /\ taken = Len(wire) => reset \/ Room > 0
        /\ message'[t] = message[t] /\ left'[t] \in 0..left[t]
        /\ SendBytes(t) \/ SendFails(t) => left'[t] < left[t]

(* As long as bytes of a message are left, its thread is in send_n with    *)
(* it: no other message takes its place, no step of the other thread or of *)
(* the client adds to what is left, each call of send() takes something    *)
(* off it, and one can be made when the client has read all bytes.  This   *)
(* is what SendsEnd needs beside fairness.                                 *)
THEOREM SendProgress == Spec => [][\A t \in Threads : SendGoesOn(t)]_vars
<1>1. ASSUME Inv, Next, NEW t \in Threads PROVE SendGoesOn(t)
    <2> SUFFICES ASSUME left[t] > 0 PROVE SendGoesOn(t)
        BY DEF SendGoesOn
    <2> TypeOK /\ Control
        BY <1>1 DEF Inv
    <2>1. /\ left \in [Threads -> Nat] /\ message \in [Threads -> Nat]
          /\ left[t] \in Nat /\ Len(wire) \in Nat
        <3>1. left \in [Threads -> Nat] /\ wire \in Seq(Threads \X Nat)
            BY DEF TypeOK
        <3>2. left[t] \in Nat /\ Len(wire) \in Nat
            BY <3>1
        <3> QED BY <3>1, <3>2 DEF TypeOK
    <2>2. AtSend(t)
        BY <2>1 DEF Control, AtSend, Threads
    <2>3. taken = Len(wire) => Room > 0
        BY <2>1, SizesAssumption DEF Room
    <2>4. ASSUME SendBytes(t) PROVE message' = message /\ left'[t] < left[t] /\ left'[t] \in Nat
        <3>1. PICK size \in Nat : /\ size > 0 /\ size <= left[t]
                                  /\ left' = [left EXCEPT ![t] = @ - size] /\ message' = message
            BY <2>1, <2>4, SentSize
        <3>2. left'[t] = left[t] - size
            BY <2>1, <3>1
        <3> QED BY ONLY <2>1, <3>1, <3>2
    <2>5. ASSUME SendFails(t) PROVE message' = message /\ left'[t] = 0
        BY <2>1, <2>5 DEF SendFails
    <2>6. ASSUME NEW u \in Threads, u # t, Begins(u) \/ SendBytes(u) \/ SendFails(u)
          PROVE  message'[t] = message[t] /\ left'[t] = left[t]
        <3>1. CASE Begins(u)
            BY <2>1, <2>6, <3>1 DEF Begins, BeginMessage
        <3>2. CASE SendBytes(u)
            BY <2>1, <2>6, <3>2, SentSize
        <3>3. CASE SendFails(u)
            BY <2>1, <2>6, <3>3 DEF SendFails
        <3> QED BY <2>6, <3>1, <3>2, <3>3
    <2>7. ~Begins(t)
        BY <2>1 DEF Begins
    <2>8. ASSUME Same PROVE message'[t] = message[t] /\ left'[t] = left[t]
        BY <2>8 DEF Same, sending
    <2>9. message'[t] = message[t] /\ (left'[t] = left[t] \/ left'[t] = 0 \/ left'[t] < left[t])
          /\ left'[t] \in Nat
        <3>1. Same \/ \E u \in Threads : Begins(u) \/ SendBytes(u) \/ SendFails(u)
            BY <1>1, SendingStep
        <3>2. CASE Same
            BY <2>1, <2>8, <3>2
        <3>3. ASSUME NEW u \in Threads, Begins(u) \/ SendBytes(u) \/ SendFails(u), u # t
              PROVE  message'[t] = message[t] /\ left'[t] = left[t]
            BY <2>6, <3>3
        <3>4. CASE SendBytes(t)
            BY <2>4, <3>4
        <3>5. CASE SendFails(t)
            BY <2>5, <3>5
        <3> QED BY <2>1, <2>7, <3>1, <3>2, <3>3, <3>4, <3>5
    <2>10. left'[t] \in 0..left[t]
        BY <2>1, <2>9
    <2> QED BY <2>1, <2>2, <2>3, <2>4, <2>5, <2>9, <2>10 DEF SendGoesOn
<1>2. Inv /\ [Next]_vars => [\A t \in Threads : SendGoesOn(t)]_vars
    BY <1>1
<1> QED BY <1>2, Invariance, PTL DEF Spec

==============================================================================
