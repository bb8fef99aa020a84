------------------------- MODULE RtpPacketizerProofs -------------------------
(***************************************************************************)
(* Proofs about RtpPacketizer for images, packets and headers of any size. *)
(*                                                                         *)
(* The argument: the bytes from the next payload on are still those of the *)
(* image (ScanInv), because headers are only written before it; and the    *)
(* last packet of the wire ends where the next begins (WireInv).           *)
(***************************************************************************)
EXTENDS RtpPacketizer, TLAPS

End(p) == p.offset + Len(p.payload)

Last == wire[Len(wire)]

ScanInv ==
    /\ JpegLen < OffsetModulus
    /\ len = JpegLen - offset
    /\ pc = "idle" => len <= 0
    /\ \A i \in (start + offset)..(start + JpegLen - 1) : i \in DOMAIN data /\ data[i] = i

WireInv ==
    /\ wire = <<>> => offset = 0
    /\ wire # <<>> => /\ End(Last) = (IF len > 0 THEN offset ELSE JpegLen)
                      /\ Last.marker <=> len <= 0

Inv ==
    /\ TypeOK /\ ScanInv /\ WireInv
    /\ PayloadIntact /\ FragmentsTile /\ NumbersIdentify

LEMMA InvInit == Init => Inv
  BY ModulusAssumption
  DEF Init, Inv, TypeOK, ScanInv, WireInv, PayloadIntact, FragmentsTile, NumbersIdentify

------------------------------------------------------------------------------
(* Counters of a fixed width. *)
LEMMA ModSmall ==
  ASSUME NEW m \in Nat \ {0}, NEW x \in 0..(m - 1)
  PROVE  x % m = x
  OBVIOUS

LEMMA ModDiffers ==
  ASSUME NEW m \in Nat \ {0}, NEW x \in 0..(m - 1), NEW d \in 1..(m - 1)
  PROVE  (x + d) % m # x
  OBVIOUS

------------------------------------------------------------------------------
(* What a step of SendRtpPacket does to everything but the wire. *)
LEMMA SendFacts ==
  ASSUME SendRtpPacket
  PROVE  /\ pc = "send" /\ pc' = pc /\ start' = start /\ JpegLen' = JpegLen
         /\ len > 0 /\ len' = len - MaxPayload /\ offset' = offset + MaxPayload
         /\ data' = WithHeaders(start + offset)
         /\ m_SequenceNumber' = (m_SequenceNumber + 1) % SeqModulus
         /\ m_Timestamp' = IF len <= MaxPayload THEN (m_Timestamp + TimeStep) % TimeModulus
                           ELSE m_Timestamp
  BY DEF SendRtpPacket, NextSequenceNumber, NextTimestamp, IsLastPacket

LEMMA HeadersMiss ==
  ASSUME NEW at, NEW x \in DOMAIN data, x \notin (at - HeaderSize)..(at - 1)
  PROVE  x \in DOMAIN WithHeaders(at) /\ WithHeaders(at)[x] = data[x]
  BY DEF WithHeaders

(* The bytes from the payload on survive the headers. *)
LEMMA ScanKept ==
  ASSUME Inv, SendRtpPacket, NEW x \in (start + offset)..(start + JpegLen - 1)
  PROVE  x \in DOMAIN data' /\ data'[x] = x
  <1>1. x \in DOMAIN data /\ data[x] = x
    BY DEF Inv, ScanInv
  <1> DEFINE at == start + offset
  <1>2. x \notin (at - HeaderSize)..(at - 1)
    BY HeaderAssumption DEF Inv, TypeOK
  <1>3. data' = WithHeaders(at)
    BY SendFacts
  <1> HIDE DEF at
  <1> QED BY <1>1, <1>2, <1>3, HeadersMiss

(* The packet that a step of SendRtpPacket puts on the wire. *)
NewPacket == Packet(start + offset, Least(len, MaxPayload), len <= MaxPayload)

LEMMA NewPayload ==
  ASSUME Inv, SendRtpPacket
  PROVE  /\ Least(len, MaxPayload) \in 1..len
         /\ Least(len, MaxPayload) \in 1..MaxPayload
         /\ NewPacket.payload \in Seq(Int)
         /\ Len(NewPacket.payload) = Least(len, MaxPayload)
         /\ \A i \in 1..Least(len, MaxPayload) : NewPacket.payload[i] = start + offset + i - 1
  <1> DEFINE size == Least(len, MaxPayload)
  <1>1. size \in 1..len /\ size \in 1..MaxPayload
    BY MaxPayloadAssumption DEF Inv, TypeOK, SendRtpPacket, Least
  <1>2. NewPacket.payload = [i \in 1..size |-> data'[start + offset + i - 1]]
    BY DEF NewPacket, Packet
  <1>3. ASSUME NEW i \in 1..size
        PROVE  data'[start + offset + i - 1] = start + offset + i - 1
    <2>1. start + offset + i - 1 \in (start + offset)..(start + JpegLen - 1)
      BY <1>1, MaxPayloadAssumption DEF Inv, TypeOK, ScanInv
    <2> QED BY <2>1, ScanKept
  <1>4. \A i \in 1..size : start + offset + i - 1 \in Int
    BY DEF Inv, TypeOK
  <1> HIDE DEF size
  <1>5. [i \in 1..size |-> data'[start + offset + i - 1]] \in Seq(Int)
    BY <1>1, <1>3, <1>4
  <1>6. Len([i \in 1..size |-> data'[start + offset + i - 1]]) = size
    BY <1>1, <1>5 DEF Inv, TypeOK
  <1> QED BY <1>1, <1>2, <1>3, <1>5, <1>6 DEF size

LEMMA PacketType ==
  ASSUME NEW a \in 0..(SeqModulus - 1), NEW b \in 0..(TimeModulus - 1), NEW c \in BOOLEAN,
         NEW d \in 0..(OffsetModulus - 1), NEW e \in 0..(LengthModulus - 1), NEW f \in Seq(Int)
  PROVE  [seq |-> a, time |-> b, marker |-> c, offset |-> d, length |-> e, payload |-> f]
           \in Packets
  BY DEF Packets

LEMMA NewFields ==
  ASSUME Inv, SendRtpPacket
  PROVE  /\ NewPacket.seq = m_SequenceNumber
         /\ NewPacket.time = m_Timestamp
         /\ NewPacket.marker <=> len <= MaxPayload
         /\ NewPacket.offset = offset
         /\ NewPacket.length = Least(len, MaxPayload) + HeaderSize - FrameHeader
         /\ NewPacket \in Packets
  <1>1. offset \in 0..(OffsetModulus - 1) /\ offset % OffsetModulus = offset
    <2>1. offset \in 0..(OffsetModulus - 1)
      BY SendFacts, ModulusAssumption DEF Inv, TypeOK, ScanInv
    <2> QED BY <2>1, ModSmall, ModulusAssumption
  <1>2. Least(len, MaxPayload) \in 1..MaxPayload
    BY NewPayload
  <1> DEFINE length == Least(len, MaxPayload) + HeaderSize - FrameHeader
  <1>3. length \in 0..(LengthModulus - 1)
    BY <1>2, MaxPayloadAssumption, HeaderAssumption, ModulusAssumption
  <1>4. length % LengthModulus = length
    BY <1>3, ModSmall, ModulusAssumption
  <1>5. m_SequenceNumber \in 0..(SeqModulus - 1) /\ m_Timestamp \in 0..(TimeModulus - 1)
    BY DEF Inv, TypeOK
  <1>6. NewPacket.payload \in Seq(Int)
    BY NewPayload
  <1>7. (len <= MaxPayload) \in BOOLEAN
    OBVIOUS
  <1>8. NewPacket = [seq |-> m_SequenceNumber, time |-> m_Timestamp,
                     marker |-> len <= MaxPayload, offset |-> offset,
                     length |-> length, payload |-> NewPacket.payload]
    BY <1>1, <1>4 DEF NewPacket, Packet
  <1> HIDE DEF length
  <1>9. NewPacket \in Packets
    BY <1>1, <1>3, <1>5, <1>6, <1>7, <1>8, PacketType
  <1>10. NewPacket.marker <=> len <= MaxPayload
    BY DEF NewPacket, Packet
  <1>11. /\ NewPacket.seq = m_SequenceNumber /\ NewPacket.time = m_Timestamp
         /\ NewPacket.offset = offset /\ NewPacket.length = length
    BY <1>8
  <1> QED BY <1>9, <1>10, <1>11 DEF length

LEMMA Appended ==
  ASSUME Inv, SendRtpPacket
  PROVE  /\ wire' = Append(wire, NewPacket)
         /\ wire' \in Seq(Packets) /\ Len(wire') = Len(wire) + 1
         /\ wire'[Len(wire')] = NewPacket
         /\ \A j \in 1..Len(wire) : wire'[j] = wire[j]
  <1>1. wire' = Append(wire, NewPacket)
    BY DEF SendRtpPacket, IsLastPacket, NewPacket
  <1>2. wire \in Seq(Packets) /\ NewPacket \in Packets
    BY NewFields DEF Inv, TypeOK
  <1> QED BY <1>1, <1>2

------------------------------------------------------------------------------
LEMMA SendStep == Inv /\ SendRtpPacket => Inv'
  <1> SUFFICES ASSUME Inv, SendRtpPacket PROVE Inv'
    OBVIOUS
  <1> DEFINE new == NewPacket
             n == Len(wire)
  <1>1. /\ wire' \in Seq(Packets) /\ Len(wire') = n + 1 /\ wire' # <<>>
        /\ wire'[n + 1] = new
        /\ \A j \in 1..n : wire'[j] = wire[j]
        /\ n \in Nat
    BY Appended DEF Inv, TypeOK
  <1>2. /\ new.seq = m_SequenceNumber /\ new.time = m_Timestamp
        /\ new.offset = offset
        /\ new.marker <=> len <= MaxPayload
        /\ new.length = Len(new.payload) + HeaderSize - FrameHeader
    BY NewFields, NewPayload
  <1>3. /\ Len(new.payload) = Least(len, MaxPayload)
        /\ Len(new.payload) \in 1..len
        /\ \A i \in 1..Len(new.payload) : new.payload[i] = start + offset + i - 1
    BY NewPayload
  <1>4. DOMAIN new.payload = 1..Len(new.payload)
    BY NewPayload
  <1>5. TypeOK'
    <2>1. /\ offset' \in Nat /\ len' \in Int
      BY MaxPayloadAssumption DEF Inv, TypeOK, SendRtpPacket
    <2>2. m_SequenceNumber' \in 0..(SeqModulus - 1) /\ m_Timestamp' \in 0..(TimeModulus - 1)
      BY ModulusAssumption, TimeStepAssumption DEF Inv, TypeOK, SendRtpPacket, NextSequenceNumber, NextTimestamp
    <2> QED BY <1>1, <2>1, <2>2 DEF Inv, TypeOK, SendRtpPacket
  <1>6. ScanInv'
    <2>1. len' = JpegLen' - offset' /\ JpegLen' < OffsetModulus /\ pc' # "idle"
      BY MaxPayloadAssumption DEF Inv, TypeOK, ScanInv, SendRtpPacket
    <2>2. ASSUME NEW i \in (start' + offset')..(start' + JpegLen' - 1)
          PROVE  i \in DOMAIN data' /\ data'[i] = i
      <3>1. i \in (start + offset)..(start + JpegLen - 1)
        BY SendFacts, MaxPayloadAssumption DEF Inv, TypeOK
      <3> QED BY <3>1, ScanKept
    <2> QED BY <2>1, <2>2 DEF ScanInv
  <1>7. End(new) = (IF len' > 0 THEN offset' ELSE JpegLen) /\ (new.marker <=> len' <= 0)
    <2>1. len' = len - MaxPayload /\ offset' = offset + MaxPayload
      BY SendFacts
    <2>2. /\ len \in Int /\ offset \in Nat /\ JpegLen \in Nat /\ len = JpegLen - offset
          /\ MaxPayload \in Nat
      BY MaxPayloadAssumption DEF Inv, TypeOK, ScanInv
    <2>3. End(new) = offset + Least(len, MaxPayload)
      BY <1>2, <1>3 DEF End
    <2>4. CASE len <= MaxPayload
      BY <1>2, <2>1, <2>2, <2>3, <2>4 DEF Least
    <2>5. CASE ~(len <= MaxPayload)
      BY <1>2, <2>1, <2>2, <2>3, <2>5 DEF Least
    <2> QED BY <2>4, <2>5
  <1>8. WireInv'
    BY <1>1, <1>7 DEF WireInv, Last, End, SendRtpPacket
  <1>9. PayloadIntact'
    <2> SUFFICES ASSUME NEW j \in 1..(n + 1)
                 PROVE  /\ \A i \in DOMAIN wire'[j].payload :
                             wire'[j].payload[i] = start + wire'[j].offset + i - 1
                        /\ wire'[j].length = Len(wire'[j].payload) + HeaderSize - FrameHeader
      BY <1>1 DEF PayloadIntact, SendRtpPacket
    <2>1. CASE j = n + 1
      BY <1>1, <1>2, <1>3, <1>4, <2>1
    <2>2. CASE j \in 1..n
      BY <1>1, <2>2 DEF Inv, TypeOK, PayloadIntact
    <2> QED BY <1>1, <2>1, <2>2
  <1>10. FragmentsTile'
    <2>1. ASSUME NEW j \in 1..(n + 1)
          PROVE  /\ Len(wire'[j].payload) > 0
                 /\ wire'[j].marker <=> End(wire'[j]) = JpegLen
                 /\ IF j = n + 1 THEN End(wire'[j]) <= JpegLen
                                 ELSE wire'[j + 1].offset = End(wire'[j])
      <3>1. CASE j = n + 1
        <4>1. End(new) <= JpegLen /\ (new.marker <=> End(new) = JpegLen)
          <5>1. /\ len \in Int /\ offset \in Nat /\ JpegLen \in Nat /\ len = JpegLen - offset
                /\ MaxPayload \in Nat
            BY MaxPayloadAssumption DEF Inv, TypeOK, ScanInv
          <5>2. End(new) = offset + Least(len, MaxPayload)
            BY <1>2, <1>3 DEF End
          <5> QED BY <1>2, <5>1, <5>2 DEF Least
        <4> QED BY <1>1, <1>3, <3>1, <4>1
      <3>2. CASE j = n
        <4>1. n > 0 /\ wire # <<>> /\ End(wire[n]) = offset
          BY <1>1, <3>2 DEF Inv, TypeOK, WireInv, Last, SendRtpPacket
        <4>2. Len(wire[n].payload) > 0 /\ (wire[n].marker <=> End(wire[n]) = JpegLen)
          BY <1>1, <4>1 DEF Inv, TypeOK, FragmentsTile, End
        <4> QED BY <1>1, <1>2, <3>2, <4>1, <4>2
      <3>3. CASE j < n
        <4>1. j \in 1..n /\ j + 1 \in 1..n
          BY <1>1, <3>3
        <4>2. /\ Len(wire[j].payload) > 0
              /\ wire[j].marker <=> End(wire[j]) = JpegLen
              /\ wire[j + 1].offset = End(wire[j])
          BY <3>3, <4>1 DEF Inv, TypeOK, FragmentsTile, End
        <4> QED BY <1>1, <3>3, <4>1, <4>2
      <3> QED BY <1>1, <3>1, <3>2, <3>3
    <2>2. wire'[1].offset = 0
      <3>1. CASE n = 0
        <4>1. offset = 0 BY <1>1, <3>1 DEF Inv, TypeOK, WireInv
        <4> QED BY <1>1, <1>2, <3>1, <4>1
      <3>2. CASE n > 0
        <4>1. wire[1].offset = 0 BY <1>1, <3>2 DEF Inv, TypeOK, FragmentsTile
        <4> QED BY <1>1, <3>2, <4>1
      <3> QED BY <1>1, <3>1, <3>2
    <2> QED BY <1>1, <2>1, <2>2 DEF FragmentsTile, End, SendRtpPacket
  <1>11. NumbersIdentify'
    <2>1. n > 0 => ~wire[n].marker /\ wire[1].time = m_Timestamp
                   /\ m_SequenceNumber = (wire[n].seq + 1) % SeqModulus
      BY <1>1 DEF Inv, TypeOK, WireInv, Last, NumbersIdentify, SendRtpPacket
    <2>2. wire'[1].time = m_Timestamp
      BY <1>1, <1>2, <2>1
    <2>3. new.marker <=> m_Timestamp' # m_Timestamp
      <3>1. (m_Timestamp + TimeStep) % TimeModulus # m_Timestamp
        BY ModDiffers, ModulusAssumption, TimeStepAssumption DEF Inv, TypeOK
      <3> QED BY <1>2, <3>1, SendFacts
    <2>4. ASSUME NEW j \in 1..(n + 1)
          PROVE  wire'[j].time = m_Timestamp
      <3>1. CASE j = n + 1
        BY <1>1, <1>2, <3>1
      <3>2. CASE j \in 1..n
        <4>1. n > 0 /\ wire[j].time = wire[1].time
          BY <1>1, <3>2 DEF Inv, TypeOK, NumbersIdentify
        <4> QED BY <1>1, <2>1, <3>2, <4>1
      <3> QED BY <1>1, <3>1, <3>2
    <2>5. ASSUME NEW j \in 1..(n + 1)
          PROVE  (IF j = n + 1 THEN m_SequenceNumber' ELSE wire'[j + 1].seq)
                    = (wire'[j].seq + 1) % SeqModulus
      <3>1. CASE j = n + 1
        BY <1>1, <1>2, <3>1 DEF SendRtpPacket, NextSequenceNumber
      <3>2. CASE j = n
        BY <1>1, <1>2, <2>1, <3>2
      <3>3. CASE j < n
        BY <1>1, <3>3 DEF Inv, TypeOK, NumbersIdentify
      <3> QED BY <1>1, <3>1, <3>2, <3>3
    <2> QED BY <1>1, <2>2, <2>3, <2>4, <2>5 DEF NumbersIdentify
  <1> QED BY <1>5, <1>6, <1>8, <1>9, <1>10, <1>11 DEF Inv

LEMMA InvStep == Inv /\ [Next]_vars => Inv'
  <1> SUFFICES ASSUME Inv, [Next]_vars PROVE Inv'
    OBVIOUS
  <1> USE DEF Inv, TypeOK, ScanInv, WireInv, PayloadIntact, FragmentsTile, NumbersIdentify,
              vars, image, loop, numbers
  <1>1. ASSUME NEW k \in Starts, NEW m \in Lengths, StreamImage(k, m) PROVE Inv'
    <2>1. k \in Nat /\ m \in 0..(OffsetModulus - 1)
      BY StartsAssumption, LengthsAssumption
    <2>2. /\ pc' = "send" /\ start' = k /\ JpegLen' = m /\ offset' = 0 /\ len' = m /\ wire' = <<>>
          /\ data' = [i \in 0..(k + m - 1) |-> i] /\ UNCHANGED numbers
      BY <1>1 DEF StreamImage
    <2>3. TypeOK' BY <2>1, <2>2
    <2>4. ScanInv'
      <3>1. \A i \in (k + 0)..(k + m - 1) : i \in DOMAIN data' /\ data'[i] = i
        BY <2>1, <2>2
      <3>2. \A i \in (start' + offset')..(start' + JpegLen' - 1) : i \in DOMAIN data' /\ data'[i] = i
        BY <2>2, <3>1
      <3>3. JpegLen' < OffsetModulus /\ len' = JpegLen' - offset' /\ pc' # "idle"
        BY <2>1, <2>2, ModulusAssumption
      <3> QED BY ONLY <3>2, <3>3 DEF ScanInv
    <2>5. WireInv' /\ PayloadIntact' /\ FragmentsTile' /\ NumbersIdentify'
      BY <2>2
    <2> QED BY <2>3, <2>4, <2>5
  <1>2. CASE SendRtpPacket
    BY <1>2, SendStep
  <1>3. CASE Done
    <2>1. len <= 0 BY <1>3 DEF Done
    <2>2. FragmentsTile'
      BY <1>3, <2>1 DEF Done, Last, End
    <2> QED BY <1>3, <2>1, <2>2 DEF Done, Last, End
  <1>4. CASE UNCHANGED vars
    BY <1>4 DEF Last, End
  <1> QED BY <1>1, <1>2, <1>3, <1>4 DEF Next

THEOREM InvCorrect == Spec => []Inv
  <1> QED BY InvInit, InvStep, PTL DEF Spec

(* THEOREM: the variables keep their types: the sequence number and the    *)
(* timestamp stay within their width, and so does every packet.            *)
THEOREM TypeCorrect == Spec => []TypeOK
  <1>1. Inv => TypeOK BY DEF Inv
  <1> QED BY <1>1, InvCorrect, PTL

(* THEOREM: no header overwrites a byte that is still to be sent. *)
THEOREM PayloadCorrect == Spec => []PayloadIntact
  <1>1. Inv => PayloadIntact BY DEF Inv
  <1> QED BY <1>1, InvCorrect, PTL

(* THEOREM: the packets of an image tile it, and only the last is marked. *)
THEOREM TileCorrect == Spec => []FragmentsTile
  <1>1. Inv => FragmentsTile BY DEF Inv
  <1> QED BY <1>1, InvCorrect, PTL

(* THEOREM: timestamps tell images apart, sequence numbers follow on. *)
THEOREM NumbersCorrect == Spec => []NumbersIdentify
  <1>1. Inv => NumbersIdentify BY DEF Inv
  <1> QED BY <1>1, InvCorrect, PTL

==============================================================================
