---------------------------- MODULE RtpPacketizer ----------------------------
(***************************************************************************)
(* CStreamer::SendRtpPacket: the scan data of a JPEG image leaves as RTP   *)
(* packets of at most MaxPayload bytes.  The headers of a packet are not   *)
(* built in a buffer of their own but written over the bytes that precede  *)
(* its payload: over the JPEG header for the first packet, over the        *)
(* payload of the packet before it for the others.                         *)
(*                                                                         *)
(* A byte of the image is represented by its index in the image, a byte    *)
(* that a header has overwritten by Header.  Fixed header fields are left  *)
(* out; of the others each keeps its width.                                *)
(***************************************************************************)
EXTENDS Integers, Sequences

CONSTANTS
    MaxPayload,      \* MAX_PAYLOAD_SIZE, 1436
    HeaderSize,      \* 4 + 12 + 8: interleaving, RTP and JPEG headers
    FrameHeader,     \* 4: the interleaving header, which its length omits
    SeqModulus,      \* 2^16, u_short m_SequenceNumber
    TimeModulus,     \* 2^32, DWORD m_Timestamp
    TimeStep,        \* 3600
    OffsetModulus,   \* 2^24, the fragment offset of the JPEG header
    LengthModulus,   \* 2^16, the length of the interleaving header
    Starts,          \* where scan data begin: what GetData returns
    Lengths          \* lengths of scan data

ASSUME MaxPayloadAssumption == MaxPayload \in Nat \ {0}
ASSUME HeaderAssumption ==
    HeaderSize \in Nat /\ FrameHeader \in Nat /\ FrameHeader <= HeaderSize
ASSUME ModulusAssumption ==
    /\ SeqModulus \in Nat \ {0} /\ TimeModulus \in Nat \ {0}
    /\ OffsetModulus \in Nat \ {0} /\ LengthModulus \in Nat \ {0}
    /\ MaxPayload + HeaderSize - FrameHeader < LengthModulus
ASSUME TimeStepAssumption == TimeStep \in 1..(TimeModulus - 1)
ASSUME LengthsAssumption == Lengths \subseteq 0..(OffsetModulus - 1)
(* assert(Jpeg - data >= 24); a JPEG header is longer than that. *)
ASSUME StartsAssumption == Starts \subseteq Nat /\ \A k \in Starts : k >= HeaderSize

VARIABLES
    pc,                \* "idle", or "send" in the loop over the fragments
    data,              \* the image buffer, CStreamer::data
    start,             \* where the scan data begin in it
    JpegLen,           \* how many of them there are
    offset,            \* loop variables of SendRtpPacket
    len,
    m_SequenceNumber,
    m_Timestamp,
    wire               \* packets of the image, as they were sent

image   == <<data, start, JpegLen>>
loop    == <<offset, len>>
numbers == <<m_SequenceNumber, m_Timestamp>>
vars    == <<pc, image, loop, numbers, wire>>

Header == -1

Least(a, b) == IF a <= b THEN a ELSE b

Init ==
    /\ pc = "idle"
    /\ data = <<>> /\ start = 0 /\ JpegLen = 0
    /\ offset = 0 /\ len = 0
    /\ m_SequenceNumber = 0 /\ m_Timestamp = 0
    /\ wire = <<>>

(* A new image is in the buffer; the loop is entered at its test. *)
StreamImage(k, n) ==
    /\ pc = "idle"
    /\ pc' = "send"
    /\ data' = [i \in 0..(k + n - 1) |-> i]
    /\ start' = k /\ JpegLen' = n
    /\ offset' = 0 /\ len' = n
    /\ wire' = <<>>
    /\ UNCHANGED numbers

(* Mutant: the headers are written from the payload on. *)
WithHeadersInPlace(at) ==
    [i \in DOMAIN data |-> IF i \in at..(at + HeaderSize - 1) THEN Header ELSE data[i]]

(* The headers go where the pointer RtpBuf = Jpeg - 24 says. *)
WithHeaders(at) ==
    [i \in DOMAIN data |-> IF i \in (at - HeaderSize)..(at - 1) THEN Header ELSE data[i]]

(* What leaves the socket: size bytes from the payload's address on. *)
Packet(at, size, last) ==
    [seq     |-> m_SequenceNumber,
     time    |-> m_Timestamp,
     marker  |-> last,
     offset  |-> offset % OffsetModulus,
     length  |-> (size + HeaderSize - FrameHeader) % LengthModulus,
     payload |-> [i \in 1..size |-> data'[at + i - 1]]]

(* Mutant: a last packet of full size is not taken for the last one. *)
IsLastPacketShort == len < MaxPayload

IsLastPacket == len <= MaxPayload

(* Mutant: the sequence number is not kept to its width. *)
NextSequenceNumberWide == m_SequenceNumber + 1

NextSequenceNumber == (m_SequenceNumber + 1) % SeqModulus

(* Mutant: every packet has a timestamp of its own. *)
NextTimestampEach == (m_Timestamp + TimeStep) % TimeModulus

NextTimestamp == IF IsLastPacket THEN (m_Timestamp + TimeStep) % TimeModulus ELSE m_Timestamp

SendRtpPacket ==
    /\ pc = "send" /\ len > 0
    /\ data' = WithHeaders(start + offset)
    /\ wire' = Append(wire, Packet(start + offset, Least(len, MaxPayload), IsLastPacket))
    /\ m_SequenceNumber' = NextSequenceNumber
    /\ m_Timestamp' = NextTimestamp
    /\ len' = len - MaxPayload
    /\ offset' = offset + MaxPayload
    /\ UNCHANGED <<pc, start, JpegLen>>

Done ==
    /\ pc = "send" /\ len <= 0
    /\ pc' = "idle"
    /\ UNCHANGED <<image, loop, numbers, wire>>

Next ==
    \/ \E k \in Starts, n \in Lengths : StreamImage(k, n)
    \/ SendRtpPacket
    \/ Done

Spec == Init /\ [][Next]_vars

------------------------------------------------------------------------------
(***************************************************************************)
(* Properties.                                                             *)
(***************************************************************************)

(* A packet on the wire; time and seq are compared, never used to count.   *)
Packets ==
    [seq : 0..(SeqModulus - 1), time : 0..(TimeModulus - 1), marker : BOOLEAN,
     offset : 0..(OffsetModulus - 1), length : 0..(LengthModulus - 1), payload : Seq(Int)]

TypeOK ==
    /\ pc \in {"idle", "send"}
    /\ start \in Nat /\ JpegLen \in Nat
    /\ offset \in Nat /\ len \in Int
    /\ m_SequenceNumber \in 0..(SeqModulus - 1)
    /\ m_Timestamp \in 0..(TimeModulus - 1)
    /\ wire \in Seq(Packets)

(* Every packet carries bytes of the image, those that its offset names:   *)
(* no header is ever written over a byte that is still to be sent.  The    *)
(* interleaving header of TCP counts the bytes that follow it.             *)
PayloadIntact ==
    \A j \in DOMAIN wire :
        /\ \A i \in DOMAIN wire[j].payload :
               wire[j].payload[i] = start + wire[j].offset + i - 1
        /\ wire[j].length = Len(wire[j].payload) + HeaderSize - FrameHeader

(* The packets tile the scan data: no gap, no overlap, none empty, and     *)
(* the marker bit is on the one that ends the image, which is sent before  *)
(* SendRtpPacket returns.                                                  *)
FragmentsTile ==
    /\ \A j \in DOMAIN wire :
          LET end == wire[j].offset + Len(wire[j].payload)
          IN  /\ Len(wire[j].payload) > 0
              /\ wire[j].marker <=> end = JpegLen
              /\ IF j = Len(wire) THEN end <= JpegLen ELSE wire[j + 1].offset = end
    /\ wire # <<>> => wire[1].offset = 0
    /\ pc = "idle" /\ JpegLen > 0 => wire # <<>> /\ wire[Len(wire)].marker

(* A receiver can tell the packets of one image from those of the next:    *)
(* they have one timestamp, which changes when the last of them is sent,   *)
(* and their sequence numbers, and those of the next image, follow on each *)
(* other across the wrap of the counters.                                  *)
NumbersIdentify ==
    \A j \in DOMAIN wire :
        LET next == IF j = Len(wire) THEN m_SequenceNumber ELSE wire[j + 1].seq
        IN  /\ wire[j].time = wire[1].time
            /\ next = (wire[j].seq + 1) % SeqModulus
            /\ wire[Len(wire)].marker <=> m_Timestamp # wire[j].time

==============================================================================
