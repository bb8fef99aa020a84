----------------------------- MODULE JpegHeader -----------------------------
(***************************************************************************)
(* CStreamer::GetPayLoad: the walk over the segments of a JPEG header to   *)
(* the scan data.  The walk reads the marker and the length of a segment   *)
(* before it tests whether they are in the image, and tests whether the    *)
(* segment is in the image before it goes on to the next.                  *)
(*                                                                         *)
(* The bytes are arbitrary: a step chooses what the marker and the length  *)
(* at the current position are.  Behind the image the buffer holds zeros,  *)
(* since write_JPEG_file clears it before it compresses an image into it.  *)
(***************************************************************************)
EXTENDS Integers, Sequences, FiniteSets

CONSTANTS
    DataLengths,  \* lengths of images
    SegLengths    \* what length fields may say

ASSUME DataLengthsAssumption == DataLengths \subseteq Nat
ASSUME SegLengthsAssumption == SegLengths \subseteq Nat /\ 0 \in SegLengths

VARIABLES
    pc,        \* what may come next, or the result of the walk
    data_len,
    buf,       \* position of the walk: buf - data
    read,      \* history: one more than the last index that was read
    segments   \* history: markers and lengths that were read

vars == <<pc, data_len, buf, read, segments>>

Kinds == {"SOI", "APP0", "DQT", "SOF", "DHT", "SOS", "other"}

Segments == [kind : Kinds, len : SegLengths]

Expecting == {"SOI", "APP0orDQT", "DQT", "DQTorSOF", "DHT", "DHTorSOS"}

TypeOK ==
    /\ pc \in Expecting \cup {"found", "failed"}
    /\ data_len \in DataLengths /\ buf \in 0..data_len /\ read \in Nat
    /\ segments \in Seq(Segments)

Init ==
    /\ pc = "SOI" /\ buf = 0 /\ read = 0 /\ segments = <<>>
    /\ data_len \in DataLengths

(* Mutant: a second APP0 is skipped too. *)
AfterManyAPP0(kind) ==
    CASE pc = "SOI" /\ kind = "SOI" -> "APP0orDQT"
      [] pc = "APP0orDQT" /\ kind = "APP0" -> "APP0orDQT"
      [] pc \in {"APP0orDQT", "DQT", "DQTorSOF"} /\ kind = "DQT" -> "DQTorSOF"
      [] pc = "DQTorSOF" /\ kind = "SOF" -> "DHT"
      [] pc \in {"DHT", "DHTorSOS"} /\ kind = "DHT" -> "DHTorSOS"
      [] pc = "DHTorSOS" /\ kind = "SOS" -> "found"
      [] OTHER -> "failed"

(* Mutant: the test of i after the loop over the DQT is left out. *)
AfterWithoutDQT(kind) ==
    CASE pc = "SOI" /\ kind = "SOI" -> "APP0orDQT"
      [] pc = "APP0orDQT" /\ kind = "APP0" -> "DQT"
      [] pc \in {"APP0orDQT", "DQT", "DQTorSOF"} /\ kind = "DQT" -> "DQTorSOF"
      [] pc \in {"APP0orDQT", "DQT", "DQTorSOF"} /\ kind = "SOF" -> "DHT"
      [] pc \in {"DHT", "DHTorSOS"} /\ kind = "DHT" -> "DHTorSOS"
      [] pc = "DHTorSOS" /\ kind = "SOS" -> "found"
      [] OTHER -> "failed"

(* The tests and loops of GetPayLoad, as the order of markers they allow.  *)
After(kind) ==
    CASE pc = "SOI" /\ kind = "SOI" -> "APP0orDQT"
      [] pc = "APP0orDQT" /\ kind = "APP0" -> "DQT"
      [] pc \in {"APP0orDQT", "DQT", "DQTorSOF"} /\ kind = "DQT" -> "DQTorSOF"
      [] pc = "DQTorSOF" /\ kind = "SOF" -> "DHT"
      [] pc \in {"DHT", "DHTorSOS"} /\ kind = "DHT" -> "DHTorSOS"
      [] pc = "DHTorSOS" /\ kind = "SOS" -> "found"
      [] OTHER -> "failed"

(* What the bytes at the position can be; a length that is not looked at   *)
(* is 0.  A length below 2 takes the walk back into the length field       *)
(* itself, which does not begin like a marker.                             *)
CanBe(seg) ==
    /\ pc = "SOI" \/ After(seg.kind) = "failed" => seg.len = 0
    /\ buf + 1 >= data_len => seg.kind = "other"
    /\ buf + 2 >= data_len => seg.len = 0
    /\ buf + 3 >= data_len => seg.len % 256 = 0
    /\ Len(segments) > 1 /\ segments[Len(segments)].len < 2 => seg.kind = "other"

(* Mutant: marker and length are not skipped. *)
SkipRest(seg) == IF seg.kind = "SOI" THEN 2 ELSE seg.len - 2

(* How far the walk goes: over SOI, over the marker, the length and the    *)
(* rest of another segment. *)
Skip(seg) == IF seg.kind = "SOI" THEN 2 ELSE 4 + (seg.len - 2)

(* Mutant: only the four bytes of marker and length must be in the image.  *)
FitsMarker(seg) == buf + (IF seg.kind = "SOI" THEN 2 ELSE 4) <= data_len

(* The two tests of a segment; SOI has one. *)
Fits(seg) ==
    /\ seg.kind # "SOI" => buf + 4 <= data_len
    /\ buf + Skip(seg) <= data_len

(* Marker and length; of a SOF that passes the first test also the height  *)
(* and the width, which lie in front of the second test.                   *)
LastRead(seg) ==
    CASE pc = "SOI" -> buf + 2
      [] seg.kind = "SOF" /\ After("SOF") = "DHT" /\ buf + 4 <= data_len -> buf + 9
      [] After(seg.kind) = "failed" -> buf + 2
      [] OTHER -> buf + 4

Step(seg) ==
    /\ pc \in Expecting /\ CanBe(seg)
    /\ read' = IF LastRead(seg) > read THEN LastRead(seg) ELSE read
    /\ segments' = Append(segments, seg)
    /\ IF After(seg.kind) # "failed" /\ Fits(seg)
       THEN pc' = After(seg.kind) /\ buf' = buf + Skip(seg)
       ELSE pc' = "failed" /\ UNCHANGED buf
    /\ UNCHANGED data_len

Next == \E seg \in Segments : Step(seg)

Spec == Init /\ [][Next]_vars

------------------------------------------------------------------------------
(***************************************************************************)
(* Properties.                                                             *)
(***************************************************************************)

(* What GetPayLoad is for, without its control: segments in the order of a *)
(* baseline header, each as often as it may occur.                         *)
Rank == [SOI |-> 1, APP0 |-> 2, DQT |-> 3, SOF |-> 4, DHT |-> 5, SOS |-> 6, other |-> 7]

Count(kind) == Cardinality({j \in DOMAIN segments : segments[j].kind = kind})

IsHeader ==
    /\ \A j \in 2..Len(segments) : Rank[segments[j - 1].kind] <= Rank[segments[j].kind]
    /\ \A kind \in {"SOI", "SOF", "SOS"} : Count(kind) = 1
    /\ Count("DQT") >= 1 /\ Count("DHT") >= 1 /\ Count("APP0") <= 1 /\ Count("other") = 0

EndOf[j \in Nat] ==
    IF j = 0 THEN 0
    ELSE IF j = 1 THEN 2 ELSE EndOf[j - 1] + 2 + segments[j].len

(* The length field counts itself, so a length below 2 ends before it. *)
InImage(n) == EndOf[n] <= data_len /\ EndOf[n - 1] + 4 <= data_len

(* A header is found if and only if there is a whole one in the image, and *)
(* the scan data are what comes after it.                                  *)
FindsHeader ==
    /\ pc = "found" => IsHeader /\ InImage(Len(segments)) /\ buf = EndOf[Len(segments)]
    /\ pc = "failed" => ~(IsHeader /\ InImage(Len(segments)))

(* The walk reads at most five bytes behind the image, whatever the bytes  *)
(* say: it cannot leave the buffer of an encoder that is larger by that.   *)
ReadsBounded == read <= data_len + 5

(* The assertion of SendRtpPacket: there is room for its headers in front  *)
(* of the scan data that GetPayLoad found, if the SOF has the fields that  *)
(* it reads and the SOS has a length at all.  What lets the room be small  *)
(* is that a length below 2 is never accepted in the other segments.       *)
FieldsPresent ==
    \A j \in DOMAIN segments :
        /\ segments[j].kind = "SOF" => segments[j].len >= 8
        /\ segments[j].kind = "SOS" => segments[j].len >= 2

HeaderFits == pc = "found" /\ FieldsPresent => buf >= 24

(* The loops over the tables end: each turn of a walk moves on by two      *)
(* bytes at least and stays in the image, though a length may be zero.     *)
WalkAdvances ==
    [][\/ pc' = "failed" \/ (buf' >= buf + 2 /\ buf' <= data_len)
       \/ ~(pc \in Expecting)]_vars

==============================================================================
