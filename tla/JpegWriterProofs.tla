-------------------------- MODULE JpegWriterProofs --------------------------
(***************************************************************************)
(* Theorems about JpegHeader and JpegWriter, for images of any length and  *)
(* segments of any number and length, and for camera images of any size.   *)
(*                                                                         *)
(* The walk finds a header if and only if there is one, which is what the  *)
(* definition without control says: Shape is what has been accepted at     *)
(* each position of the walk, in numbers (Count) and in bytes (EndOf). It  *)
(* stays in the image, reads five bytes behind it at most, and moves on.   *)
(*                                                                         *)
(* The writer starts a walk of this kind for every image, and its rows,    *)
(* strides and announced sizes are those of one image.                     *)
(***************************************************************************)
EXTENDS JpegWriter, FiniteSetTheorems, WellFoundedInduction, TLAPS

Last == segments[Len(segments)]

Results == Expecting \cup {"found", "failed"}

LEMMA AfterType == \A kind \in Kinds : After(kind) \in Results
BY DEF After, Results, Expecting, Kinds

LEMMA SegmentType ==
    ASSUME NEW seg \in Segments
    PROVE  seg.kind \in Kinds /\ seg.len \in Nat
BY SegLengthsAssumption DEF Segments

(* A segment is longer than the four bytes that are read of it, unless its *)
(* length does not count itself. *)
LEMMA SkipForward ==
    ASSUME NEW seg \in Segments
    PROVE  /\ Skip(seg) \in Nat /\ Skip(seg) >= 2
           /\ seg.kind # "SOI" => Skip(seg) = seg.len + 2
BY SegmentType DEF Skip

LEMMA StepTyped ==
    ASSUME TypeOK, NEW seg \in Segments, Step(seg)
    PROVE  TypeOK'
<1> USE DEF TypeOK
<1>0. data_len \in Nat /\ seg.kind \in Kinds /\ seg.len \in Nat
    BY DataLengthsAssumption, SegmentType
<1>1. pc' \in Results
    BY <1>0, AfterType DEF Step, Results
<1>2. buf' \in 0..data_len
    BY <1>0, SkipForward DEF Step, Fits
<1>3. LastRead(seg) \in Nat
    BY <1>0 DEF LastRead
<1>4. segments' \in Seq(Segments)
    BY DEF Step
<1>5. data_len' = data_len
    BY DEF Step
<1> QED
    BY <1>1, <1>2, <1>3, <1>4, <1>5 DEF Step, Results

------------------------------------------------------------------------------
(***************************************************************************)
(* How far the walk is at least when it expects what.  A length below 2    *)
(* makes the last segment shorter, and then the next one is not accepted.  *)
(***************************************************************************)
Reached ==
    /\ pc = "SOI" => segments = <<>> /\ buf = 0
    /\ pc = "APP0orDQT" => buf = 2 /\ Len(segments) = 1
    /\ pc \in {"DQT", "DQTorSOF", "DHT", "DHTorSOS"} => Len(segments) > 1
    /\ pc \in {"DQT", "DQTorSOF"} /\ Last.len >= 2 => buf >= 6
    /\ pc = "DHT" /\ FieldsPresent => buf >= 16
    /\ pc = "DHTorSOS" /\ FieldsPresent /\ Last.len >= 2 => buf >= 20
    /\ pc = "found" /\ FieldsPresent => buf >= 24

LEMMA FieldsKept ==
    ASSUME TypeOK, NEW seg \in Segments, Step(seg)
    PROVE  /\ Last' = seg /\ Len(segments') = Len(segments) + 1 /\ Len(segments) \in Nat
           /\ FieldsPresent' => /\ FieldsPresent
                                /\ seg.kind = "SOF" => seg.len >= 8
                                /\ seg.kind = "SOS" => seg.len >= 2
<1>1. segments \in Seq(Segments) /\ segments' = Append(segments, seg)
    BY DEF TypeOK, Step
<1>2. Len(segments') = Len(segments) + 1 /\ Len(segments) \in Nat
    BY <1>1
<1>3. segments'[Len(segments) + 1] = seg
    BY <1>1
<1>4. \A j \in DOMAIN segments : j \in DOMAIN segments' /\ segments'[j] = segments[j]
    BY <1>1
<1>5. Len(segments) + 1 \in DOMAIN segments'
    BY <1>1
<1> QED
    BY <1>2, <1>3, <1>4, <1>5 DEF Last, FieldsPresent

LEMMA StepReached ==
    ASSUME TypeOK, Reached, NEW seg \in Segments, Step(seg)
    PROVE  Reached'
<1>0. /\ data_len \in Nat /\ buf \in Nat /\ seg.kind \in Kinds /\ seg.len \in Nat
      /\ Len(segments) \in Nat /\ segments \in Seq(Segments)
    BY DataLengthsAssumption, SegmentType DEF TypeOK
<1>1. CASE pc' = "failed"
    BY <1>1, <1>0, FieldsKept DEF Reached, Step
<1>2. CASE pc' # "failed"
  <2>1. /\ pc' = After(seg.kind) /\ buf' = buf + Skip(seg) /\ After(seg.kind) # "failed"
        /\ pc \in Expecting /\ CanBe(seg)
      BY <1>2 DEF Step
  <2>2. seg.kind # "other" /\ (seg.kind = "SOI" <=> pc = "SOI")
      BY <2>1 DEF After, Expecting
  <2>3. Len(segments) > 1 => Last.len >= 2
    <3>1. Len(segments) > 1 => segments[Len(segments)] \in Segments
        BY <1>0
    <3>2. Len(segments) > 1 => Last.len \in Nat
        BY <3>1, SegmentType DEF Last
    <3> QED
        BY <2>1, <2>2, <3>2 DEF CanBe, Last
  <2>4. buf' = IF pc = "SOI" THEN buf + 2 ELSE buf + 2 + seg.len
      BY <1>0, <2>1, <2>2 DEF Skip
  <2>5. segments' # <<>> /\ Last' = seg /\ Len(segments') = Len(segments) + 1
      BY <1>0, FieldsKept DEF Step
  <2>6. CASE pc = "SOI"
      BY <2>1, <2>2, <2>4, <2>5, <2>6, <1>0 DEF After, Reached
  <2>7. CASE pc = "APP0orDQT"
    <3>1. pc' \in {"DQT", "DQTorSOF"}
        BY <2>1, <2>7 DEF After
    <3>2. Len(segments) = 1 /\ buf' = 4 + seg.len
        BY <2>4, <2>7, <1>0 DEF Reached
    <3> QED BY <2>5, <3>1, <3>2, <1>0 DEF Reached
  <2>8. CASE pc \in {"DQT", "DQTorSOF"}
      BY <2>1, <2>2, <2>3, <2>4, <2>5, <2>8, <1>0, FieldsKept DEF After, Reached
  <2>9. CASE pc \in {"DHT", "DHTorSOS"}
      BY <2>1, <2>2, <2>3, <2>4, <2>5, <2>9, <1>0, FieldsKept DEF After, Reached
  <2> QED
      BY <2>1, <2>6, <2>7, <2>8, <2>9 DEF Expecting
<1> QED
    BY <1>1, <1>2

------------------------------------------------------------------------------
(***************************************************************************)
(* EndOf is defined by recursion over the segments.  What a recursive      *)
(* function is worth follows from its approximations on 0..n: each exists, *)
(* and they agree.                                                         *)
(***************************************************************************)
LEMMA LeastElement ==
    ASSUME NEW T \in SUBSET Nat, T # {}
    PROVE  \E x \in T : \A z \in T : x <= z
<1> DEFINE R == OpToRel(<, Nat)
<1>1. IsWellFoundedOn(R, Nat)
    BY NatLessThanWellFounded
<1>2. \A x, z \in Nat : <<z, x>> \in R <=> z < x
    BY DEF OpToRel
<1> HIDE DEF R
<1>3. PICK x \in T : \A z \in T : ~(<<z, x>> \in R)
    BY <1>1, WFMin
<1>4. \A z \in T : x <= z
    <2> TAKE z \in T
    <2>1. x \in Nat /\ z \in Nat
        OBVIOUS
    <2>2. ~(z < x)
        BY <2>1, <1>2, <1>3, Zenon
    <2> QED BY <2>1, <2>2
<1> QED BY <1>4

(* The end of segment j from the end of the one before. *)
EndAfter(s, j, e) == IF j = 0 THEN 0 ELSE IF j = 1 THEN 2 ELSE e[j - 1] + 2 + s[j].len

Ends(s) == CHOOSE e : e = [j \in Nat |-> EndAfter(s, j, e)]

UpTo(s, n, e) == e = [j \in 0..n |-> EndAfter(s, j, e)]

(* Two functions that follow the recursion on 0..n, over segments that are *)
(* the same up to n, agree there.                                          *)
LEMMA EndsAgree ==
    ASSUME NEW n \in Nat, NEW s, NEW t, NEW d, NEW e,
           \A j \in 0..n : d[j] = EndAfter(s, j, d),
           \A j \in 0..n : e[j] = EndAfter(t, j, e),
           \A j \in 2..n : s[j] = t[j]
    PROVE  \A j \in 0..n : d[j] = e[j]
<1> DEFINE T == {j \in 0..n : d[j] # e[j]}
<1>1. SUFFICES ASSUME T # {} PROVE FALSE
    OBVIOUS
<1>2. T \in SUBSET Nat
    OBVIOUS
<1>3. PICK j \in T : \A i \in T : j <= i
    BY <1>1, <1>2, LeastElement
<1>4. j \in Nat /\ j <= n /\ d[j] # e[j]
    OBVIOUS
<1>5. j >= 2
    BY <1>4 DEF EndAfter
<1>6. j - 1 \in 0..n /\ ~(j - 1 \in T)
    BY <1>3, <1>4, <1>5
<1>7. d[j - 1] = e[j - 1]
    BY <1>6
<1>8. s[j] = t[j]
    BY <1>4, <1>5
<1>9. d[j] = EndAfter(s, j, d) /\ e[j] = EndAfter(t, j, e)
    BY <1>4
<1> QED
    BY <1>4, <1>5, <1>7, <1>8, <1>9 DEF EndAfter

LEMMA UpToExists ==
    ASSUME NEW s, NEW n \in Nat
    PROVE  \E e : UpTo(s, n, e)
<1> DEFINE T == {m \in Nat : ~\E e : UpTo(s, m, e)}
<1>1. SUFFICES ASSUME T # {} PROVE FALSE
    BY Zenon
<1>2. T \in SUBSET Nat
    OBVIOUS
<1>3. PICK m \in T : \A i \in T : m <= i
    BY <1>1, <1>2, LeastElement
<1>4. m \in Nat /\ ~\E e : UpTo(s, m, e)
    BY Zenon
<1>5. CASE m = 0
    <2> DEFINE e == [j \in 0..m |-> 0]
    <2>1. \A j \in 0..m : EndAfter(s, j, e) = 0
        BY <1>5 DEF EndAfter
    <2>2. UpTo(s, m, e)
        BY <2>1 DEF UpTo
    <2> QED BY <2>2, <1>4, Zenon
<1>6. CASE m # 0
    <2>1. m - 1 \in Nat /\ ~(m - 1 \in T)
        BY <1>3, <1>4, <1>6
    <2>2. PICK d : UpTo(s, m - 1, d)
        BY <2>1, Zenon
    <2> DEFINE e == [j \in 0..m |-> EndAfter(s, j, d)]
    <2>3. d = [j \in 0..m - 1 |-> EndAfter(s, j, d)]
        BY <2>2 DEF UpTo
    <2> HIDE DEF T
    <2>4. \A j \in 0..m - 1 : e[j] = d[j]
        BY <2>3, <1>4
    <2>5. \A j \in 0..m : j >= 2 => j - 1 \in 0..m - 1
        BY <1>4
    <2>6. ASSUME NEW j \in 0..m PROVE EndAfter(s, j, e) = EndAfter(s, j, d)
        <3> HIDE DEF e
        <3>1. j \in Nat /\ (j < 2 => j = 0 \/ j = 1)
            BY <1>4
        <3>2. j >= 2 => e[j - 1] = d[j - 1]
            BY <2>4, <2>5
        <3> QED BY <3>1, <3>2 DEF EndAfter
    <2>7. UpTo(s, m, e)
        BY <2>6 DEF UpTo
    <2> QED BY <2>7, <1>4, Zenon
<1> QED BY <1>5, <1>6

LEMMA EndsFollows ==
    ASSUME NEW s, NEW j \in Nat
    PROVE  Ends(s)[j] = EndAfter(s, j, Ends(s))
<1> DEFINE F(n) == CHOOSE e : UpTo(s, n, e)
           G == [n \in Nat |-> F(n)[n]]
<1>1. ASSUME NEW n \in Nat PROVE UpTo(s, n, F(n))
    BY UpToExists, Zenon
<1>2. ASSUME NEW n \in Nat, NEW i \in 0..n PROVE F(n)[i] = EndAfter(s, i, F(n))
    BY <1>1 DEF UpTo
<1> HIDE DEF F
<1>3. ASSUME NEW n \in Nat, n >= 2 PROVE F(n)[n - 1] = F(n - 1)[n - 1]
    <2>1. n - 1 \in Nat
        BY <1>3
    <2>2. \A i \in 0..n - 1 : i \in 0..n
        BY <1>3
    <2>3. \A i \in 0..n - 1 : F(n)[i] = EndAfter(s, i, F(n))
        BY <2>2, <1>2
    <2>4. \A i \in 0..n - 1 : F(n - 1)[i] = EndAfter(s, i, F(n - 1))
        BY <2>1, <1>2
    <2>5. \A i \in 0..n - 1 : F(n)[i] = F(n - 1)[i]
        BY <2>1, <2>3, <2>4, EndsAgree
    <2> QED BY <2>1, <2>5
<1>4. ASSUME NEW n \in Nat PROVE G[n] = EndAfter(s, n, G)
    <2>1. G[n] = F(n)[n] /\ F(n)[n] = EndAfter(s, n, F(n))
        BY <1>2
    <2>2. n >= 2 => n - 1 \in Nat /\ G[n - 1] = F(n)[n - 1]
        BY <1>3
    <2> QED BY <2>1, <2>2 DEF EndAfter
<1>5. G = [n \in Nat |-> EndAfter(s, n, G)]
    <2> HIDE DEF G
    <2>1. G = [n \in Nat |-> G[n]]
        BY DEF G
    <2> QED BY <2>1, <1>4
<1>6. Ends(s) = [n \in Nat |-> EndAfter(s, n, Ends(s))]
    <2> HIDE DEF G
    <2> QED BY <1>5 DEF Ends
<1> QED BY <1>6

(* What EndOf is worth, and that a further segment does not change it. *)
LEMMA EndOfFollows ==
    /\ EndOf = Ends(segments)
    /\ \A j \in Nat : EndOf[j] = EndAfter(segments, j, EndOf)
<1>1. EndOf = Ends(segments)
    BY DEF EndOf, Ends, EndAfter
<1> QED BY <1>1, EndsFollows

(***************************************************************************)
(* Count counts: a further segment adds one to the number of its kind.     *)
(***************************************************************************)
LEMMA CountEmpty ==
    ASSUME segments = <<>>, NEW kind
    PROVE  Count(kind) = 0
<1>1. {j \in DOMAIN segments : segments[j].kind = kind} = {}
    OBVIOUS
<1> QED BY <1>1, FS_EmptySet DEF Count

LEMMA CountStep ==
    ASSUME segments \in Seq(Segments), NEW seg, segments' = Append(segments, seg), NEW kind
    PROVE  /\ Count(kind) \in Nat
           /\ Count(kind)' = IF seg.kind = kind THEN Count(kind) + 1 ELSE Count(kind)
<1> DEFINE n == Len(segments)
           S == {j \in DOMAIN segments : segments[j].kind = kind}
           T == {j \in DOMAIN segments' : segments'[j].kind = kind}
<1>1. n \in Nat /\ DOMAIN segments = 1..n /\ DOMAIN segments' = 1..n + 1
    OBVIOUS
<1>2. segments'[n + 1] = seg /\ \A j \in 1..n : segments'[j] = segments[j]
    OBVIOUS
<1>3. Count(kind) = Cardinality(S) /\ Count(kind)' = Cardinality(T)
    BY DEF Count
<1> HIDE DEF n
<1>4. S \in SUBSET (1..n)
    BY <1>1
<1>5. IsFiniteSet(S) /\ Cardinality(S) \in Nat
    <2>1. n \in Int /\ 1 \in Int
        BY <1>1
    <2>2. IsFiniteSet(1..n)
        BY ONLY <2>1, FS_Interval
    <2>3. IsFiniteSet(S)
        BY ONLY <1>4, <2>2, FS_Subset
    <2> QED BY ONLY <2>3, FS_CardinalityType
<1>6. n + 1 \notin S
    BY <1>1
<1>7. T = IF seg.kind = kind THEN S \cup {n + 1} ELSE S
    <2>1. \A j \in 1..n + 1 : j \in 1..n \/ j = n + 1
        BY <1>1
    <2>2. n + 1 \in 1..n + 1 /\ \A j \in 1..n : j \in 1..n + 1
        BY <1>1
    <2> QED BY <1>1, <1>2, <2>1, <2>2
<1> HIDE DEF S, T
<1>8. Cardinality(S \cup {n + 1}) = Cardinality(S) + 1
    BY ONLY <1>5, <1>6, FS_AddElement
<1> QED BY <1>3, <1>5, <1>7, <1>8

------------------------------------------------------------------------------
(***************************************************************************)
(* What the walk has accepted, by what it expects.  Every header has a SOS *)
(* and a DHT in front of it, and both come late: a walk that fails earlier *)
(* has not seen them.                                                      *)
(***************************************************************************)
Accepted ==
    /\ EndOf[Len(segments)] = buf
    /\ \A j \in 2..Len(segments) : Rank[segments[j - 1].kind] <= Rank[segments[j].kind]
    /\ Count("SOI") = IF pc = "SOI" THEN 0 ELSE 1
    /\ Count("APP0") <= IF pc \in {"SOI", "APP0orDQT"} THEN 0 ELSE 1
    /\ Count("DQT") >= 1 <=> pc \in {"DQTorSOF", "DHT", "DHTorSOS", "found"}
    /\ Count("SOF") = IF pc \in {"DHT", "DHTorSOS", "found"} THEN 1 ELSE 0
    /\ Count("DHT") >= 1 <=> pc \in {"DHTorSOS", "found"}
    /\ Count("SOS") = IF pc = "found" THEN 1 ELSE 0
    /\ Count("other") = 0

LastKind == [APP0orDQT |-> "SOI", DQT |-> "APP0", DQTorSOF |-> "DQT", DHT |-> "SOF",
             DHTorSOS |-> "DHT", found |-> "SOS"]

Shape ==
    /\ pc # "failed" => Accepted
    /\ pc \notin {"SOI", "failed"} => Len(segments) > 0 /\ Last.kind = LastKind[pc]
    /\ pc = "found" => InImage(Len(segments))
    /\ pc = "failed" => ~(IsHeader /\ InImage(Len(segments)))

LEMMA EndsStep ==
    ASSUME segments \in Seq(Segments), NEW seg \in Segments, segments' = Append(segments, seg)
    PROVE  /\ Len(segments) \in Nat
           /\ EndOf'[Len(segments)] = EndOf[Len(segments)]
           /\ EndOf'[Len(segments) + 1] =
                 IF segments = <<>> THEN 2 ELSE EndOf[Len(segments)] + 2 + seg.len
<1> DEFINE n == Len(segments)
<1>1. n \in Nat /\ (n = 0 <=> segments = <<>>)
    OBVIOUS
<1>2. segments'[n + 1] = seg /\ \A j \in 2..n : segments[j] = segments'[j]
    OBVIOUS
<1>3. EndOf = Ends(segments) /\ EndOf' = Ends(segments')
    BY DEF EndOf, Ends, EndAfter
<1>4. /\ \A j \in Nat : EndOf[j] = EndAfter(segments, j, EndOf)
      /\ \A j \in Nat : EndOf'[j] = EndAfter(segments', j, EndOf')
    BY <1>3, EndsFollows
<1> HIDE DEF n
<1>5. EndOf[n] = EndOf'[n]
    <2>1. \A j \in 0..n : j \in Nat /\ n \in 0..n
        BY <1>1
    <2>2. PICK d : d = EndOf
        OBVIOUS
    <2>3. PICK e : e = EndOf'
        OBVIOUS
    <2>4. PICK t : t = segments'
        OBVIOUS
    <2>5. PICK r : r = segments
        OBVIOUS
    <2>6. \A j \in 0..n : d[j] = EndAfter(r, j, d)
        BY <1>4, <2>1, <2>2, <2>5
    <2>7. \A j \in 0..n : e[j] = EndAfter(t, j, e)
        BY <1>4, <2>1, <2>3, <2>4
    <2>8. \A j \in 2..n : r[j] = t[j]
        BY <1>2, <2>4, <2>5
    <2>9. \A j \in 0..n : d[j] = e[j]
        BY ONLY <1>1, <2>6, <2>7, <2>8, EndsAgree
    <2> QED BY <1>1, <2>1, <2>2, <2>3, <2>9
<1>6. EndOf'[n + 1] = EndAfter(segments', n + 1, EndOf')
    BY <1>1, <1>4
<1>7. EndOf'[n + 1] = IF n = 0 THEN 2 ELSE EndOf[n] + 2 + seg.len
    BY <1>1, <1>2, <1>5, <1>6 DEF EndAfter
<1> QED BY <1>1, <1>5, <1>7 DEF n

LEMMA StepCounts ==
    ASSUME TypeOK, NEW seg \in Segments, Step(seg)
    PROVE  \A kind \in Kinds :
               /\ Count(kind) \in Nat
               /\ Count(kind)' = IF seg.kind = kind THEN Count(kind) + 1 ELSE Count(kind)
<1>1. segments \in Seq(Segments) /\ segments' = Append(segments, seg)
    BY DEF TypeOK, Step
<1> QED BY <1>1, CountStep

(* A step that fails leaves no header in the image. *)
LEMMA StepFails ==
    ASSUME TypeOK, Shape, NEW seg \in Segments, Step(seg), pc' = "failed"
    PROVE  ~(IsHeader' /\ InImage(Len(segments))')
<1>0. /\ pc \in Expecting /\ pc \notin {"found", "failed"} /\ seg.kind \in Kinds
      /\ segments \in Seq(Segments) /\ segments' = Append(segments, seg)
      /\ Len(segments') = Len(segments) + 1
    BY SegmentType DEF TypeOK, Step, Expecting
<1>1. Count("SOS") = 0 /\ (pc # "DHTorSOS" => ~(Count("DHT") >= 1))
    BY <1>0 DEF Shape, Accepted
<1>2. CASE seg.kind # "SOS"
    <2>1. Count("SOS")' = 0
        BY <1>1, <1>2, StepCounts DEF Kinds
    <2> QED BY <2>1 DEF IsHeader
<1>3. CASE seg.kind = "SOS" /\ pc # "DHTorSOS"
    <2>1. Count("DHT")' = Count("DHT")
        BY <1>3, StepCounts DEF Kinds
    <2> QED BY <1>1, <1>3, <2>1 DEF IsHeader
<1>4. CASE seg.kind = "SOS" /\ pc = "DHTorSOS"
    <2>1. ~Fits(seg)
        BY <1>4 DEF Step, After
    <2>2. ~(buf + 4 <= data_len /\ buf + 2 + seg.len <= data_len)
        BY <1>4, <2>1, SegmentType, DataLengthsAssumption DEF Fits, Skip, TypeOK
    <2>3. Len(segments) \in Nat /\ segments # <<>> /\ EndOf[Len(segments)] = buf
        BY <1>0, <1>4 DEF Shape, Accepted
    <2>4. /\ EndOf'[Len(segments)] = buf
          /\ EndOf'[Len(segments) + 1] = buf + 2 + seg.len
        BY <1>0, <2>3, EndsStep
    <2>5. Len(segments') - 1 = Len(segments) /\ data_len' = data_len
        BY <1>0, <2>3 DEF Step
    <2> QED BY <1>0, <2>2, <2>4, <2>5 DEF InImage
<1> QED BY <1>2, <1>3, <1>4

(* One that goes on has accepted one segment more. *)
LEMMA StepAccepts ==
    ASSUME TypeOK, Reached, Shape, NEW seg \in Segments, Step(seg), pc' # "failed"
    PROVE  Accepted' /\ pc' # "SOI" /\ seg.kind = LastKind[pc']
<1>0. /\ pc \in Expecting /\ pc \notin {"found", "failed"} /\ seg.kind \in Kinds
      /\ segments \in Seq(Segments) /\ segments' = Append(segments, seg)
      /\ Len(segments) \in Nat /\ Len(segments') = Len(segments) + 1
      /\ data_len \in Nat /\ buf \in Nat /\ seg.len \in Nat
    BY SegmentType, DataLengthsAssumption DEF TypeOK, Step, Expecting
<1>1. Accepted
    BY <1>0 DEF Shape
<1>2. pc' = After(seg.kind) /\ After(seg.kind) # "failed" /\ buf' = buf + Skip(seg)
    BY DEF Step
<1>3. /\ pc = "SOI" <=> segments = <<>>
      /\ seg.kind = "SOI" <=> pc = "SOI"
    BY <1>0, <1>2 DEF Shape, Reached, After, Expecting
<1>4. pc' \notin {"SOI", "failed"} /\ seg.kind = LastKind[pc']
    BY <1>0, <1>2 DEF After, LastKind, Expecting
<1>5. EndOf'[Len(segments')] = buf'
  <2>1. EndOf'[Len(segments) + 1] =
            IF segments = <<>> THEN 2 ELSE EndOf[Len(segments)] + 2 + seg.len
      BY <1>0, EndsStep
  <2>2. buf' = IF segments = <<>> THEN 2 ELSE buf + 2 + seg.len
    <3>1. segments = <<>> => buf = 0
        BY <1>3 DEF Reached
    <3>2. segments = <<>> => buf' = 2
        BY <1>2, <1>3, <3>1 DEF Skip
    <3>3. segments # <<>> => Skip(seg) = seg.len + 2
        BY <1>3, SkipForward
    <3>4. buf \in Nat /\ seg.len \in Nat
        BY <1>0, Zenon
    <3>5. buf + (seg.len + 2) = buf + 2 + seg.len
        BY ONLY <3>4
    <3> QED BY <1>2, <3>2, <3>3, <3>5
  <2> QED BY <1>0, <1>1, <2>1, <2>2 DEF Accepted
<1>6. (\A j \in 2..Len(segments) : Rank[segments[j - 1].kind] <= Rank[segments[j].kind])'
  <2>1. segments # <<>> => Rank[Last.kind] <= Rank[seg.kind]
    <3>1. segments # <<>> => pc \notin {"SOI", "failed"} /\ Last.kind = LastKind[pc]
        BY <1>0, <1>3 DEF Shape
    <3> QED BY <3>1, <1>0, <1>2, <1>3 DEF After, LastKind, Rank, Expecting
  <2>2. /\ segments'[Len(segments) + 1] = seg
        /\ \A j \in 1..Len(segments) : segments'[j] = segments[j]
      BY <1>0
  <2>3. ASSUME NEW j \in 2..Len(segments')
        PROVE  Rank[segments'[j - 1].kind] <= Rank[segments'[j].kind]
    <3>1. CASE j = Len(segments) + 1
        BY <1>0, <2>1, <2>2, <3>1 DEF Last
    <3>2. CASE j # Len(segments) + 1
      <4>1. j \in 2..Len(segments) /\ j \in 1..Len(segments) /\ j - 1 \in 1..Len(segments)
          BY <1>0, <3>2
      <4> QED BY <4>1, <1>1, <2>2 DEF Accepted
    <3> QED BY <3>1, <3>2
  <2> QED BY <2>3
<1>7. \A kind \in Kinds :
          /\ Count(kind) \in Nat
          /\ Count(kind)' = IF seg.kind = kind THEN Count(kind) + 1 ELSE Count(kind)
    BY StepCounts
<1>8. Count("SOI")' = IF pc' = "SOI" THEN 0 ELSE 1
  <2>1. Count("SOI")' = IF seg.kind = "SOI" THEN Count("SOI") + 1 ELSE Count("SOI")
      BY <1>7 DEF Kinds
  <2>2. Count("SOI") = IF pc = "SOI" THEN 0 ELSE 1
      BY <1>1 DEF Accepted
  <2> QED BY <1>3, <1>4, <2>1, <2>2
<1>14. Count("other")' = 0
  <2>1. seg.kind # "other" /\ Count("other") = 0
      BY <1>0, <1>1, <1>2 DEF Accepted, After
  <2> QED BY <1>7, <2>1 DEF Kinds
<1>15. \/ pc = "SOI" /\ seg.kind = "SOI" /\ pc' = "APP0orDQT"
       \/ pc = "APP0orDQT" /\ seg.kind = "APP0" /\ pc' = "DQT"
       \/ pc \in {"APP0orDQT", "DQT", "DQTorSOF"} /\ seg.kind = "DQT" /\ pc' = "DQTorSOF"
       \/ pc = "DQTorSOF" /\ seg.kind = "SOF" /\ pc' = "DHT"
       \/ pc \in {"DHT", "DHTorSOS"} /\ seg.kind = "DHT" /\ pc' = "DHTorSOS"
       \/ pc = "DHTorSOS" /\ seg.kind = "SOS" /\ pc' = "found"
    BY <1>2, Zenon DEF After
<1>9. Count("APP0")' <= IF pc' \in {"SOI", "APP0orDQT"} THEN 0 ELSE 1
  <2>1. Count("APP0")' = IF seg.kind = "APP0" THEN Count("APP0") + 1 ELSE Count("APP0")
      BY <1>7 DEF Kinds
  <2>2. Count("APP0") \in Nat /\ Count("APP0") <= IF pc \in {"SOI", "APP0orDQT"} THEN 0 ELSE 1
      BY <1>1, <1>7 DEF Accepted, Kinds
  <2> QED BY <1>15, <2>1, <2>2
<1>10. Count("DQT")' >= 1 <=> pc' \in {"DQTorSOF", "DHT", "DHTorSOS", "found"}
  <2>1. Count("DQT")' = IF seg.kind = "DQT" THEN Count("DQT") + 1 ELSE Count("DQT")
      BY <1>7 DEF Kinds
  <2>2. Count("DQT") \in Nat /\ (Count("DQT") >= 1 <=> pc \in {"DQTorSOF", "DHT", "DHTorSOS", "found"})
      BY <1>1, <1>7 DEF Accepted, Kinds
  <2> QED BY <1>15, <2>1, <2>2
<1>11. Count("SOF")' = IF pc' \in {"DHT", "DHTorSOS", "found"} THEN 1 ELSE 0
  <2>1. Count("SOF")' = IF seg.kind = "SOF" THEN Count("SOF") + 1 ELSE Count("SOF")
      BY <1>7 DEF Kinds
  <2>2. Count("SOF") \in Nat /\ Count("SOF") = IF pc \in {"DHT", "DHTorSOS", "found"} THEN 1 ELSE 0
      BY <1>1, <1>7 DEF Accepted, Kinds
  <2> QED BY <1>15, <2>1, <2>2
<1>12. Count("DHT")' >= 1 <=> pc' \in {"DHTorSOS", "found"}
  <2>1. Count("DHT")' = IF seg.kind = "DHT" THEN Count("DHT") + 1 ELSE Count("DHT")
      BY <1>7 DEF Kinds
  <2>2. Count("DHT") \in Nat /\ (Count("DHT") >= 1 <=> pc \in {"DHTorSOS", "found"})
      BY <1>1, <1>7 DEF Accepted, Kinds
  <2> QED BY <1>15, <2>1, <2>2
<1>13. Count("SOS")' = IF pc' = "found" THEN 1 ELSE 0
  <2>1. Count("SOS")' = IF seg.kind = "SOS" THEN Count("SOS") + 1 ELSE Count("SOS")
      BY <1>7 DEF Kinds
  <2>2. Count("SOS") \in Nat /\ Count("SOS") = IF pc = "found" THEN 1 ELSE 0
      BY <1>1, <1>7 DEF Accepted, Kinds
  <2> QED BY <1>15, <2>1, <2>2
<1> QED BY <1>4, <1>5, <1>6, <1>8, <1>9, <1>10, <1>11, <1>12, <1>13, <1>14 DEF Accepted

LEMMA StepShape ==
    ASSUME TypeOK, Reached, Shape, NEW seg \in Segments, Step(seg)
    PROVE  Shape'
<1>1. /\ segments \in Seq(Segments) /\ segments' = Append(segments, seg)
      /\ Len(segments) \in Nat /\ Len(segments') = Len(segments) + 1 /\ Last' = seg
    BY FieldsKept DEF TypeOK, Step
<1>2. CASE pc' = "failed"
    BY <1>2, StepFails DEF Shape
<1>3. CASE pc' # "failed"
  <2>1. Accepted' /\ pc' # "SOI" /\ seg.kind = LastKind[pc']
      BY <1>3, StepAccepts
  <2>2. ASSUME pc' = "found" PROVE InImage(Len(segments))'
    <3>1. pc = "DHTorSOS" /\ seg.kind = "SOS" /\ Fits(seg) /\ data_len' = data_len
        BY <1>3, <2>2 DEF Step, After, Expecting
    <3>2. EndOf'[Len(segments')] = buf' /\ buf' = buf + Skip(seg)
        BY <1>3, <2>1 DEF Accepted, Step
    <3>3. EndOf'[Len(segments)] = buf
        BY <1>1, <3>1, EndsStep DEF Shape, Accepted
    <3>4. Len(segments') - 1 = Len(segments)
        BY <1>1
    <3> QED BY <3>1, <3>2, <3>3, <3>4 DEF InImage, Fits
  <2> QED BY <1>1, <1>3, <2>1, <2>2 DEF Shape
<1> QED BY <1>2, <1>3

------------------------------------------------------------------------------
(***************************************************************************)
(* The walk as a whole, from the start to its result.                      *)
(***************************************************************************)

(* Each segment takes the walk on by two bytes; the last may be refused. *)
Walked ==
    /\ pc # "failed" => 2 * Len(segments) <= buf
    /\ 2 * Len(segments) <= buf + 2

WalkInv == TypeOK /\ ReadsBounded /\ Reached /\ Shape /\ Walked

(* Before a walk and before the first of all. *)
AtStart ==
    /\ pc \in {"SOI", "failed"} /\ buf = 0 /\ read = 0 /\ segments = <<>>
    /\ data_len \in DataLengths

LEMMA StartsRight == AtStart => WalkInv
<1> SUFFICES ASSUME AtStart PROVE WalkInv
    OBVIOUS
<1>1. data_len \in Nat /\ segments = <<>> /\ Len(segments) = 0
    BY DataLengthsAssumption DEF AtStart
<1>2. TypeOK /\ ReadsBounded /\ Walked /\ Reached
    BY <1>1 DEF AtStart, TypeOK, ReadsBounded, Walked, Reached, Expecting
<1>3. \A kind : Count(kind) = 0
    BY <1>1, CountEmpty
<1>4. EndOf[Len(segments)] = 0
    BY <1>1, EndOfFollows DEF EndAfter
<1>5. Accepted \/ pc = "failed"
    BY <1>1, <1>3, <1>4 DEF AtStart, Accepted
<1>6. ~IsHeader
    BY <1>3 DEF IsHeader
<1> QED
    BY <1>2, <1>5, <1>6 DEF AtStart, Shape, WalkInv

LEMMA StepReads ==
    ASSUME TypeOK, ReadsBounded, NEW seg \in Segments, Step(seg)
    PROVE  ReadsBounded'
<1>1. data_len \in Nat /\ buf \in Nat /\ buf <= data_len /\ read \in Nat
    BY DataLengthsAssumption DEF TypeOK
<1>2. LastRead(seg) \in Nat /\ LastRead(seg) <= data_len + 5
    BY <1>1 DEF LastRead
<1> QED
    BY <1>1, <1>2 DEF Step, ReadsBounded

LEMMA StepAdvances ==
    ASSUME TypeOK, NEW seg \in Segments, Step(seg)
    PROVE  \/ pc' = "failed" /\ buf' = buf
           \/ buf' >= buf + 2 /\ buf' <= data_len
BY SkipForward, DataLengthsAssumption DEF TypeOK, Step, Fits

LEMMA StepWalks ==
    ASSUME TypeOK, Walked, NEW seg \in Segments, Step(seg)
    PROVE  Walked'
<1>1. buf \in Nat /\ buf' \in Nat /\ data_len \in Nat
    BY StepTyped, DataLengthsAssumption DEF TypeOK, Step
<1>2. Len(segments) \in Nat /\ Len(segments') = Len(segments) + 1
    BY FieldsKept
<1>3. pc \in Expecting /\ pc # "failed"
    BY DEF Step, Expecting
<1>4. 2 * Len(segments) <= buf /\ 2 * Len(segments') = 2 * Len(segments) + 2
    BY <1>2, <1>3 DEF Walked
<1> QED
    BY <1>1, <1>2, <1>4, StepAdvances DEF Walked

LEMMA WalkStep == WalkInv /\ [Next]_vars => WalkInv'
<1>1. ASSUME WalkInv, NEW seg \in Segments, Step(seg) PROVE WalkInv'
    BY <1>1, StepTyped, StepReads, StepReached, StepShape, StepWalks DEF WalkInv
<1>2. ASSUME WalkInv, UNCHANGED vars PROVE WalkInv'
  <2>1. TypeOK' /\ ReadsBounded' /\ Reached' /\ Walked'
      BY <1>2 DEF vars, WalkInv, TypeOK, ReadsBounded, Reached, Walked, Last, FieldsPresent
  <2>2. Shape'
      BY <1>2 DEF vars, WalkInv, Shape, Accepted, Count, EndOf, InImage, IsHeader, Last
  <2> QED BY <2>1, <2>2 DEF WalkInv
<1> QED BY <1>1, <1>2 DEF Next

LEMMA WalkInvariance == Spec => []WalkInv
<1>1. Init => WalkInv
    BY StartsRight DEF Init, AtStart
<1> QED
    BY <1>1, WalkStep, PTL DEF Spec

LEMMA WalkRight == WalkInv => FindsHeader /\ ReadsBounded /\ HeaderFits
<1>1. ASSUME WalkInv, pc = "found" PROVE IsHeader
    BY <1>1 DEF WalkInv, Shape, Accepted, IsHeader
<1>2. WalkInv => FindsHeader
    BY <1>1 DEF WalkInv, Shape, Accepted, FindsHeader
<1> QED BY <1>2 DEF WalkInv, Reached, HeaderFits

LEMMA WalkOn ==
    WalkInv /\ [Next]_vars =>
        [\/ pc' = "failed" \/ (buf' >= buf + 2 /\ buf' <= data_len)
         \/ ~(pc \in Expecting)]_vars
BY StepAdvances DEF Next, WalkInv

(* Every variable of JpegHeader keeps its type; above all the walk does    *)
(* not leave the image.                                                    *)
THEOREM TypeCorrect == Spec => []TypeOK
<1>1. WalkInv => TypeOK
    BY DEF WalkInv
<1> QED BY <1>1, WalkInvariance, PTL

(* A header is found if and only if there is a whole one in the image, and *)
(* the scan data are what comes after it: for headers of any length.       *)
THEOREM FoundCorrect == Spec => []FindsHeader
BY WalkRight, WalkInvariance, PTL

(* No image makes GetPayLoad read more than five bytes behind its end.     *)
THEOREM ReadsCorrect == Spec => []ReadsBounded
BY WalkRight, WalkInvariance, PTL

(* The assertion of SendRtpPacket on the room in front of the scan data    *)
(* holds for every image whose SOF and SOS have the fields they must have. *)
THEOREM HeaderCorrect == Spec => []HeaderFits
BY WalkRight, WalkInvariance, PTL

(* Each turn of the loops over the tables moves on, and within the image.  *)
THEOREM AdvanceCorrect == Spec => WalkAdvances
BY WalkOn, WalkInvariance, PTL DEF Spec, WalkAdvances

(* The loops of GetPayLoad end: each turn reads a segment, and there are   *)
(* at most half as many turns as the image has bytes, and one.             *)
THEOREM TurnsBounded == Spec => [](2 * Len(segments) <= data_len + 2)
<1>1. WalkInv => 2 * Len(segments) <= data_len + 2
    BY DataLengthsAssumption DEF WalkInv, TypeOK, Walked
<1> QED BY <1>1, WalkInvariance, PTL

------------------------------------------------------------------------------
(***************************************************************************)
(* Arithmetic of the sizes.                                                *)
(***************************************************************************)
LEMMA EightBelow ==
    ASSUME NEW n \in Nat
    PROVE  ByEight(n) \in Nat /\ ByEight(n) <= n /\ ByEight(n) \div 8 = n \div 8
BY DEF ByEight

LEMMA BlocksOfEight ==
    ASSUME NEW n \in Nat, n % 16 \notin 1..7
    PROVE  Blocks(ByEight(n)) = Blocks(n)
<1>1. PICK q \in Nat, r \in 0..15 : n = 16 * q + r /\ n % 16 = r
    <2>1. n \div 16 \in Nat /\ n % 16 \in 0..15 /\ n = 16 * (n \div 16) + (n % 16)
        OBVIOUS
    <2> QED BY <2>1
<1>2. CASE r = 0
    <2>1. ByEight(n) = n
        BY <1>1, <1>2 DEF ByEight
    <2> QED BY <2>1
<1>3. CASE r \in 8..15
    <2>1. n \div 8 = 2 * q + 1
        BY <1>1, <1>3
    <2>2. ByEight(n) = 16 * q + 8
        BY <1>1, <2>1 DEF ByEight
    <2>3. (16 * q + 8 + 15) \div 16 = q + 1
        BY <1>1
    <2>4. (n + 15) \div 16 = q + 1
        BY <1>1, <1>3
    <2> QED BY <2>2, <2>3, <2>4 DEF Blocks
<1> QED BY <1>1, <1>2, <1>3

LEMMA ProductBelow ==
    ASSUME NEW a \in Nat, NEW b \in Nat, NEW c \in Nat, NEW d \in Nat, a <= c, b <= d
    PROVE  a * b \in Nat /\ c * d \in Nat /\ a * b <= c * d
<1>1. a * b <= c * b
    OBVIOUS
<1>2. c * b <= c * d
    OBVIOUS
<1>3. a * b \in Nat /\ c * b \in Nat /\ c * d \in Nat
    OBVIOUS
<1> QED BY <1>1, <1>2, <1>3

LEMMA QuotientBelow ==
    ASSUME NEW n \in Nat, NEW f \in Nat \ {0}
    PROVE  n \div f \in Nat /\ n \div f <= n
OBVIOUS

LEMMA WriterSizes ==
    ASSUME NEW w \in Writers
    PROVE  /\ w.width = IMAGE_WIDTH /\ w.height = IMAGE_HEIGHT
           /\ IMAGE_WIDTH \in Nat /\ IMAGE_HEIGHT \in Nat /\ w.factor \in Nat \ {0}
           /\ IMAGE_WIDTH \div w.factor \in Nat /\ IMAGE_WIDTH \div w.factor <= IMAGE_WIDTH
           /\ IMAGE_HEIGHT \div w.factor \in Nat /\ IMAGE_HEIGHT \div w.factor <= IMAGE_HEIGHT
           /\ SetMaxDataSize(IMAGE_WIDTH, IMAGE_HEIGHT) \in Nat
<1>1. /\ w.width = IMAGE_WIDTH /\ w.height = IMAGE_HEIGHT
      /\ IMAGE_WIDTH \in Nat /\ IMAGE_HEIGHT \in Nat /\ w.factor \in Nat \ {0}
    BY WritersAssumption, CameraAssumption
<1>2. IMAGE_WIDTH * IMAGE_HEIGHT \in Nat
    BY <1>1, ProductBelow
<1>3. SetMaxDataSize(IMAGE_WIDTH, IMAGE_HEIGHT) \in Nat
    BY <1>2 DEF SetMaxDataSize, channel
<1> QED BY <1>1, <1>3, QuotientBelow

------------------------------------------------------------------------------
(***************************************************************************)
(* The writer.  Between two images the walk is at rest, so that each image *)
(* is walked from the start; and the sizes that Write takes hold for every *)
(* row and for the walk behind the last.                                   *)
(***************************************************************************)
AtRest == control # "walk" => pc = "failed" /\ buf = 0 /\ read = 0 /\ segments = <<>>

BuffersInv ==
    /\ max_data_size = SetMaxDataSize(writer.width, writer.height)
    /\ allocated = IF control \in {"new", "deleted"} THEN 0 ELSE max_data_size

Stride(w) == IF w.factor > 1 THEN channel * ByEight(w.width \div w.factor) ELSE 0

Pixels(w) ==
    IF w.factor > 1 THEN Stride(w) * (IMAGE_HEIGHT \div w.factor)
                    ELSE channel * w.width * w.height

FileInv ==
    \/ /\ stride = 0 /\ pixels = 0 /\ y = 0 /\ readTo = 0 /\ beyond = 0
       /\ cinfo = [width |-> 0, height |-> 0]
       /\ control \notin {"rows", "walk"}
    \/ /\ stride = Stride(writer) /\ pixels = Pixels(writer)
       /\ cinfo = [width |-> JpegWidth, height |-> IMAGE_HEIGHT \div writer.factor]
       /\ readTo <= pixels
       /\ beyond \in 0..8 /\ (Resized => beyond \in 1..8)

ImageLeft == control = "rows" => images < MaxImages

WriterInv == WriterTypeOK /\ WalkInv /\ AtRest /\ BuffersInv /\ FileInv /\ ImageLeft

(* Write resizes to as many pixels as are compressed, and they fit in      *)
(* temp; the columns from the ninth on are at least one too few, and at    *)
(* most eight.                                                             *)
LEMMA StrideFits ==
    ASSUME NEW w \in Writers
    PROVE  LET h == IMAGE_HEIGHT \div w.factor
               n == IMAGE_WIDTH \div w.factor
           IN  /\ Stride(w) \in Nat /\ ByEight(n) \in Nat /\ n \in Nat /\ h \in Nat
               /\ Pixels(w) \in Nat
               /\ w.factor > 1 => Stride(w) = channel * ByEight(n)
               /\ w.factor > 1 => Pixels(w) = h * Stride(w)
               /\ w.factor > 1 => Pixels(w) <= SetMaxDataSize(IMAGE_WIDTH, IMAGE_HEIGHT)
               /\ (8 + ByEight(n)) - n \in 1..8
<1> DEFINE h == IMAGE_HEIGHT \div w.factor
           n == IMAGE_WIDTH \div w.factor
           s == ByEight(n)
<1>1. /\ w.width = IMAGE_WIDTH /\ w.height = IMAGE_HEIGHT
      /\ IMAGE_WIDTH \in Nat /\ IMAGE_HEIGHT \in Nat
      /\ n \in Nat /\ n <= IMAGE_WIDTH /\ h \in Nat /\ h <= IMAGE_HEIGHT
    BY WriterSizes
<1>2. Stride(w) = IF w.factor > 1 THEN 3 * s ELSE 0
    BY <1>1 DEF Stride, channel
<1>3. Pixels(w) = IF w.factor > 1 THEN Stride(w) * h ELSE 3 * IMAGE_WIDTH * IMAGE_HEIGHT
    BY <1>1 DEF Pixels, channel
<1> HIDE DEF h, n
<1>4. s \in Nat /\ s <= n /\ (8 + s) - n \in 1..8
    BY <1>1 DEF ByEight
<1> HIDE DEF s
<1>5. h * s \in Nat /\ IMAGE_HEIGHT * IMAGE_WIDTH \in Nat /\ h * s <= IMAGE_HEIGHT * IMAGE_WIDTH
    BY <1>1, <1>4, ProductBelow
<1>6. /\ (3 * s) * h = 3 * (h * s) /\ h * (3 * s) = 3 * (h * s)
      /\ IMAGE_WIDTH * IMAGE_HEIGHT = IMAGE_HEIGHT * IMAGE_WIDTH
      /\ 3 * IMAGE_WIDTH * IMAGE_HEIGHT = 3 * (IMAGE_HEIGHT * IMAGE_WIDTH)
    BY <1>1, <1>4
<1>7. SetMaxDataSize(IMAGE_WIDTH, IMAGE_HEIGHT) = (IMAGE_HEIGHT * IMAGE_WIDTH) * 3 + 1024
    BY <1>6 DEF SetMaxDataSize, channel
<1>8. CASE w.factor > 1
  <2>1. Stride(w) = 3 * s /\ Pixels(w) = 3 * (h * s) /\ h * Stride(w) = 3 * (h * s)
      BY <1>2, <1>3, <1>6, <1>8
  <2> QED BY <2>1, <1>1, <1>4, <1>5, <1>7 DEF h, n, s, channel
<1>9. CASE ~(w.factor > 1)
  <2>1. Stride(w) = 0 /\ Pixels(w) = 3 * (IMAGE_HEIGHT * IMAGE_WIDTH)
      BY <1>2, <1>3, <1>6, <1>9
  <2> QED BY <2>1, <1>1, <1>4, <1>5, <1>9 DEF h, n, s
<1> QED BY <1>8, <1>9

(* Every row that is compressed ends within the pixels; when nothing is    *)
(* resized, they all are the first.                                        *)
LEMMA RowFits ==
    ASSUME NEW w \in Writers, NEW row \in Nat, row < IMAGE_HEIGHT \div w.factor
    PROVE  LET end == row * Stride(w) + channel * ByEight(IMAGE_WIDTH \div w.factor)
           IN  end \in Nat /\ end <= Pixels(w)
<1> DEFINE h == IMAGE_HEIGHT \div w.factor
           n == IMAGE_WIDTH \div w.factor
           t == Stride(w)
<1>1. /\ t \in Nat /\ ByEight(n) \in Nat /\ ByEight(n) <= n /\ n \in Nat /\ h \in Nat
      /\ w.factor > 1 => t = channel * ByEight(n) /\ Pixels(w) = h * t
      /\ w.width = IMAGE_WIDTH /\ w.height = IMAGE_HEIGHT /\ w.height \in Nat \ {0}
      /\ IMAGE_WIDTH \in Nat /\ IMAGE_HEIGHT \in Nat /\ n <= IMAGE_WIDTH
    BY StrideFits, WriterSizes, EightBelow, WritersAssumption
<1>2. CASE w.factor > 1
  <2> HIDE DEF h, n, t
  <2>1. (row + 1) * t \in Nat /\ h * t \in Nat /\ (row + 1) * t <= h * t
      BY <1>1, ProductBelow DEF h
  <2>2. (row + 1) * t = row * t + t /\ row * t \in Nat
      BY <1>1
  <2> QED BY <2>1, <2>2, <1>1, <1>2 DEF h, n, t
<1>3. CASE ~(w.factor > 1)
  <2>1. t = 0 /\ Pixels(w) = 3 * IMAGE_WIDTH * IMAGE_HEIGHT
      BY <1>1, <1>3 DEF Stride, Pixels, channel
  <2> HIDE DEF h, n, t
  <2>2. IMAGE_WIDTH * 1 \in Nat /\ IMAGE_WIDTH * IMAGE_HEIGHT \in Nat
        /\ IMAGE_WIDTH * 1 <= IMAGE_WIDTH * IMAGE_HEIGHT
      BY <1>1, ProductBelow
  <2>3. IMAGE_WIDTH * 1 = IMAGE_WIDTH /\ row * 0 = 0
        /\ 3 * IMAGE_WIDTH * IMAGE_HEIGHT = 3 * (IMAGE_WIDTH * IMAGE_HEIGHT)
      BY <1>1
  <2>4. row * t + channel * ByEight(n) = 3 * ByEight(n)
      BY <2>1, <2>3, <1>1 DEF channel
  <2>5. 3 * ByEight(n) \in Nat /\ 3 * ByEight(n) <= Pixels(w)
      BY <2>1, <2>2, <2>3, <1>1
  <2> QED BY <2>4, <2>5 DEF n, t
<1> QED BY <1>2, <1>3

LEMMA WriterStarts == WriterInit => WriterInv
<1> SUFFICES ASSUME WriterInit PROVE WriterInv
    OBVIOUS
<1>1. writer \in Writers /\ data_len \in DataLengths /\ max_data_size \in Nat
    BY WriterSizes DEF WriterInit
<1>2. WalkInv
    BY StartsRight DEF WriterInit, AtStart
<1>3. WriterTypeOK
    BY <1>1, <1>2, BoundAssumption DEF WriterInit, WriterTypeOK, WalkInv
<1>4. AtRest /\ BuffersInv /\ FileInv /\ ImageLeft
    BY DEF WriterInit, AtRest, BuffersInv, FileInv, ImageLeft
<1> QED BY <1>2, <1>3, <1>4 DEF WriterInv

(* The actions, as to the walk: it begins from the start, goes on, is      *)
(* reset, or nothing of it changes.                                        *)
LEMMA WriterWalks ==
    ASSUME WriterInv, [WriterNext]_allVars
    PROVE  WalkInv' /\ AtRest'
<1>1. AtStart' => WalkInv'
    BY StartsRight, PTL
<1>2. UNCHANGED vars => WalkInv'
    BY WalkStep DEF WriterInv
<1>3. ASSUME UNCHANGED vars, AtRest, control # "walk" \/ UNCHANGED control PROVE AtRest'
    BY <1>3 DEF vars, AtRest
<1>4. CASE Initialize \/ Write \/ OpenFails \/ WriteRow \/ Delete \/ UNCHANGED allVars
  <2>1. UNCHANGED vars /\ (control # "walk" \/ UNCHANGED control)
      BY <1>4 DEF Initialize, Write, OpenFails, WriteRow, Delete, Goes, allVars
  <2> QED BY <2>1, <1>2, <1>3 DEF WriterInv
<1>5. ASSUME NEW size \in DataLengths, FinishFile(size) PROVE WalkInv' /\ AtRest'
  <2>1. AtRest /\ control = "rows"
      BY <1>5 DEF WriterInv, FinishFile, Goes
  <2>2. CASE control' = "walk"
    <3>1. AtStart'
        BY <1>5, <2>1, <2>2 DEF FinishFile, Goes, AtRest, AtStart
    <3> QED BY <3>1, <2>2, <1>1 DEF AtRest
  <2>3. CASE control' # "walk"
    <3>1. UNCHANGED vars
        BY <1>5, <2>3 DEF FinishFile, Goes
    <3> QED BY <3>1, <2>1, <1>2, <1>3
  <2> QED BY <2>2, <2>3
<1>6. CASE Walk
  <2>1. Next /\ control' = "walk"
      BY <1>6 DEF Walk
  <2> QED BY <2>1, WalkStep DEF WriterInv, AtRest
<1>7. CASE StreamImage
  <2>1. data_len \in DataLengths
      BY DEF WriterInv, WalkInv, TypeOK
  <2>2. AtStart' /\ AtRest'
      BY <1>7, <2>1 DEF StreamImage, AtStart, AtRest
  <2> QED BY <2>2, <1>1
<1> QED BY <1>4, <1>5, <1>6, <1>7 DEF WriterNext

LEMMA WriterSizesKept ==
    ASSUME WriterInv, [WriterNext]_allVars
    PROVE  BuffersInv' /\ FileInv'
<1>0. /\ writer \in Writers /\ writer' = writer
      /\ max_data_size \in Nat /\ y \in Nat /\ y <= cinfo.height
      /\ BuffersInv /\ FileInv
    BY DEF WriterInv, WriterTypeOK, WriterNext, allVars, buffers, Initialize, Write, OpenFails,
           WriteRow, FinishFile, Walk, StreamImage, Delete
<1>1. /\ Stride(writer) \in Nat /\ JpegWidth \in Nat /\ Pixels(writer) \in Nat
      /\ IMAGE_HEIGHT \div writer.factor \in Nat
      /\ writer.width = IMAGE_WIDTH /\ writer.height = IMAGE_HEIGHT
      /\ (8 + JpegWidth) - (IMAGE_WIDTH \div writer.factor) \in 1..8
    BY <1>0, StrideFits, WriterSizes DEF JpegWidth
<1>2. /\ JpegWidth' = JpegWidth /\ (Resized <=> Resized')
      /\ Stride(writer)' = Stride(writer) /\ Pixels(writer)' = Pixels(writer)
    BY <1>0 DEF JpegWidth, Resized, Stride, Pixels
<1>3. BuffersInv'
  <2>1. CASE Initialize
      BY <1>0, <2>1 DEF Initialize, Goes, BuffersInv
  <2>2. CASE Delete
      BY <1>0, <2>2 DEF Delete, Goes, BuffersInv
  <2>3. CASE Write \/ OpenFails \/ WriteRow \/ Walk \/ StreamImage \/ UNCHANGED allVars
      BY <1>0, <2>3 DEF Write, OpenFails, WriteRow, Walk, StreamImage, Goes, BuffersInv, buffers, allVars
  <2>4. ASSUME NEW size \in DataLengths, FinishFile(size) PROVE BuffersInv'
      BY <1>0, <2>4 DEF FinishFile, Goes, BuffersInv, buffers
  <2> QED BY <2>1, <2>2, <2>3, <2>4 DEF WriterNext
<1>4. FileInv'
  <2>1. CASE Write
    <3>1. stride' = Stride(writer)
        BY <2>1 DEF Write, Stride, Resized, TempWidth
    <3>2. /\ cinfo' = [width |-> JpegWidth, height |-> IMAGE_HEIGHT \div writer.factor]
          /\ readTo' = 0
        BY <2>1, <1>1 DEF Write, BeginFile
    <3>3. pixels' = Pixels(writer)
        BY <2>1, <3>1 DEF Write, Pixels, Resized
    <3>4. BehindRightEdge \in 1..8
        BY <1>1 DEF BehindRightEdge, XOffset, TempWidth, JpegWidth
    <3>5. beyond' \in 0..8 /\ (Resized => beyond' \in 1..8)
        BY <2>1, <3>4 DEF Write
    <3>6. readTo' <= pixels'
        BY <1>1, <3>2, <3>3
    <3> QED BY <1>0, <1>2, <3>1, <3>2, <3>3, <3>5, <3>6 DEF FileInv
  <2>2. CASE WriteRow
    <3>1. /\ control = "rows" /\ y < cinfo.height
          /\ readTo' = y * stride + channel * cinfo.width
        BY <2>2 DEF WriteRow
    <3>2. UNCHANGED <<stride, cinfo, pixels, beyond, control>>
        BY <2>2 DEF WriteRow
    <3>3. /\ stride = Stride(writer) /\ pixels = Pixels(writer)
          /\ cinfo = [width |-> JpegWidth, height |-> IMAGE_HEIGHT \div writer.factor]
          /\ beyond \in 0..8 /\ (Resized => beyond \in 1..8)
        BY <1>0, <3>1 DEF FileInv
    <3>4. readTo' <= pixels'
        BY <1>0, <3>1, <3>2, <3>3, RowFits DEF JpegWidth
    <3> QED BY <1>0, <1>2, <3>2, <3>3, <3>4 DEF FileInv
  <2>3. ASSUME UNCHANGED file,
               control \in {"rows", "walk"} \/ control' \notin {"rows", "walk"}
        PROVE  FileInv'
      BY <1>0, <1>2, <2>3 DEF file, FileInv
  <2>4. CASE Initialize \/ OpenFails \/ Walk \/ StreamImage \/ Delete \/ UNCHANGED allVars
    <3>1. UNCHANGED file
        BY <2>4 DEF Initialize, OpenFails, Walk, StreamImage, Delete, allVars
    <3>2. control \in {"rows", "walk"} \/ control' \notin {"rows", "walk"}
        BY <2>4 DEF Initialize, OpenFails, Walk, StreamImage, Delete, Goes, allVars
    <3> QED BY <3>1, <3>2, <2>3
  <2>5. ASSUME NEW size \in DataLengths, FinishFile(size) PROVE FileInv'
      BY <2>3, <2>5 DEF FinishFile, Goes
  <2> QED BY <2>1, <2>2, <2>4, <2>5 DEF WriterNext
<1> QED BY <1>3, <1>4

LEMMA WriterTyped ==
    ASSUME WriterInv, [WriterNext]_allVars
    PROVE  WriterTypeOK' /\ ImageLeft'
<1>0. /\ ImageLeft /\ writer \in Writers /\ writer' = writer /\ WriterTypeOK
      /\ BuffersInv /\ FileInv /\ BuffersInv' /\ FileInv' /\ TypeOK'
    BY WriterSizesKept, WriterWalks
    DEF WriterInv, WriterTypeOK, WalkInv, WriterNext, allVars, buffers, Initialize, Write,
        OpenFails, WriteRow, FinishFile, Walk, StreamImage, Delete
<1>1. /\ writer.width = IMAGE_WIDTH /\ writer.height = IMAGE_HEIGHT
      /\ SetMaxDataSize(IMAGE_WIDTH, IMAGE_HEIGHT) \in Nat
      /\ Stride(writer) \in Nat /\ JpegWidth \in Nat /\ Pixels(writer) \in Nat
      /\ IMAGE_HEIGHT \div writer.factor \in Nat
    BY <1>0, StrideFits, WriterSizes DEF JpegWidth
<1>2. control' \in {"new", "idle", "rows", "walk", "deleted", "exited"}
    BY <1>0 DEF WriterTypeOK, WriterNext, allVars, Initialize, Write, OpenFails, WriteRow,
                FinishFile, Walk, StreamImage, Delete, Goes
<1>3. max_data_size' \in Nat /\ allocated' \in {0, max_data_size'}
    BY <1>0, <1>1 DEF BuffersInv, SetMaxDataSize
<1>4. /\ JpegWidth' = JpegWidth /\ Stride(writer)' = Stride(writer)
      /\ Pixels(writer)' = Pixels(writer)
      /\ (IMAGE_HEIGHT \div writer.factor)' = IMAGE_HEIGHT \div writer.factor
    BY <1>0 DEF JpegWidth, Stride, Pixels
<1>5. /\ cinfo' \in [width : Nat, height : Nat] /\ stride' \in Nat /\ pixels' \in Nat
      /\ beyond' \in Nat
    BY <1>1, <1>4, <1>0 DEF FileInv
<1>6. y' \in 0..cinfo'.height /\ readTo' \in Nat /\ images' \in 0..MaxImages
  <2>1. CASE Write
      BY <1>0, <1>5, <2>1 DEF Write, BeginFile, WriterTypeOK
  <2>2. CASE WriteRow
    <3>1. /\ y \in Nat /\ y < cinfo.height /\ cinfo.height \in Nat /\ cinfo.width \in Nat
          /\ stride \in Nat
        BY <1>0, <2>2 DEF WriteRow, WriterTypeOK
    <3>2. y * stride \in Nat
        BY <3>1
    <3> QED BY <1>0, <2>2, <3>1, <3>2 DEF WriteRow, WriterTypeOK, channel
  <2>3. CASE Initialize \/ OpenFails \/ Walk \/ StreamImage \/ Delete \/ UNCHANGED allVars
      BY <1>0, <2>3 DEF Initialize, OpenFails, Walk, StreamImage, Delete, allVars, file, WriterTypeOK
  <2>4. ASSUME NEW size \in DataLengths, FinishFile(size)
        PROVE  y' \in 0..cinfo'.height /\ readTo' \in Nat /\ images' \in 0..MaxImages
    <3>1. images < MaxImages /\ images \in Nat /\ images' \in {images, images + 1}
        BY <1>0, <2>4 DEF FinishFile, Goes, ImageLeft, WriterTypeOK
    <3> QED BY <1>0, <2>4, <3>1, BoundAssumption DEF FinishFile, file, WriterTypeOK
  <2> QED BY <2>1, <2>2, <2>3, <2>4 DEF WriterNext
<1>7. ImageLeft'
    BY <1>0 DEF ImageLeft, WriterNext, allVars, Initialize, Write, OpenFails, WriteRow, FinishFile,
                Walk, StreamImage, Delete, Goes
<1> QED BY <1>0, <1>2, <1>3, <1>5, <1>6, <1>7 DEF WriterTypeOK

LEMMA WriterInvariance == WriterSpec => []WriterInv
<1>1. WriterInv /\ [WriterNext]_allVars => WriterInv'
    BY WriterTyped, WriterWalks, WriterSizesKept DEF WriterInv
<1> QED BY <1>1, WriterStarts, PTL DEF WriterSpec

------------------------------------------------------------------------------
(***************************************************************************)
(* The theorems on the writer.                                             *)
(***************************************************************************)

(* Every variable of the writer keeps its type; the loop over the rows     *)
(* never goes on behind the height of the image.                           *)
THEOREM WriterTypeCorrect == WriterSpec => []WriterTypeOK
<1>1. WriterInv => WriterTypeOK
    BY DEF WriterInv
<1> QED BY <1>1, WriterInvariance, PTL

(* What holds of one walk holds of the walk over every image of a writer:  *)
(* the right header, the bound on what is read, the room in front.         *)
THEOREM EveryWalkCorrect == WriterSpec => [](FindsHeader /\ ReadsBounded /\ HeaderFits)
<1>1. WriterInv => FindsHeader /\ ReadsBounded /\ HeaderFits
    BY WalkRight DEF WriterInv
<1> QED BY <1>1, WriterInvariance, PTL

(* No turn of any of these walks stands still. *)
THEOREM EveryWalkAdvances == WriterSpec => WalkAdvances
<1>1. WriterInv /\ [WriterNext]_allVars =>
          [\/ pc' = "failed" \/ (buf' >= buf + 2 /\ buf' <= data_len)
           \/ ~(pc \in Expecting)]_vars
  <2> SUFFICES ASSUME WriterInv, [WriterNext]_allVars
               PROVE  [\/ pc' = "failed" \/ (buf' >= buf + 2 /\ buf' <= data_len)
                       \/ ~(pc \in Expecting)]_vars
      OBVIOUS
  <2>1. CASE [Next]_vars
      BY <2>1, WalkOn DEF WriterInv
  <2>2. CASE pc = "failed" \/ pc' = "failed"
      BY <2>2 DEF Expecting
  <2>3. [Next]_vars \/ pc = "failed" \/ pc' = "failed"
      BY DEF WriterInv, AtRest, WriterNext, allVars, Initialize, Write, OpenFails, WriteRow,
             FinishFile, Walk, StreamImage, Delete, Goes
  <2> QED BY <2>1, <2>2, <2>3
<1> QED BY <1>1, WriterInvariance, PTL DEF WriterSpec, WalkAdvances

(* For camera images of any size and any sampling factor that leaves       *)
(* enough of them: the rows that are compressed lie in the memory that     *)
(* holds the pixels; what Write makes of a camera image fits in temp; and  *)
(* of each of its rows, which begin behind the first eight columns of the  *)
(* resized image, at least one column and at most eight are not of it.     *)
THEOREM RowsCorrect == WriterSpec => []RowsInSource
<1>1. ASSUME WriterInv PROVE RowsInSource
  <2>1. writer \in Writers /\ BuffersInv /\ FileInv
      BY <1>1 DEF WriterInv, WriterTypeOK
  <2>2. readTo <= pixels
      BY <2>1 DEF FileInv
  <2>3. ASSUME control = "rows", Resized PROVE pixels <= allocated /\ beyond \in 1..8
    <3>1. allocated = SetMaxDataSize(IMAGE_WIDTH, IMAGE_HEIGHT)
        BY <2>1, <2>3, WriterSizes DEF BuffersInv
    <3>2. pixels = Pixels(writer) /\ beyond \in 1..8
        BY <2>1, <2>3 DEF FileInv
    <3> QED BY <2>1, <2>3, <3>1, <3>2, StrideFits DEF Resized
  <2> QED BY <2>2, <2>3 DEF RowsInSource
<1> QED BY <1>1, WriterInvariance, PTL

(* The size that CameraView announces for an image is the size of the      *)
(* image that GetPayLoad walks over.                                       *)
THEOREM AnnouncedCorrect == WriterSpec => []AnnouncedRight
<1>1. ASSUME WriterInv, control = "walk"
      PROVE  /\ AnnouncedWidth = cinfo.width /\ AnnouncedWidth \div 8 \in 1..255
             /\ AnnouncedHeight \div 8 \in 1..255
             /\ Blocks(ByEight(AnnouncedHeight)) = Blocks(cinfo.height)
  <2> DEFINE n == IMAGE_WIDTH \div writer.factor
             h == IMAGE_HEIGHT \div writer.factor
  <2>1. writer \in Writers
      BY <1>1 DEF WriterInv, WriterTypeOK
  <2>2. cinfo.width = ByEight(n) /\ cinfo.height = h
      BY <1>1 DEF WriterInv, FileInv, JpegWidth
  <2>3. AnnouncedWidth = ByEight(n) /\ AnnouncedHeight = h
      BY DEF AnnouncedWidth, AnnouncedHeight
  <2>4. n \in 8..2047
      BY <2>1, CameraAssumption
  <2>5. h \in 8..2047
      BY <2>1, CameraAssumption
  <2>6. h % 16 \notin 1..7
      BY <2>1, CameraAssumption
  <2> HIDE DEF n, h
  <2>7. n \in Nat /\ n >= 8 /\ n <= 2047 /\ h \in Nat /\ h >= 8 /\ h <= 2047
      BY <2>4, <2>5
  <2>8. n \div 8 \in 1..255
      BY <2>7
  <2>9. h \div 8 \in 1..255
      BY <2>7
  <2>10. ByEight(n) \div 8 = n \div 8
      BY <2>7, EightBelow
  <2>11. Blocks(ByEight(h)) = Blocks(h)
      BY <2>6, <2>7, BlocksOfEight
  <2> QED BY <2>2, <2>3, <2>8, <2>9, <2>10, <2>11
<1>2. WriterInv => AnnouncedRight
    BY <1>1 DEF AnnouncedRight
<1> QED BY <1>2, WriterInvariance, PTL

==============================================================================
