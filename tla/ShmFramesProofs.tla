--------------------------- MODULE ShmFramesProofs ---------------------------
(***************************************************************************)
(* Theorems about ShmFrames, for any number of cameras and generators: the *)
(* semaphores are accounted for, and GetData implements FrameChannel.      *)
(*                                                                         *)
(* The invariant says who excludes whom from the memory of a camera, what  *)
(* that memory holds at each step of the camera process, and that what a   *)
(* generator has read so far is what the memory still holds: the last part *)
(* needs the first two, since only a process that holds the semaphore      *)
(* writes.                                                                 *)
(***************************************************************************)
EXTENDS ShmFrames, TLAPS

Inside(r, c) == gen[r] \in InCritical /\ index[r] = c

CameraInside(c) == camera[c] \notin {"idle", "dead"}

Exclusion ==
    \A c \in Cameras :
        /\ CameraInside(c) => mutex[c] = 0 /\ ~lost[c]
        /\ lost[c] => mutex[c] = 0
        /\ \A r \in Readers : Inside(r, c) =>
               /\ mutex[c] = 0 /\ ~lost[c] /\ ~CameraInside(c)
               /\ \A q \in Readers : Inside(q, c) => q = r
        /\ mutex[c] = 0 => CameraInside(c) \/ lost[c] \/ \E r \in Readers : Inside(r, c)

FrameInMemory ==
    \A c \in Cameras :
        /\ camera[c] \in {"idle", "dead", "head"} =>
               /\ shm[c].head = published[c] /\ shm[c].first = published[c]
               /\ shm[c].rest = published[c]
               /\ published[c] = 0 => ~shm[c].format.dims
        /\ camera[c] \in {"first", "rest", "post"} =>
               shm[c].head = published[c] + 1 /\ published[c] < MaxFrames
        /\ camera[c] \in {"rest", "post"} => shm[c].first = published[c] + 1
        /\ camera[c] = "post" => shm[c].rest = published[c] + 1
        /\ camera[c] = "head" => published[c] < MaxFrames

CopiedSoFar ==
    \A r \in Readers :
        /\ gen[r] = "check" => len[r] = shm[index[r]].format.len
        /\ gen[r] \in {"copy", "rest", "post"} =>
               len[r] = shm[index[r]].format.len /\ shm[index[r]].format.dims
        /\ gen[r] \in {"rest", "post"} =>
               /\ buffer[r].head = shm[index[r]].head
               /\ buffer[r].first = shm[index[r]].first
               /\ buffer[r].format = shm[index[r]].format
        /\ gen[r] = "post" => buffer[r].rest = shm[index[r]].rest

Inv == TypeOK /\ Exclusion /\ FrameInMemory /\ CopiedSoFar

------------------------------------------------------------------------------
LEMMA InitInv == Init => Inv
<1> SUFFICES ASSUME Init PROVE Inv
    OBVIOUS
<1> USE BoundsAssumption DEF Init, Empty, NoFormat, Frames, InCritical
<1>1. TypeOK
    BY DEF TypeOK
<1>2. Exclusion
    BY DEF Exclusion, CameraInside, Inside
<1>3. FrameInMemory
    BY DEF FrameInMemory
<1>4. CopiedSoFar
    BY DEF CopiedSoFar
<1> QED
    BY <1>1, <1>2, <1>3, <1>4 DEF Inv

(* Whatever the camera process does. *)
LEMMA CameraKeepsInv ==
    ASSUME Inv, NEW c \in Cameras, CameraRuns(c) \/ CameraEnters(c)
    PROVE  Inv'
<1> USE BoundsAssumption, FormatsAssumption DEF Inv, CameraGoes, readers, InCritical
<1>1. CASE CameraWaits(c) /\ UNCHANGED <<readers, restarts, lost>>
  <2> USE <1>1 DEF CameraWaits
  <2>1. TypeOK'
      BY DEF TypeOK
  <2>2. Exclusion'
      BY DEF TypeOK, Exclusion, CameraInside, Inside
  <2>3. FrameInMemory'
      BY DEF TypeOK, FrameInMemory
  <2>4. CopiedSoFar'
      BY DEF TypeOK, CopiedSoFar
  <2> QED
      BY <2>1, <2>2, <2>3, <2>4
<1>2. CASE CameraWrites(c) /\ UNCHANGED <<readers, restarts, lost>>
  <2> USE <1>2 DEF CameraWrites
  <2>0. shm' \in [Cameras -> Frames]
    <3> DEFINE Written(m) == shm' = [shm EXCEPT ![c] = m]
    <3>1. shm[c] \in Frames /\ published[c] + 1 \in Nat
        BY DEF TypeOK
    <3>2. \E m \in Frames : Written(m)
        BY <3>1 DEF Frames
    <3> QED
        BY <3>2 DEF TypeOK
  <2>1. TypeOK'
      BY <2>0 DEF TypeOK
  <2>2. Exclusion'
      BY DEF TypeOK, Exclusion, CameraInside, Inside
  <2>3. FrameInMemory'
      BY DEF TypeOK, Frames, FrameInMemory
  <2>4. \A r \in Readers : Inside(r, index[r]) => index[r] # c
      BY DEF TypeOK, Exclusion, CameraInside, Inside
  <2>5. \A d \in Cameras : d # c => shm'[d] = shm[d]
      BY DEF TypeOK
  <2>6. CopiedSoFar'
      BY <2>4, <2>5 DEF TypeOK, CopiedSoFar, Inside
  <2> QED
      BY <2>1, <2>2, <2>3, <2>6
<1>3. CASE CameraPosts(c) /\ UNCHANGED <<readers, restarts, lost>>
  <2> USE <1>3 DEF CameraPosts
  <2>1. TypeOK'
      BY DEF TypeOK, Exclusion, CameraInside, FrameInMemory
  <2>2. Exclusion'
      BY DEF TypeOK, Exclusion, CameraInside, Inside
  <2>3. FrameInMemory'
      BY DEF TypeOK, FrameInMemory
  <2>4. CopiedSoFar'
      BY DEF TypeOK, CopiedSoFar
  <2> QED
      BY <2>1, <2>2, <2>3, <2>4
<1>4. CASE CameraDies(c) /\ UNCHANGED <<readers, restarts, lost>>
  <2> USE <1>4 DEF CameraDies, memory
  <2>1. TypeOK'
      BY DEF TypeOK
  <2>2. Exclusion'
      BY DEF TypeOK, Exclusion, CameraInside, Inside
  <2>3. FrameInMemory'
      BY DEF TypeOK, FrameInMemory
  <2>4. CopiedSoFar'
      BY DEF TypeOK, CopiedSoFar
  <2> QED
      BY <2>1, <2>2, <2>3, <2>4
<1> QED
    BY <1>1, <1>2, <1>3, <1>4 DEF CameraRuns, CameraEnters

LEMMA FormatType == \A m \in Frames : m.format \in [len : Nat, dims : BOOLEAN]
<1> DEFINE F == Formats \cup {NoFormat}
<1>0. NoFormat \in [len : Nat, dims : BOOLEAN]
    BY DEF NoFormat
<1>1. F \subseteq [len : Nat, dims : BOOLEAN]
    BY <1>0, FormatsAssumption, Zenon
<1>2. \A m \in Frames : m.format \in F
    BY DEF Frames
<1> QED
    BY <1>1, <1>2

(* Whatever a generator does. *)
LEMMA GeneratorKeepsInv ==
    ASSUME Inv, NEW r \in Readers,
           GeneratorRuns(r) \/ GeneratorEnters(r) \/ GeneratorCalls(r)
    PROVE  Inv'
<1> USE DEF Inv, Goes, memory, Outside, InCritical
<1>0. Outside
    BY DEF GeneratorRuns, GeneratorEnters, GeneratorCalls
<1> USE <1>0
<1>1. CASE \E c \in Cameras : CallGetData(r, c)
  <2> USE <1>1 DEF CallGetData
  <2>1. TypeOK'
      BY DEF TypeOK
  <2>2. Exclusion'
      BY DEF TypeOK, Exclusion, CameraInside, Inside
  <2>3. FrameInMemory'
      BY DEF TypeOK, FrameInMemory
  <2>4. CopiedSoFar'
      BY DEF TypeOK, CopiedSoFar
  <2> QED
      BY <2>1, <2>2, <2>3, <2>4
<1>2. CASE SemWait(r)
  <2> USE <1>2 DEF SemWait
  <2>1. TypeOK'
      BY DEF TypeOK
  <2>2. Exclusion'
      BY DEF TypeOK, Exclusion, CameraInside, Inside
  <2>3. FrameInMemory'
      BY DEF TypeOK, FrameInMemory
  <2>4. CopiedSoFar'
      BY DEF TypeOK, CopiedSoFar
  <2> QED
      BY <2>1, <2>2, <2>3, <2>4
<1>3. CASE ReadLen(r) \/ AcceptFrame(r) \/ CopyFirst(r) \/ CopyRest(r)
  <2> USE <1>3, FormatsAssumption
          DEF ReadLen, AcceptFrame, GoodFormat, CopyFirst, CopyRest, NoFormat
  <2>0. /\ shm[index[r]] \in Frames /\ buffer[r] \in Frames
        /\ shm[index[r]].format \in [len : Nat, dims : BOOLEAN]
      BY FormatType DEF TypeOK
  <2>1. TypeOK'
    <3> DEFINE Copied(m) == buffer' = [buffer EXCEPT ![r] = m]
    <3>1. UNCHANGED buffer \/ \E m \in Frames : Copied(m)
      <4>1. CASE CopyFirst(r)
          BY <2>0, <4>1 DEF Frames, TypeOK
      <4>2. CASE CopyRest(r)
          BY <2>0, <4>2 DEF Frames, TypeOK
      <4> QED
          BY <4>1, <4>2
    <3>2. buffer' \in [Readers -> Frames]
        BY <3>1 DEF TypeOK
    <3> QED
        BY <2>0, <3>2 DEF TypeOK
  <2>2. Exclusion'
      BY DEF TypeOK, Exclusion, CameraInside, Inside
  <2>3. FrameInMemory'
      BY DEF TypeOK, FrameInMemory
  <2>4. CopiedSoFar'
      BY DEF TypeOK, Frames, CopiedSoFar
  <2> QED
      BY <2>1, <2>2, <2>3, <2>4
<1>4. CASE RejectFrame(r) \/ Post(r)
  <2> USE <1>4 DEF RejectFrame, Post
  <2>0. Inside(r, index[r]) /\ mutex[index[r]] = 0
      BY DEF TypeOK, Exclusion, Inside
  <2>1. TypeOK'
      BY <2>0 DEF TypeOK
  <2>2. Exclusion'
      BY <2>0 DEF TypeOK, Exclusion, CameraInside, Inside
  <2>3. FrameInMemory'
      BY DEF TypeOK, FrameInMemory
  <2>4. CopiedSoFar'
      BY DEF TypeOK, CopiedSoFar
  <2> QED
      BY <2>1, <2>2, <2>3, <2>4
<1> QED
    BY <1>1, <1>2, <1>3, <1>4 DEF GeneratorRuns, InGetData, GeneratorEnters, GeneratorCalls

(* The death of the node and the start of another. *)
LEMMA RestartKeepsInv == ASSUME Inv, RestartNode PROVE Inv'
<1> USE BoundsAssumption DEF Inv, RestartNode, memory, InCritical
<1>1. TypeOK'
    BY DEF TypeOK, Frames, Empty, NoFormat
<1>2. Exclusion'
  <2>1. \A c \in Cameras : lost'[c] <=> lost[c] \/ \E r \in Readers : Inside(r, c)
      BY DEF TypeOK, Inside
  <2>2. \A r \in Readers, c \in Cameras : ~Inside(r, c)'
      BY DEF Inside
  <2>3. \A c \in Cameras : CameraInside(c)' <=> CameraInside(c)
      BY DEF CameraInside
  <2> QED
      BY <2>1, <2>2, <2>3 DEF Exclusion
<1>3. FrameInMemory'
    BY DEF TypeOK, FrameInMemory
<1>4. CopiedSoFar'
    BY DEF TypeOK, CopiedSoFar
<1> QED
    BY <1>1, <1>2, <1>3, <1>4

LEMMA StutterKeepsInv == ASSUME Inv, UNCHANGED vars PROVE Inv'
BY DEF Inv, TypeOK, Exclusion, CameraInside, Inside, FrameInMemory, CopiedSoFar, vars,
       memory, readers

LEMMA Invariance == Spec => []Inv
<1>1. Inv /\ [Next]_vars => Inv'
    BY CameraKeepsInv, GeneratorKeepsInv, RestartKeepsInv, StutterKeepsInv DEF Next
<1> QED
    BY InitInv, <1>1, PTL DEF Spec

------------------------------------------------------------------------------
(* Every variable of ShmFrames keeps its type. *)
THEOREM TypeCorrect == Spec => []TypeOK
BY Invariance, PTL DEF Inv

(* The value of a semaphore and its holders, the dead ones included, agree *)
(* at any time, whoever dies where and however often the node restarts.    *)
THEOREM SemaphoreCorrect == Spec => []SemaphoreAccounted
<1>1. ASSUME Inv PROVE SemaphoreAccounted
  <2> SUFFICES ASSUME NEW c \in Cameras
               PROVE  /\ mutex[c] = 1 <=> Holders(c) = {}
                      /\ \A p, q \in Holders(c) : p = q
      BY DEF SemaphoreAccounted
  <2>0. \A p : p \in Holders(c) <=>
            \/ \E r \in Readers : Inside(r, c) /\ p = <<"generator", r>>
            \/ CameraInside(c) /\ p = <<"camera", c>>
            \/ lost[c] /\ p = <<"lost", c>>
      BY DEF Holders, Inside, CameraInside
  <2>1. mutex[c] \in 0..1
      BY <1>1 DEF Inv, TypeOK
  <2>2. mutex[c] = 1 <=> Holders(c) = {}
    <3>1. mutex[c] = 0 <=> CameraInside(c) \/ lost[c] \/ \E r \in Readers : Inside(r, c)
        BY <1>1 DEF Inv, Exclusion
    <3>2. Holders(c) = {} <=> ~(CameraInside(c) \/ lost[c] \/ \E r \in Readers : Inside(r, c))
        BY <2>0
    <3> QED
        BY <2>1, <3>1, <3>2
  <2>3. \A p, q \in Holders(c) : p = q
      BY <1>1, <2>0 DEF Inv, Exclusion
  <2> QED
      BY <2>2, <2>3
<1> QED
    BY <1>1, Invariance, PTL

(* A step of the system is a step of FrameChannel, or none. *)
LEMMA StepImplements == ASSUME Inv, [Next]_vars PROVE [Channel!Next]_<<published, image>>
<1>1. ASSUME NEW c \in Cameras, CameraRuns(c) \/ CameraEnters(c)
      PROVE  Channel!Publish(c) \/ UNCHANGED <<published, image>>
    BY <1>1 DEF CameraRuns, CameraEnters, CameraWaits, CameraWrites, CameraPosts, CameraDies,
                readers, Channel!Publish
<1>2. ASSUME NEW r \in Readers, Post(r), Outside
      PROVE  Channel!Take(r, index[r])
  <2>1. /\ index[r] \in Cameras /\ Inside(r, index[r]) /\ len[r] = shm[index[r]].format.len
        /\ published[index[r]] \in Nat /\ ~CameraInside(index[r])
      BY <1>2 DEF Post, Goes, Inv, TypeOK, Inside, InCritical, CopiedSoFar, Exclusion
  <2>2. /\ shm[index[r]].head = published[index[r]] /\ shm[index[r]].format.dims
        /\ shm[index[r]].first = published[index[r]] /\ shm[index[r]].rest = published[index[r]]
        /\ published[index[r]] # 0
      BY <1>2, <2>1 DEF Post, Goes, Inv, CopiedSoFar, FrameInMemory, CameraInside
  <2>3. Whole(r) /\ buffer[r].head = published[index[r]]
      BY <1>2, <2>1, <2>2 DEF Post, Goes, Inv, CopiedSoFar, Whole
  <2> QED
      BY <1>2, <2>1, <2>2, <2>3 DEF Post, Outside, Channel!Take
<1>3. ASSUME NEW r \in Readers, GeneratorRuns(r) \/ GeneratorEnters(r) \/ GeneratorCalls(r),
             ~Post(r)
      PROVE  UNCHANGED <<published, image>>
    BY <1>3 DEF GeneratorRuns, InGetData, GeneratorEnters, GeneratorCalls, Outside, ReadLen,
                RejectFrame, AcceptFrame, CopyFirst, CopyRest, SemWait, CallGetData
<1>4. ASSUME RestartNode PROVE Channel!Forget
    BY <1>4 DEF RestartNode, Channel!Forget
<1>5. ASSUME NEW r \in Readers, GeneratorRuns(r) \/ GeneratorEnters(r) \/ GeneratorCalls(r)
      PROVE  [Channel!Next]_<<published, image>>
  <2>1. Outside /\ (Post(r) => index[r] \in Cameras)
      BY <1>5 DEF GeneratorRuns, GeneratorEnters, GeneratorCalls, Inv, TypeOK
  <2> QED
      BY <1>2, <1>3, <1>5, <2>1 DEF Channel!Next
<1>6. UNCHANGED vars => UNCHANGED <<published, image>>
    BY DEF vars, readers
<1> QED
    BY <1>1, <1>4, <1>5, <1>6 DEF Next, Channel!Next

(* GetData and its semaphore implement the channel that hands out whole    *)
(* and newest frames, for any number of cameras and generators.            *)
THEOREM ChannelCorrect == Spec => FramesWhole
<1>1. Init => Channel!Init
    BY DEF Init, Channel!Init
<1> QED
    BY <1>1, StepImplements, Invariance, PTL DEF Spec, FramesWhole, Channel!Spec


(* Who waits for a semaphore waits for another who runs: a camera process  *)
(* or a copy that holds it, and in neither critical section is there       *)
(* anything to wait for.                                                   *)
WaitGoesOn ==
    \A r \in Readers :
        LET c == index[r]
        IN  gen[r] = "wait" /\ ~DiedInside(c) =>
                \/ mutex[c] = 1
                \/ camera[c] \in {"head", "first", "rest", "post"}
                \/ \E q \in Readers \ {r} : Inside(q, c)

(* THEOREM: a generator waits for ever only if a process died in the       *)
(* critical section of its camera: else the semaphore is free, or in the   *)
(* hands of a process or a thread that goes straight on to give it back.   *)
(* This is what WaitsEnd needs beside fairness.                            *)
THEOREM WaitCorrect == Spec => []WaitGoesOn
<1>1. Inv => WaitGoesOn
    <2> SUFFICES ASSUME Inv, NEW r \in Readers, gen[r] = "wait", ~DiedInside(index[r]),
                        mutex[index[r]] # 1
                 PROVE  \/ camera[index[r]] \in {"head", "first", "rest", "post"}
                        \/ \E q \in Readers \ {r} : Inside(q, index[r])
        BY DEF WaitGoesOn
    <2> DEFINE c == index[r]
    <2>1. c \in Cameras /\ mutex[c] = 0 /\ ~lost[c] /\ camera[c] # "lost"
        BY DEF Inv, TypeOK, DiedInside
    <2>2. CameraInside(c) \/ \E q \in Readers : Inside(q, c)
        BY <2>1 DEF Inv, Exclusion
    <2>3. ~Inside(r, c)
        BY DEF Inside, InCritical
    <2> QED BY <2>1, <2>2, <2>3 DEF Inv, TypeOK, CameraInside
<1> QED BY <1>1, Invariance, PTL

==============================================================================
