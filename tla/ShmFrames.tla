------------------------------ MODULE ShmFrames ------------------------------
(***************************************************************************)
(* The frames in shared memory.  The camera process writes the header and  *)
(* the data of a frame while it holds the semaphore of the camera, and     *)
(* ShmManager::GetData copies them while it does.  GetData reads the       *)
(* length of the frame twice, once to return it and once to copy.          *)
(*                                                                         *)
(* The semaphores are named: they outlive the processes.  A process that   *)
(* dies while it holds one leaves it taken, and the node that starts next  *)
(* opens it as it is.                                                      *)
(***************************************************************************)
EXTENDS Naturals, FiniteSets

CONSTANTS
    Cameras, Readers,
    SIZE,          \* bytes of the pixels of a frame
    Formats,       \* headers that a camera may write: length, and right dimensions
    MaxFrames,     \* bound: frames of each camera
    MaxRestarts    \* bound: deaths of the node

ASSUME FormatsAssumption == Formats \subseteq [len : Nat, dims : BOOLEAN]
ASSUME BoundsAssumption == SIZE \in Nat \ {0} /\ MaxFrames \in Nat /\ MaxRestarts \in Nat

VARIABLES
    mutex,      \* values of the semaphores
    shm,        \* the memory of each camera
    camera,     \* control of each camera
    gen,        \* control of GetData in each generator
    index,      \* the camera it is called for
    len,        \* its local variable
    buffer,     \* of each generator
    restarts,
    lost,       \* history: the node died in a critical section of the camera
    published,  \* history: frames that the camera has given free
    image       \* history: what each generator passes on to Write, or <<>>

memory == <<mutex, shm>>
readers == <<gen, index, len, buffer, image>>
vars == <<memory, camera, readers, restarts, lost, published>>

NoFormat == [len |-> 0, dims |-> FALSE]

(* A header and two parts of the pixels, each with the number of the frame *)
(* that it belongs to. *)
Frames == [format : Formats \cup {NoFormat}, head : Nat, first : Nat, rest : Nat]
Empty == [format |-> NoFormat, head |-> 0, first |-> 0, rest |-> 0]

InCritical == {"len", "check", "copy", "rest", "post"}

TypeOK ==
    /\ mutex \in [Cameras -> 0..1]
    /\ shm \in [Cameras -> Frames]
    /\ camera \in [Cameras -> {"idle", "head", "first", "rest", "post", "dead", "lost"}]
    /\ gen \in [Readers -> {"idle", "wait"} \cup InCritical]
    /\ index \in [Readers -> Cameras]
    /\ len \in [Readers -> Nat]
    /\ buffer \in [Readers -> Frames]
    /\ restarts \in 0..MaxRestarts
    /\ lost \in [Cameras -> BOOLEAN]
    /\ published \in [Cameras -> 0..MaxFrames]

Init ==
    /\ mutex = [c \in Cameras |-> 1]
    /\ shm = [c \in Cameras |-> Empty]
    /\ camera = [c \in Cameras |-> "idle"]
    /\ gen = [r \in Readers |-> "idle"]
    /\ index \in [Readers -> Cameras]
    /\ len = [r \in Readers |-> 0]
    /\ buffer = [r \in Readers |-> Empty]
    /\ restarts = 0 /\ lost = [c \in Cameras |-> FALSE]
    /\ published = [c \in Cameras |-> 0]
    /\ image = [r \in Readers |-> <<>>]

------------------------------------------------------------------------------
(* The camera process. *)
CameraGoes(c, from, to) == camera[c] = from /\ camera' = [camera EXCEPT ![c] = to]

CameraWaits(c) ==
    /\ published[c] < MaxFrames /\ mutex[c] = 1
    /\ CameraGoes(c, "idle", "head")
    /\ mutex' = [mutex EXCEPT ![c] = 0]
    /\ UNCHANGED <<shm, published>>

CameraWrites(c) ==
    LET frame == published[c] + 1
    IN  /\ \/ /\ CameraGoes(c, "head", "first")
              /\ \E f \in Formats :
                    shm' = [shm EXCEPT ![c] = [format |-> f, head |-> frame,
                                               first |-> @.first, rest |-> @.rest]]
           \/ /\ CameraGoes(c, "first", "rest")
              /\ shm' = [shm EXCEPT ![c].first = frame]
           \/ /\ CameraGoes(c, "rest", "post")
              /\ shm' = [shm EXCEPT ![c].rest = frame]
        /\ UNCHANGED <<mutex, published>>

CameraPosts(c) ==
    /\ CameraGoes(c, "post", "idle")
    /\ mutex' = [mutex EXCEPT ![c] = @ + 1]
    /\ published' = [published EXCEPT ![c] = @ + 1]
    /\ UNCHANGED shm

CameraDies(c) ==
    /\ camera[c] \notin {"dead", "lost"}
    /\ camera' = [camera EXCEPT ![c] = IF @ = "idle" THEN "dead" ELSE "lost"]
    /\ UNCHANGED <<memory, published>>

CameraRuns(c) ==
    /\ CameraWrites(c) \/ CameraPosts(c)
    /\ UNCHANGED <<readers, restarts, lost>>

CameraEnters(c) ==
    /\ CameraWaits(c) \/ CameraDies(c)
    /\ UNCHANGED <<readers, restarts, lost>>

------------------------------------------------------------------------------
(* GetData. *)
Goes(r, from, to) == gen[r] = from /\ gen' = [gen EXCEPT ![r] = to]

(* The generator calls it only for a stream number in range. *)
CallGetData(r, c) ==
    /\ Goes(r, "idle", "wait") /\ index' = [index EXCEPT ![r] = c]
    /\ UNCHANGED <<memory, len, buffer, image>>

SemWait(r) ==
    /\ mutex[index[r]] = 1 /\ Goes(r, "wait", "len")
    /\ mutex' = [mutex EXCEPT ![index[r]] = 0]
    /\ UNCHANGED <<shm, index, len, buffer, image>>

ReadLen(r) ==
    /\ Goes(r, "len", "check")
    /\ len' = [len EXCEPT ![r] = shm[index[r]].format.len]
    /\ UNCHANGED <<memory, index, buffer, image>>

GoodFormat(r) == len[r] >= SIZE /\ shm[index[r]].format.dims

(* Mutant: the exception is thrown before the semaphore is given back. *)
RejectFrameLocked(r) ==
    /\ ~GoodFormat(r) /\ Goes(r, "check", "idle")
    /\ UNCHANGED <<memory, index, len, buffer, image>>

(* An exception; the generator logs it and sleeps. *)
RejectFrame(r) ==
    /\ ~GoodFormat(r) /\ Goes(r, "check", "idle")
    /\ mutex' = [mutex EXCEPT ![index[r]] = @ + 1]
    /\ UNCHANGED <<shm, index, len, buffer, image>>

(* Mutant: the semaphore is given back in front of the copy. *)
AcceptFrameEarly(r) ==
    /\ GoodFormat(r) /\ Goes(r, "check", "copy")
    /\ mutex' = [mutex EXCEPT ![index[r]] = @ + 1]
    /\ UNCHANGED <<shm, index, len, buffer, image>>

AcceptFrame(r) ==
    /\ GoodFormat(r) /\ Goes(r, "check", "copy")
    /\ UNCHANGED <<memory, index, len, buffer, image>>

(* memcpy, with the length in shared memory. *)
CopyFirst(r) ==
    /\ Goes(r, "copy", "rest")
    /\ LET m == shm[index[r]]
       IN  buffer' = [buffer EXCEPT ![r] = [format |-> m.format, head |-> m.head,
                                            first |-> m.first, rest |-> @.rest]]
    /\ UNCHANGED <<memory, index, len, image>>

CopyRest(r) ==
    /\ Goes(r, "rest", "post")
    /\ buffer' = [buffer EXCEPT ![r].rest = shm[index[r]].rest]
    /\ UNCHANGED <<memory, index, len, image>>

(* Write gets the last SIZE of the len bytes that were copied. *)
Whole(r) ==
    /\ buffer[r].first = buffer[r].head /\ buffer[r].rest = buffer[r].head
    /\ buffer[r].format.len = len[r]

Post(r) ==
    /\ Goes(r, "post", "idle")
    /\ mutex' = [mutex EXCEPT ![index[r]] = @ + 1]
    /\ image' = [image EXCEPT ![r] =
                     IF Whole(r) THEN <<index[r], buffer[r].head>> ELSE <<index[r], 0>>]
    /\ UNCHANGED <<shm, index, len, buffer>>

InGetData(r) ==
    \/ ReadLen(r) \/ RejectFrame(r) \/ AcceptFrame(r)
    \/ CopyFirst(r) \/ CopyRest(r) \/ Post(r)

Outside == UNCHANGED <<camera, restarts, lost, published>>

GeneratorRuns(r) == InGetData(r) /\ Outside
GeneratorEnters(r) == SemWait(r) /\ Outside
GeneratorCalls(r) == (\E c \in Cameras : CallGetData(r, c)) /\ Outside

------------------------------------------------------------------------------
(* The node dies and another is started, whose Initialize opens the        *)
(* semaphores without O_CREAT: they keep their values.  It also constructs *)
(* a shm_data in the memory, without the semaphore; the type is that of    *)
(* the camera process, a plain struct as far as the fields show that are   *)
(* used of it, and so default-initialisation writes nothing.               *)
RestartNode ==
    /\ restarts < MaxRestarts /\ restarts' = restarts + 1
    /\ lost' = [c \in Cameras |->
                   lost[c] \/ \E r \in Readers : gen[r] \in InCritical /\ index[r] = c]
    /\ gen' = [r \in Readers |-> "idle"]
    /\ len' = [r \in Readers |-> 0]
    /\ buffer' = [r \in Readers |-> Empty]
    /\ image' = [r \in Readers |-> <<>>]
    /\ UNCHANGED <<memory, camera, index, published>>

Next ==
    \/ \E c \in Cameras : CameraRuns(c) \/ CameraEnters(c)
    \/ \E r \in Readers : GeneratorRuns(r) \/ GeneratorEnters(r) \/ GeneratorCalls(r)
    \/ RestartNode

Spec == Init /\ [][Next]_vars

(* A thread that holds a semaphore runs on, as long as its process does,   *)
(* and one that waits gets a semaphore that is free again and again.       *)
FairSpec ==
    /\ Spec
    /\ \A c \in Cameras : WF_vars(CameraRuns(c))
    /\ \A r \in Readers : WF_vars(GeneratorRuns(r)) /\ SF_vars(GeneratorEnters(r))

------------------------------------------------------------------------------
(***************************************************************************)
(* Properties.                                                             *)
(***************************************************************************)

(* Every image that is encoded is one whole frame, the newest that the     *)
(* camera had given free when the generator gave the semaphore back, cut   *)
(* at the place that belongs to it; also after deaths and restarts.        *)
Channel == INSTANCE FrameChannel
FramesWhole == Channel!Spec

(* Who holds the semaphore of a camera, the dead included. *)
Holders(c) ==
    {<<"generator", r>> : r \in {q \in Readers : gen[q] \in InCritical /\ index[q] = c}}
    \cup (IF camera[c] \in {"idle", "dead"} THEN {} ELSE {<<"camera", c>>})
    \cup (IF lost[c] THEN {<<"lost", c>>} ELSE {})

(* A semaphore is taken by exactly one holder, and free without one: only  *)
(* a death can take it for ever.                                           *)
SemaphoreAccounted ==
    \A c \in Cameras :
        /\ mutex[c] = 1 <=> Holders(c) = {}
        /\ \A p, q \in Holders(c) : p = q

DiedInside(c) == lost[c] \/ camera[c] = "lost"

(* A generator that waits for a camera gets on, unless a process has died  *)
(* in the critical section of this camera or the node dies.                *)
WaitsEnd ==
    \A r \in Readers : \A c \in Cameras :
        (gen[r] = "wait" /\ index[r] = c) ~> (gen[r] # "wait" \/ DiedInside(c))

==============================================================================
