---------------------------- MODULE StreamSession ----------------------------
(***************************************************************************)
(* The life of a client connection: the svc() thread of its Client_Handler *)
(* and the CameraView::stream_generator thread that svc() starts through   *)
(* the CStreamer constructor, with the objects the two threads share, the  *)
(* flags they synchronise on and the camera semaphores.                    *)
(*                                                                         *)
(* A session is a connection slot: it is taken by Accept and is free again *)
(* when both its thread and its Client_Handler are gone.  Sessions meet in *)
(* the semaphores and in the process, which an assertion can abort.        *)
(*                                                                         *)
(* What a request says is abstracted to what it does to the shared state.  *)
(***************************************************************************)
EXTENDS Integers

CONSTANTS
    Sessions,     \* connection slots
    Streams,      \* stream numbers, 0 and 1 in the code (N_COUNT cameras)
    NoStream,     \* the stream number -1: no stream selected
    Fragments     \* RTP packets of one image

ASSUME NoStreamAssumption == NoStream \notin Streams
ASSUME FragmentsAssumption == Fragments \in Nat \ {0}

VARIABLES
    process,       \* "up", or "aborted" by an assertion or an uncaught exception
    alive,         \* the objects of the session that are allocated
    hpc,           \* control of the svc() thread
    gpc,           \* control of the stream_generator thread
    Stop,          \* local of svc(): a TEARDOWN was received
    streamStarted, \* CStreamer::streamStarted
    finished,      \* CStreamer::finished
    quit,          \* CameraView::quit
    m_StreamID,    \* CRtspSession::m_StreamID
    streamID,      \* StreamSource::streamID
    grabID,        \* local streamID of stream_generator
    left,          \* packets of the current image not sent yet
    tcp,           \* CStreamer::m_TCPTransport
    peer,          \* the client's end of the connection
    mutex,         \* value of the semaphore of each camera
    writing        \* the camera process is inside its critical section

flags == <<streamStarted, finished, quit>>
shm   == <<mutex, writing>>
hvars == <<hpc, Stop, m_StreamID, tcp>>
gvars == <<gpc, grabID, left>>
vars  == <<process, alive, hvars, gvars, flags, streamID, peer, shm>>

(***************************************************************************)
(* "handler" is the Client_Handler, on the heap.  "streamer" is the        *)
(* CStreamer in svc()'s frame.  "source" is the CameraView and "writer"    *)
(* its JPEG_Writer, both on the heap.  "jpeg" is the buffer that the       *)
(* writer owns and that CStreamer::data points to while an image is sent.  *)
(***************************************************************************)
Objects == {"handler", "streamer", "source", "writer", "jpeg"}

HandlerStates == {"free", "construct", "recv", "reply", "replyPlay", "start",
                  "close", "finish", "freeB", "dtor", "stopSource", "join",
                  "reclaim", "cleanup"}

GeneratorStates == {"none", "init", "check", "look", "wait", "copy", "encode",
                    "send", "sleep", "exit", "ended"}

StreamIDs == Streams \cup {NoStream}

TypeOK ==
    /\ process \in {"up", "aborted"}
    /\ alive \in [Sessions -> SUBSET Objects]
    /\ hpc \in [Sessions -> HandlerStates]
    /\ gpc \in [Sessions -> GeneratorStates]
    /\ Stop \in [Sessions -> BOOLEAN]
    /\ streamStarted \in [Sessions -> BOOLEAN]
    /\ finished \in [Sessions -> BOOLEAN]
    /\ quit \in [Sessions -> BOOLEAN]
    /\ m_StreamID \in [Sessions -> StreamIDs]
    /\ streamID \in [Sessions -> StreamIDs]
    /\ grabID \in [Sessions -> StreamIDs]
    /\ left \in [Sessions -> 0..Fragments]
    /\ tcp \in [Sessions -> BOOLEAN]
    /\ peer \in [Sessions -> {"open", "stalled", "closed"}]
    /\ mutex \in [Streams -> Nat]
    /\ writing \in [Streams -> BOOLEAN]

Init ==
    /\ process = "up"
    /\ alive = [s \in Sessions |-> {}]
    /\ hpc = [s \in Sessions |-> "free"]
    /\ gpc = [s \in Sessions |-> "none"]
    /\ Stop = [s \in Sessions |-> FALSE]
    /\ streamStarted = [s \in Sessions |-> FALSE]
    /\ finished = [s \in Sessions |-> FALSE]
    /\ quit = [s \in Sessions |-> FALSE]
    /\ m_StreamID = [s \in Sessions |-> NoStream]
    /\ streamID = [s \in Sessions |-> NoStream]
    /\ grabID = [s \in Sessions |-> NoStream]
    /\ left = [s \in Sessions |-> 0]
    /\ tcp = [s \in Sessions |-> FALSE]
    /\ peer = [s \in Sessions |-> "closed"]
    /\ mutex = [c \in Streams |-> 1]
    /\ writing = [c \in Streams |-> FALSE]

HandlerAt(s, from, to) == hpc[s] = from /\ hpc' = [hpc EXCEPT ![s] = to]
GeneratorAt(s, from, to) == gpc[s] = from /\ gpc' = [gpc EXCEPT ![s] = to]

(* The process lives, or dies here (assert, terminate, heap corruption). *)
MayAbort == process' \in {"up", "aborted"}

------------------------------------------------------------------------------
(***************************************************************************)
(* The svc() thread.                                                       *)
(***************************************************************************)

(* The acceptor makes the Client_Handler, and open() gives it a thread.    *)
(* Where open() fails, because the peer is gone or there is no thread, ACE *)
(* closes the handler at once, which deletes it: the slot stays free.      *)
Accept(s) ==
    /\ HandlerAt(s, "free", "construct")
    /\ alive' = [alive EXCEPT ![s] = {"handler"}]
    /\ peer' = [peer EXCEPT ![s] = "open"]
    /\ gpc' = [gpc EXCEPT ![s] = "none"]
    /\ UNCHANGED <<process, Stop, m_StreamID, tcp, grabID, left, flags, streamID, shm>>

(* CStreamer Streamer(this), which makes the CameraView and its thread,    *)
(* and CRtspSession RtspSession(this, &Streamer).                          *)
Construct(s) ==
    /\ HandlerAt(s, "construct", "recv")
    /\ alive' = [alive EXCEPT ![s] = @ \cup {"streamer", "source", "writer"}]
    /\ gpc' = [gpc EXCEPT ![s] = "init"]
    /\ Stop' = [Stop EXCEPT ![s] = FALSE]
    /\ streamStarted' = [streamStarted EXCEPT ![s] = FALSE]
    /\ finished' = [finished EXCEPT ![s] = FALSE]
    /\ quit' = [quit EXCEPT ![s] = FALSE]
    /\ m_StreamID' = [m_StreamID EXCEPT ![s] = NoStream]
    /\ streamID' = [streamID EXCEPT ![s] = NoStream]
    /\ tcp' = [tcp EXCEPT ![s] = FALSE]
    /\ UNCHANGED <<process, grabID, left, peer, shm>>

(* pthread_create fails: the exception leaves svc(), nobody catches it.    *)
ConstructFails(s) ==
    /\ hpc[s] = "construct"
    /\ process' = "aborted"
    /\ UNCHANGED <<alive, hvars, gvars, flags, streamID, peer, shm>>

(* recv() returns 0 or -1: svc() returns, and its locals are destroyed. *)
RecvFails(s) ==
    /\ peer[s] = "closed"
    /\ HandlerAt(s, "recv", "dtor")
    /\ UNCHANGED <<process, alive, Stop, m_StreamID, tcp, gvars, flags, streamID, peer, shm>>

(* A request that changes nothing here but is answered (OPTIONS). *)
RecvOptions(s) ==
    /\ peer[s] # "closed"
    /\ HandlerAt(s, "recv", "reply")
    /\ UNCHANGED <<process, alive, Stop, m_StreamID, tcp, gvars, flags, streamID, peer, shm>>

(* DESCRIBE of a stream that exists or, for 404, of one that does not. *)
RecvDescribe(s) ==
    /\ peer[s] # "closed"
    /\ HandlerAt(s, "recv", "reply")
    /\ \E id \in StreamIDs : m_StreamID' = [m_StreamID EXCEPT ![s] = id]
    /\ UNCHANGED <<process, alive, Stop, tcp, gvars, flags, streamID, peer, shm>>

(* SETUP calls InitTransport with the transport the client asks for. *)
RecvSetup(s) ==
    /\ peer[s] # "closed"
    /\ HandlerAt(s, "recv", "reply")
    /\ \E t \in BOOLEAN : tcp' = [tcp EXCEPT ![s] = t]
    /\ UNCHANGED <<process, alive, Stop, m_StreamID, gvars, flags, streamID, peer, shm>>

(* PLAY is answered first; one that cannot be parsed to its end is not     *)
(* answered, but Handle_RtspRequest still returns RTSP_PLAY.               *)
RecvPlay(s) ==
    /\ peer[s] # "closed"
    /\ HandlerAt(s, "recv", "replyPlay") \/ HandlerAt(s, "recv", "start")
    /\ UNCHANGED <<process, alive, Stop, m_StreamID, tcp, gvars, flags, streamID, peer, shm>>

(* Mutant: a TEARDOWN leaves the streaming flag set. *)
RecvTeardownStreaming(s) ==
    /\ peer[s] # "closed"
    /\ HandlerAt(s, "recv", "close")
    /\ Stop' = [Stop EXCEPT ![s] = TRUE]
    /\ UNCHANGED <<process, alive, m_StreamID, tcp, gvars, flags, streamID, peer, shm>>

RecvTeardown(s) ==
    /\ peer[s] # "closed"
    /\ HandlerAt(s, "recv", "close")
    /\ Stop' = [Stop EXCEPT ![s] = TRUE]
    /\ streamStarted' = [streamStarted EXCEPT ![s] = FALSE]
    /\ UNCHANGED <<process, alive, m_StreamID, tcp, gvars, finished, quit, streamID, peer, shm>>

(* send_n blocks while the client does not read; an error is ignored. *)
Reply(s) ==
    /\ peer[s] # "stalled"
    /\ HandlerAt(s, "reply", "recv") \/ HandlerAt(s, "replyPlay", "start")
    /\ UNCHANGED <<process, alive, Stop, m_StreamID, tcp, gvars, flags, streamID, peer, shm>>

(* SetStreamerID, whose assertion needs a stream, then streamStarted = 1.  *)
(* stream_generator reads the two in the same order and checks both, so a  *)
(* read between the two writes has the effect of a read before them.       *)
StartStream(s) ==
    /\ streamID' = [streamID EXCEPT ![s] = m_StreamID[s]]
    /\ \/ /\ m_StreamID[s] \in Streams
          /\ HandlerAt(s, "start", "recv")
          /\ streamStarted' = [streamStarted EXCEPT ![s] = TRUE]
          /\ UNCHANGED process
       \/ /\ m_StreamID[s] \notin Streams
          /\ hpc[s] = "start"
          /\ process' = "aborted"
          /\ UNCHANGED <<hpc, streamStarted>>
    /\ UNCHANGED <<alive, Stop, m_StreamID, tcp, gvars, finished, quit, peer, shm>>

(* close() after a TEARDOWN: destroy() deletes the Client_Handler while    *)
(* the streamer and the generator thread still point to it.                *)
CloseHandler(s) ==
    /\ HandlerAt(s, "close", "finish")
    /\ alive' = [alive EXCEPT ![s] = @ \ {"handler"}]
    /\ UNCHANGED <<process, Stop, m_StreamID, tcp, gvars, flags, streamID, peer, shm>>

FinishStreamer(s) ==
    /\ HandlerAt(s, "finish", "freeB")
    /\ finished' = [finished EXCEPT ![s] = TRUE]
    /\ UNCHANGED <<process, alive, Stop, m_StreamID, tcp, gvars, streamStarted, quit, streamID, peer, shm>>

(* free(b) of the pointer b that svc() never initialises: harmless when it *)
(* happens to be NULL, else the allocator aborts.                          *)
FreeUninitialised(s) ==
    /\ HandlerAt(s, "freeB", "dtor")
    /\ MayAbort
    /\ UNCHANGED <<alive, Stop, m_StreamID, tcp, gvars, flags, streamID, peer, shm>>

(* ~CStreamer up to delete streamSource. *)
DestroyStreamer(s) ==
    /\ HandlerAt(s, "dtor", "stopSource")
    /\ finished' = [finished EXCEPT ![s] = TRUE]
    /\ UNCHANGED <<process, alive, Stop, m_StreamID, tcp, gvars, streamStarted, quit, streamID, peer, shm>>

(* Mutant: the generator is told to stop and never joined. *)
StopSourceUnjoined(s) ==
    /\ HandlerAt(s, "stopSource", "reclaim")
    /\ quit' = [quit EXCEPT ![s] = TRUE]
    /\ UNCHANGED <<process, alive, Stop, m_StreamID, tcp, gvars, streamStarted, finished, streamID, peer, shm>>

(* ~CameraView joins the generator thread only if it has not yet set quit. *)
StopSource(s) ==
    /\ \/ quit[s] /\ HandlerAt(s, "stopSource", "reclaim")
       \/ ~quit[s] /\ HandlerAt(s, "stopSource", "join")
    /\ quit' = [quit EXCEPT ![s] = TRUE]
    /\ UNCHANGED <<process, alive, Stop, m_StreamID, tcp, gvars, streamStarted, finished, streamID, peer, shm>>

JoinSource(s) ==
    /\ gpc[s] = "ended"
    /\ HandlerAt(s, "join", "reclaim")
    /\ UNCHANGED <<process, alive, Stop, m_StreamID, tcp, gvars, flags, streamID, peer, shm>>

(* Mutant: ~JPEG_Writer without Finalize. *)
ReclaimSourceLeaky(s) ==
    /\ HandlerAt(s, "reclaim", "cleanup")
    /\ alive' = [alive EXCEPT ![s] = @ \ {"streamer", "source", "writer"}]
    /\ UNCHANGED <<process, Stop, m_StreamID, tcp, gvars, flags, streamID, peer, shm>>

(* delete writer, whose destructor frees the JPEG buffer, the rest of      *)
(* ~CameraView and of ~CStreamer, and the return from svc().               *)
ReclaimSource(s) ==
    /\ HandlerAt(s, "reclaim", "cleanup")
    /\ alive' = [alive EXCEPT ![s] = @ \ {"streamer", "source", "writer", "jpeg"}]
    /\ UNCHANGED <<process, Stop, m_StreamID, tcp, gvars, flags, streamID, peer, shm>>

(* ACE calls close() of a task whose svc() has returned: it deletes the    *)
(* Client_Handler, and after a TEARDOWN it does so for a second time.      *)
Cleanup(s) ==
    /\ HandlerAt(s, "cleanup", "free")
    /\ alive' = [alive EXCEPT ![s] = @ \ {"handler"}]
    /\ IF "handler" \in alive[s] THEN UNCHANGED process ELSE MayAbort
    /\ peer' = [peer EXCEPT ![s] = "closed"]
    /\ UNCHANGED <<Stop, m_StreamID, tcp, gvars, flags, streamID, shm>>

------------------------------------------------------------------------------
(***************************************************************************)
(* The stream_generator thread.                                            *)
(***************************************************************************)

(* The writer allocates its buffers; the camera buffer is private. *)
InitializeWriter(s) ==
    /\ GeneratorAt(s, "init", "check")
    /\ alive' = [alive EXCEPT ![s] = @ \cup {"jpeg"}]
    /\ UNCHANGED <<process, hvars, grabID, left, flags, streamID, peer, shm>>

(* The loop condition. *)
CheckFinished(s) ==
    /\ \/ ~finished[s] /\ ~quit[s] /\ GeneratorAt(s, "check", "look")
       \/ (finished[s] \/ quit[s]) /\ GeneratorAt(s, "check", "exit")
    /\ UNCHANGED <<process, alive, hvars, grabID, left, flags, streamID, peer, shm>>

(* The stream number is read once and used for the whole frame. *)
LookForStream(s) ==
    /\ grabID' = [grabID EXCEPT ![s] = streamID[s]]
    /\ IF streamID[s] \in Streams /\ streamStarted[s]
       THEN GeneratorAt(s, "look", "wait")
       ELSE GeneratorAt(s, "look", "sleep")
    /\ UNCHANGED <<process, alive, hvars, left, flags, streamID, peer, shm>>

(* sem_wait of GetData. *)
WaitCamera(s) ==
    /\ GeneratorAt(s, "wait", "copy")
    /\ mutex[grabID[s]] > 0
    /\ mutex' = [mutex EXCEPT ![grabID[s]] = @ - 1]
    /\ UNCHANGED <<process, alive, hvars, grabID, left, flags, streamID, peer, writing>>

(* Mutant: GetData throws before it posts the semaphore. *)
CopyImageLocked(s) ==
    /\ \/ /\ GeneratorAt(s, "copy", "encode")
          /\ mutex' = [mutex EXCEPT ![grabID[s]] = @ + 1]
       \/ GeneratorAt(s, "copy", "sleep") /\ UNCHANGED mutex
    /\ UNCHANGED <<process, alive, hvars, grabID, left, flags, streamID, peer, writing>>

(* GetData copies the image, or finds it malformed and throws; it posts    *)
(* the semaphore either way.  The exception is caught in the loop.         *)
CopyImage(s) ==
    /\ GeneratorAt(s, "copy", "encode") \/ GeneratorAt(s, "copy", "sleep")
    /\ mutex' = [mutex EXCEPT ![grabID[s]] = @ + 1]
    /\ UNCHANGED <<process, alive, hvars, grabID, left, flags, streamID, peer, writing>>

(* JPEG_Writer::Write and the search for the scan data of StreamImage;     *)
(* each can throw.                                                         *)
EncodeImage(s) ==
    /\ \/ /\ GeneratorAt(s, "encode", "send")
          /\ left' = [left EXCEPT ![s] = Fragments]
       \/ /\ GeneratorAt(s, "encode", "sleep")
          /\ UNCHANGED left
    /\ UNCHANGED <<process, alive, hvars, grabID, flags, streamID, peer, shm>>

(* Mutant: the loop over the fragments runs once too often. *)
SendFragmentOver(s) ==
    /\ tcp[s] => peer[s] # "stalled"
    /\ \/ left[s] >= 0 /\ GeneratorAt(s, "send", "send")
       \/ left[s] < 0 /\ GeneratorAt(s, "send", "sleep")
    /\ left' = [left EXCEPT ![s] = @ - 1]
    /\ IF "handler" \in alive[s] THEN UNCHANGED process ELSE MayAbort
    /\ UNCHANGED <<alive, hvars, grabID, flags, streamID, peer, shm>>

(* SendRtpPacket reaches the socket through m_ClientHandler.  The access   *)
(* to a deleted Client_Handler is undefined: it may end the process.       *)
SendFragment(s) ==
    /\ tcp[s] => peer[s] # "stalled"
    /\ \/ left[s] > 1 /\ GeneratorAt(s, "send", "send")
       \/ left[s] = 1 /\ GeneratorAt(s, "send", "sleep")
    /\ left' = [left EXCEPT ![s] = @ - 1]
    /\ IF "handler" \in alive[s] THEN UNCHANGED process ELSE MayAbort
    /\ UNCHANGED <<alive, hvars, grabID, flags, streamID, peer, shm>>

Sleep(s) ==
    /\ GeneratorAt(s, "sleep", "check")
    /\ UNCHANGED <<process, alive, hvars, grabID, left, flags, streamID, peer, shm>>

(* The last access of the thread to shared memory is to set quit. *)
ExitGenerator(s) ==
    /\ GeneratorAt(s, "exit", "ended")
    /\ quit' = [quit EXCEPT ![s] = TRUE]
    /\ UNCHANGED <<process, alive, hvars, grabID, left, streamStarted, finished, streamID, peer, shm>>

------------------------------------------------------------------------------
(***************************************************************************)
(* The client and the camera process.                                      *)
(***************************************************************************)

ClientStalls(s) ==
    /\ peer[s] = "open"
    /\ peer' = [peer EXCEPT ![s] = "stalled"]
    /\ UNCHANGED <<process, alive, hvars, gvars, flags, streamID, shm>>

ClientReads(s) ==
    /\ peer[s] = "stalled"
    /\ peer' = [peer EXCEPT ![s] = "open"]
    /\ UNCHANGED <<process, alive, hvars, gvars, flags, streamID, shm>>

ClientCloses(s) ==
    /\ peer[s] # "closed"
    /\ peer' = [peer EXCEPT ![s] = "closed"]
    /\ UNCHANGED <<process, alive, hvars, gvars, flags, streamID, shm>>

CameraLocks(c) ==
    /\ ~writing[c] /\ mutex[c] > 0
    /\ writing' = [writing EXCEPT ![c] = TRUE]
    /\ mutex' = [mutex EXCEPT ![c] = @ - 1]
    /\ UNCHANGED <<process, alive, hvars, gvars, flags, streamID, peer>>

CameraUnlocks(c) ==
    /\ writing[c]
    /\ writing' = [writing EXCEPT ![c] = FALSE]
    /\ mutex' = [mutex EXCEPT ![c] = @ + 1]
    /\ UNCHANGED <<process, alive, hvars, gvars, flags, streamID, peer>>

------------------------------------------------------------------------------
(* A client that asks for something is not obliged to.                     *)
Request(s) ==
    \/ RecvOptions(s) \/ RecvDescribe(s) \/ RecvSetup(s)
    \/ RecvPlay(s) \/ RecvTeardown(s)

(* What svc() does once it has a request or has lost its client. *)
HandlerRuns(s) ==
    \/ Construct(s) \/ ConstructFails(s)
    \/ RecvFails(s) \/ Reply(s) \/ StartStream(s)
    \/ CloseHandler(s) \/ FinishStreamer(s) \/ FreeUninitialised(s)
    \/ DestroyStreamer(s) \/ StopSource(s) \/ JoinSource(s)
    \/ ReclaimSource(s) \/ Cleanup(s)

GeneratorRuns(s) ==
    \/ InitializeWriter(s) \/ CheckFinished(s) \/ LookForStream(s)
    \/ WaitCamera(s) \/ CopyImage(s) \/ EncodeImage(s) \/ SendFragment(s)
    \/ Sleep(s) \/ ExitGenerator(s)

Client(s) == ClientStalls(s) \/ ClientReads(s) \/ ClientCloses(s)

Camera(c) == CameraLocks(c) \/ CameraUnlocks(c)

Next ==
    /\ process = "up"
    /\ \/ \E s \in Sessions : \/ Accept(s) \/ Request(s) \/ HandlerRuns(s)
                              \/ GeneratorRuns(s) \/ Client(s)
       \/ \E c \in Streams : Camera(c)

Spec == Init /\ [][Next]_vars

(***************************************************************************)
(* The operating system runs each thread: a step of svc() or of            *)
(* stream_generator that stays possible happens.  A waiter on a semaphore  *)
(* is strongly fair: every generator sleeps 40 ms between two images, so a *)
(* semaphore that is released again and again is free nearly all the time. *)
(* So is a blocked send: what a client reads makes room in the socket      *)
(* buffer that stays there until the sender fills it.                      *)
(* Nothing is assumed of the client or of the camera process.              *)
(***************************************************************************)
Fairness ==
    \A s \in Sessions :
        /\ WF_vars(process = "up" /\ HandlerRuns(s))
        /\ WF_vars(process = "up" /\ GeneratorRuns(s))
        /\ SF_vars(process = "up" /\ WaitCamera(s))
        /\ SF_vars(process = "up" /\ SendFragment(s))

FairSpec == Spec /\ Fairness

------------------------------------------------------------------------------
(***************************************************************************)
(* Properties.                                                             *)
(***************************************************************************)

(* The objects that the next step of each thread dereferences. *)
HandlerTouches(s) ==
    CASE hpc[s] \in {"construct", "recv", "reply", "replyPlay", "close", "cleanup"} -> {"handler"}
      [] hpc[s] \in {"start", "stopSource"} -> {"streamer", "source"}
      [] hpc[s] \in {"finish", "dtor"} -> {"streamer"}
      [] hpc[s] \in {"join"} -> {"source"}
      [] hpc[s] \in {"reclaim"} -> {"streamer", "source", "writer"}
      [] OTHER -> {}

GeneratorTouches(s) ==
    CASE gpc[s] = "init" -> {"source", "writer"}
      [] gpc[s] \in {"check", "look"} -> {"source", "streamer"}
      [] gpc[s] = "encode" -> {"source", "streamer", "writer", "jpeg"}
      [] gpc[s] = "send" -> {"streamer", "writer", "jpeg", "handler"}
      [] gpc[s] \in {"wait", "copy", "sleep", "exit"} -> {"source"}
      [] OTHER -> {}

(* Neither thread of a connection uses an object of it that has been       *)
(* deleted, whatever the order in which svc() unwinds and stream_generator *)
(* sees finished and quit.  The Client_Handler is the exception and only   *)
(* after a TEARDOWN: svc() then deletes it before it stops the generator.  *)
NoDanglingAccess ==
    \A s \in Sessions :
        LET dangling == (HandlerTouches(s) \cup GeneratorTouches(s)) \ alive[s]
        IN  dangling = {} \/ (Stop[s] /\ dangling = {"handler"})

(* When a slot is free nothing of its last connection is left behind: no   *)
(* object, and no thread that could still use one.                         *)
NothingLeftBehind ==
    \A s \in Sessions : hpc[s] = "free" => alive[s] = {} /\ gpc[s] \in {"none", "ended"}

(* GetData takes and gives back the semaphore of one camera: at any time   *)
(* its holders and its value add up, so that two threads never copy or     *)
(* write an image together and an exception never leaves it locked.        *)
Holds(c) == {s \in Sessions : gpc[s] = "copy" /\ grabID[s] = c}

CameraMutex ==
    \A c \in Streams :
        /\ \A s, t \in Holds(c) : s = t
        /\ writing[c] => Holds(c) = {}
        /\ mutex[c] = IF writing[c] \/ Holds(c) # {} THEN 0 ELSE 1

(* The memory of a connection is freed only after the last access of its   *)
(* generator thread, though the thread is not joined when it saw finished  *)
(* first: the connection implements the protocol of WorkerLease.           *)
lease == [s \in Sessions |->
            IF "source" \notin alive[s] THEN "none"
            ELSE IF gpc[s] = "ended" THEN "returned" ELSE "lent"]

Lease == INSTANCE WorkerLease WITH Owners <- Sessions, lease <- lease

LeaseSpec == Lease!Spec

(* A connection that is being shut down, by TEARDOWN or because the client *)
(* left, gives its slot back, unless the process aborts, the client stays  *)
(* connected without ever reading again, or the camera process never posts *)
(* its semaphore.                                                          *)
ShuttingDown(s) == hpc[s] \in {"close", "finish", "freeB", "dtor", "stopSource",
                               "join", "reclaim", "cleanup"}

SessionEnds ==
    \A s \in Sessions :
        \/ <>[](peer[s] = "stalled")
        \/ \E c \in Streams : <>[]writing[c]
        \/ ShuttingDown(s) ~> (hpc[s] = "free" \/ process = "aborted")

(* Once streamStarted is cleared by TEARDOWN the generator completes the   *)
(* image it is on and starts no other.                                     *)
NoImageAfterTeardown ==
    [][\A s \in Sessions : Stop[s] /\ Stop'[s] => ~(gpc[s] # "wait" /\ gpc'[s] = "wait")]_vars

==============================================================================
