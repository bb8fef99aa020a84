------------------------- MODULE StreamSessionProofs -------------------------
(***************************************************************************)
(* Proofs about StreamSession, for any set of connections, any set of      *)
(* streams and any number of packets an image.                             *)
(*                                                                         *)
(* The argument: ObjectInv says which objects exist at each control point  *)
(* of svc(), and ThreadInv where the generator can be meanwhile.  The      *)
(* clause that carries the proof is that, until ~CameraView looks at quit, *)
(* quit is set only by a generator that has ended, so that skipping the    *)
(* join is safe, and that after the join the generator has ended too.      *)
(*                                                                         *)
(* Why a shutdown ends: svc() does not go back, the generator that was     *)
(* told to stop finishes one image at most, and what it waits for is never *)
(* the thread that joins it.                                               *)
(***************************************************************************)
EXTENDS StreamSession, TLAPS

(* Control points of svc() at which the generator's memory exists. *)
Shared == {"recv", "reply", "replyPlay", "start", "close", "finish", "freeB",
           "dtor", "stopSource", "join", "reclaim"}

(* ... and at which ~CameraView has not looked at quit. *)
BeforeStop == Shared \ {"join", "reclaim"}

ObjectInv(s) ==
    /\ hpc[s] = "free" => alive[s] = {}
    /\ hpc[s] \in {"construct", "recv", "reply", "replyPlay", "start", "close"}
         => "handler" \in alive[s]
    /\ hpc[s] \in {"dtor", "stopSource", "join", "reclaim", "cleanup"}
         => "handler" \in alive[s] \/ Stop[s]
    /\ hpc[s] \in {"close", "finish", "freeB"} => Stop[s]
    /\ hpc[s] \in Shared => {"streamer", "source", "writer"} \subseteq alive[s]
    /\ hpc[s] \notin Shared => alive[s] \subseteq {"handler"}

ThreadInv(s) ==
    /\ hpc[s] \notin Shared => gpc[s] \in {"none", "ended"}
    /\ hpc[s] \in Shared => gpc[s] # "none"
    /\ hpc[s] = "reclaim" => gpc[s] = "ended"
    /\ hpc[s] \in BeforeStop /\ quit[s] => gpc[s] = "ended"
    /\ gpc[s] \notin {"none", "init", "ended"} => "jpeg" \in alive[s]

(* svc() leaves its loop after a TEARDOWN, so a stream is never started    *)
(* after one, and the generator only visits the semaphore of a camera and  *)
(* has a packet to send when it sends.                                     *)
FlagInv(s) ==
    /\ hpc[s] \in {"recv", "reply", "replyPlay", "start"} => ~Stop[s]
    /\ hpc[s] \in Shared /\ Stop[s] => ~streamStarted[s]
    /\ gpc[s] \in {"wait", "copy"} => grabID[s] \in Streams
    /\ gpc[s] = "send" => left[s] > 0

SessionInv(s) == ObjectInv(s) /\ ThreadInv(s) /\ FlagInv(s)

Inv == TypeOK /\ \A s \in Sessions : SessionInv(s)

------------------------------------------------------------------------------
(* Every variable keeps its type. *)
LEMMA TypeInit == Init => TypeOK
  BY FragmentsAssumption, NoStreamAssumption
  DEF Init, TypeOK, Objects, HandlerStates, GeneratorStates, StreamIDs

LEMMA TypeHandler ==
  ASSUME TypeOK, NEW s \in Sessions, Request(s) \/ HandlerRuns(s) \/ Accept(s)
  PROVE  TypeOK'
  <1> USE DEF TypeOK, HandlerAt, vars, flags, shm, hvars, gvars, StreamIDs,
              HandlerStates, GeneratorStates, Objects, MayAbort
  <1>1. CASE Request(s)
    <2>1. CASE RecvOptions(s) BY <2>1 DEF RecvOptions
    <2>2. CASE RecvDescribe(s) BY <2>2 DEF RecvDescribe
    <2>3. CASE RecvSetup(s) BY <2>3 DEF RecvSetup
    <2>4. CASE RecvPlay(s) BY <2>4 DEF RecvPlay
    <2>5. CASE RecvTeardown(s) BY <2>5 DEF RecvTeardown
    <2> QED BY <1>1, <2>1, <2>2, <2>3, <2>4, <2>5 DEF Request
  <1>2. CASE HandlerRuns(s)
    <2>1. CASE Construct(s) BY <2>1 DEF Construct
    <2>2. CASE ConstructFails(s) BY <2>2 DEF ConstructFails
    <2>3. CASE RecvFails(s) BY <2>3 DEF RecvFails
    <2>4. CASE Reply(s) BY <2>4 DEF Reply
    <2>5. CASE StartStream(s) BY <2>5 DEF StartStream
    <2>6. CASE CloseHandler(s) BY <2>6 DEF CloseHandler
    <2>7. CASE FinishStreamer(s) BY <2>7 DEF FinishStreamer
    <2>8. CASE FreeUninitialised(s) BY <2>8 DEF FreeUninitialised
    <2>9. CASE DestroyStreamer(s) BY <2>9 DEF DestroyStreamer
    <2>10. CASE StopSource(s) BY <2>10 DEF StopSource
    <2>11. CASE JoinSource(s) BY <2>11 DEF JoinSource
    <2>12. CASE ReclaimSource(s) BY <2>12 DEF ReclaimSource
    <2>13. CASE Cleanup(s) BY <2>13 DEF Cleanup
    <2> QED
      BY <1>2, <2>1, <2>2, <2>3, <2>4, <2>5, <2>6, <2>7, <2>8, <2>9, <2>10,
         <2>11, <2>12, <2>13 DEF HandlerRuns
  <1>3. CASE Accept(s) BY <1>3 DEF Accept
  <1> QED BY <1>1, <1>2, <1>3

(* A semaphore that is updated keeps its type, whatever names it. *)
LEMMA SemaphoreType ==
  ASSUME NEW f \in [Streams -> Nat], NEW x, NEW n, x \in Streams => n \in Nat
  PROVE  [f EXCEPT ![x] = n] \in [Streams -> Nat]
  OBVIOUS

LEMMA TypeGenerator ==
  ASSUME TypeOK, NEW s \in Sessions, GeneratorRuns(s) \/ Client(s)
  PROVE  TypeOK'
  <1> USE DEF TypeOK, GeneratorAt, vars, flags, shm, hvars, gvars, StreamIDs,
              HandlerStates, GeneratorStates, Objects, MayAbort
  <1>1. CASE GeneratorRuns(s)
    <2>1. CASE InitializeWriter(s) BY <2>1, FragmentsAssumption DEF InitializeWriter
    <2>2. CASE CheckFinished(s) BY <2>2, FragmentsAssumption DEF CheckFinished
    <2>3. CASE LookForStream(s) BY <2>3, FragmentsAssumption DEF LookForStream
    <2>4. CASE WaitCamera(s)
      <3>1. mutex' \in [Streams -> Nat]
        BY <2>4, SemaphoreType DEF WaitCamera
      <3> QED BY <2>4, <3>1 DEF WaitCamera
    <2>5. CASE CopyImage(s)
      <3>1. mutex' \in [Streams -> Nat]
        BY <2>5, SemaphoreType DEF CopyImage
      <3> QED BY <2>5, <3>1 DEF CopyImage
    <2>6. CASE EncodeImage(s) BY <2>6, FragmentsAssumption DEF EncodeImage
    <2>7. CASE SendFragment(s) BY <2>7, FragmentsAssumption DEF SendFragment
    <2>8. CASE Sleep(s) BY <2>8, FragmentsAssumption DEF Sleep
    <2>9. CASE ExitGenerator(s) BY <2>9, FragmentsAssumption DEF ExitGenerator
    <2> QED BY <1>1, <2>1, <2>2, <2>3, <2>4, <2>5, <2>6, <2>7, <2>8, <2>9 DEF GeneratorRuns
  <1>2. CASE Client(s)
    <2>1. CASE ClientStalls(s) BY <2>1 DEF ClientStalls
    <2>2. CASE ClientReads(s) BY <2>2 DEF ClientReads
    <2>3. CASE ClientCloses(s) BY <2>3 DEF ClientCloses
    <2> QED BY <1>2, <2>1, <2>2, <2>3 DEF Client
  <1> QED BY <1>1, <1>2

LEMMA TypeCamera ==
  ASSUME TypeOK, NEW c \in Streams, Camera(c)
  PROVE  TypeOK'
  <1> USE DEF TypeOK, vars, flags, shm, hvars, gvars
  <1>1. CASE CameraLocks(c)
    <2>1. mutex' \in [Streams -> Nat] BY <1>1 DEF CameraLocks
    <2> QED BY <1>1, <2>1 DEF CameraLocks
  <1>2. CASE CameraUnlocks(c)
    <2>1. mutex' \in [Streams -> Nat] BY <1>2 DEF CameraUnlocks
    <2> QED BY <1>2, <2>1 DEF CameraUnlocks
  <1> QED BY <1>1, <1>2 DEF Camera

LEMMA TypeStep == TypeOK /\ [Next]_vars => TypeOK'
  <1> SUFFICES ASSUME TypeOK, [Next]_vars PROVE TypeOK'
    OBVIOUS
  <1>1. CASE UNCHANGED vars
    BY <1>1 DEF TypeOK, vars, flags, shm, hvars, gvars
  <1>2. CASE Next
    BY <1>2, TypeHandler, TypeGenerator, TypeCamera DEF Next
  <1> QED BY <1>1, <1>2

(* THEOREM: the types of the variables, for every value of the constants.  *)
THEOREM TypeCorrect == Spec => []TypeOK
  <1> QED BY TypeInit, TypeStep, PTL DEF Spec

------------------------------------------------------------------------------
(* A step of one connection, or of a camera, is invisible to the objects   *)
(* and the flags of every other connection.                                *)
Private(s) == <<alive[s], hpc[s], gpc[s], Stop[s], finished[s], quit[s], streamStarted[s],
                grabID[s], left[s]>>

LEMMA OthersUnchanged ==
  ASSUME TypeOK, NEW s \in Sessions, NEW t \in Sessions, s # t,
         Accept(s) \/ Request(s) \/ HandlerRuns(s) \/ GeneratorRuns(s) \/ Client(s)
  PROVE  Private(t)' = Private(t)
  <1> USE DEF Private, TypeOK, HandlerAt, GeneratorAt, vars, flags, shm, hvars, gvars
  <1>1. CASE Request(s)
    BY <1>1 DEF Request, RecvOptions, RecvDescribe, RecvSetup, RecvPlay, RecvTeardown
  <1>2. CASE HandlerRuns(s)
    BY <1>2 DEF HandlerRuns, Construct, ConstructFails, RecvFails, Reply, StartStream, CloseHandler, FinishStreamer, FreeUninitialised, DestroyStreamer, StopSource, JoinSource, ReclaimSource, Cleanup
  <1>3. CASE GeneratorRuns(s)
    BY <1>3 DEF GeneratorRuns, InitializeWriter, CheckFinished, LookForStream, WaitCamera, CopyImage, EncodeImage, SendFragment, Sleep, ExitGenerator
  <1>4. CASE Accept(s) \/ Client(s)
    BY <1>4 DEF Accept, Client, ClientStalls, ClientReads, ClientCloses
  <1> QED BY <1>1, <1>2, <1>3, <1>4

LEMMA SessionStep ==
  ASSUME TypeOK, NEW s \in Sessions, SessionInv(s),
         Accept(s) \/ Request(s) \/ HandlerRuns(s) \/ GeneratorRuns(s) \/ Client(s)
  PROVE  SessionInv(s)'
  <1> USE DEF TypeOK, HandlerAt, GeneratorAt, vars, flags, shm, hvars, gvars,
              SessionInv, ObjectInv, ThreadInv, FlagInv, Shared, BeforeStop, Objects
  <1>1. CASE Request(s)
    <2>1. CASE RecvOptions(s) BY <2>1 DEF RecvOptions
    <2>2. CASE RecvDescribe(s) BY <2>2 DEF RecvDescribe
    <2>3. CASE RecvSetup(s) BY <2>3 DEF RecvSetup
    <2>4. CASE RecvPlay(s) BY <2>4 DEF RecvPlay
    <2>5. CASE RecvTeardown(s) BY <2>5 DEF RecvTeardown
    <2> QED BY <1>1, <2>1, <2>2, <2>3, <2>4, <2>5 DEF Request
  <1>2. CASE HandlerRuns(s)
    <2>1. CASE Construct(s) BY <2>1 DEF Construct
    <2>2. CASE ConstructFails(s) BY <2>2 DEF ConstructFails
    <2>3. CASE RecvFails(s) BY <2>3 DEF RecvFails
    <2>4. CASE Reply(s) BY <2>4 DEF Reply
    <2>5. CASE StartStream(s) BY <2>5 DEF StartStream
    <2>6. CASE CloseHandler(s) BY <2>6 DEF CloseHandler
    <2>7. CASE FinishStreamer(s) BY <2>7 DEF FinishStreamer
    <2>8. CASE FreeUninitialised(s) BY <2>8 DEF FreeUninitialised
    <2>9. CASE DestroyStreamer(s) BY <2>9 DEF DestroyStreamer
    <2>10. CASE StopSource(s) BY <2>10 DEF StopSource
    <2>11. CASE JoinSource(s) BY <2>11 DEF JoinSource
    <2>12. CASE ReclaimSource(s) BY <2>12 DEF ReclaimSource
    <2>13. CASE Cleanup(s) BY <2>13 DEF Cleanup
    <2> QED BY <1>2, <2>1, <2>2, <2>3, <2>4, <2>5, <2>6, <2>7, <2>8, <2>9, <2>10, <2>11, <2>12, <2>13 DEF HandlerRuns
  <1>3. CASE GeneratorRuns(s)
    <2>1. CASE InitializeWriter(s) BY <2>1 DEF InitializeWriter
    <2>2. CASE CheckFinished(s) BY <2>2 DEF CheckFinished
    <2>3. CASE LookForStream(s) BY <2>3 DEF LookForStream
    <2>4. CASE WaitCamera(s) BY <2>4 DEF WaitCamera
    <2>5. CASE CopyImage(s) BY <2>5 DEF CopyImage
    <2>6. CASE EncodeImage(s) BY <2>6, FragmentsAssumption DEF EncodeImage
    <2>7. CASE SendFragment(s) BY <2>7, FragmentsAssumption DEF SendFragment
    <2>8. CASE Sleep(s) BY <2>8 DEF Sleep
    <2>9. CASE ExitGenerator(s) BY <2>9 DEF ExitGenerator
    <2> QED BY <1>3, <2>1, <2>2, <2>3, <2>4, <2>5, <2>6, <2>7, <2>8, <2>9 DEF GeneratorRuns
  <1>4. CASE Accept(s) BY <1>4 DEF Accept
  <1>5. CASE Client(s)
    <2>1. CASE ClientStalls(s) BY <2>1 DEF ClientStalls
    <2>2. CASE ClientReads(s) BY <2>2 DEF ClientReads
    <2>3. CASE ClientCloses(s) BY <2>3 DEF ClientCloses
    <2> QED BY <1>5, <2>1, <2>2, <2>3 DEF Client
  <1> QED BY <1>1, <1>2, <1>3, <1>4, <1>5

LEMMA InvInit == Init => Inv
  BY TypeInit DEF Init, Inv, SessionInv, ObjectInv, ThreadInv, FlagInv, Shared, BeforeStop

LEMMA InvStep == Inv /\ [Next]_vars => Inv'
  <1> SUFFICES ASSUME Inv, [Next]_vars PROVE Inv'
    OBVIOUS
  <1>0. TypeOK /\ TypeOK'
    BY TypeStep DEF Inv
  <1>1. ASSUME NEW t \in Sessions, Private(t)' = Private(t)
        PROVE  SessionInv(t)'
    BY <1>1 DEF Inv, Private, SessionInv, ObjectInv, ThreadInv, FlagInv, Shared, BeforeStop
  <1>2. ASSUME NEW s \in Sessions,
               Accept(s) \/ Request(s) \/ HandlerRuns(s) \/ GeneratorRuns(s) \/ Client(s)
        PROVE  \A t \in Sessions : SessionInv(t)'
    <2> TAKE t \in Sessions
    <2>1. CASE s = t
      BY <1>0, <1>2, <2>1, SessionStep DEF Inv
    <2>2. CASE s # t
      BY <1>0, <1>1, <1>2, <2>2, OthersUnchanged
    <2> QED BY <2>1, <2>2
  <1>3. ASSUME NEW c \in Streams, Camera(c)
        PROVE  \A t \in Sessions : SessionInv(t)'
    BY <1>1, <1>3 DEF Camera, CameraLocks, CameraUnlocks, Private, vars, flags, hvars, gvars
  <1>4. CASE UNCHANGED vars
    BY <1>0, <1>1, <1>4 DEF Inv, Private, vars, flags, hvars, gvars
  <1>5. CASE Next
    BY <1>0, <1>2, <1>3, <1>5 DEF Next, Inv
  <1> QED BY <1>4, <1>5

THEOREM InvCorrect == Spec => []Inv
  <1> QED BY InvInit, InvStep, PTL DEF Spec

------------------------------------------------------------------------------
(* THEOREM: neither thread of a connection uses a deleted object, the      *)
(* Client_Handler after a TEARDOWN excepted.                               *)
THEOREM DanglingCorrect == Spec => []NoDanglingAccess
  <1>1. ASSUME Inv, NEW s \in Sessions
        PROVE  LET dangling == (HandlerTouches(s) \cup GeneratorTouches(s)) \ alive[s]
               IN  dangling = {} \/ (Stop[s] /\ dangling = {"handler"})
    <2> DEFINE object == {"streamer", "source", "writer", "jpeg"}
    <2>0. SessionInv(s) /\ hpc[s] \in HandlerStates /\ gpc[s] \in GeneratorStates
      BY <1>1 DEF Inv, TypeOK
    <2>1. HandlerTouches(s) \subseteq alive[s] \cup {"handler"}
      BY <2>0 DEF HandlerTouches, SessionInv, ObjectInv, Shared, HandlerStates
    <2>2. "handler" \in HandlerTouches(s) => "handler" \in alive[s] \/ Stop[s]
      BY <2>0 DEF HandlerTouches, SessionInv, ObjectInv, HandlerStates
    <2>3. gpc[s] \notin {"none", "ended"} => hpc[s] \in Shared
      BY <2>0 DEF SessionInv, ThreadInv
    <2>4. GeneratorTouches(s) \subseteq alive[s] \cup {"handler"}
      BY <2>0, <2>3 DEF GeneratorTouches, SessionInv, ObjectInv, ThreadInv, GeneratorStates
    <2>5. "handler" \in GeneratorTouches(s) => "handler" \in alive[s] \/ Stop[s]
      BY <2>0, <2>3 DEF GeneratorTouches, SessionInv, ObjectInv, Shared, GeneratorStates
    <2> QED BY <2>1, <2>2, <2>4, <2>5
  <1>2. Inv => NoDanglingAccess
    BY <1>1 DEF NoDanglingAccess
  <1> QED BY <1>2, InvCorrect, PTL

(* THEOREM: a free slot holds no object and no running thread. *)
THEOREM NothingLeftBehindCorrect == Spec => []NothingLeftBehind
  <1>1. Inv => NothingLeftBehind
    BY DEF Inv, SessionInv, ObjectInv, ThreadInv, Shared, NothingLeftBehind
  <1> QED BY <1>1, InvCorrect, PTL

------------------------------------------------------------------------------
(* THEOREM: an image is begun only by a connection that has not received a *)
(* TEARDOWN.                                                               *)
THEOREM NoImageCorrect == Spec => NoImageAfterTeardown
  <1> DEFINE A == \A s \in Sessions :
                    Stop[s] /\ Stop'[s] => ~(gpc[s] # "wait" /\ gpc'[s] = "wait")
  <1>1. ASSUME Inv, [Next]_vars, NEW s \in Sessions, gpc[s] # "wait", gpc'[s] = "wait"
        PROVE  ~Stop[s]
    <2> USE DEF vars, flags, shm, hvars, gvars
    <2>1. gpc' # gpc BY <1>1
    <2>2. PICK t \in Sessions : Accept(t) \/ Construct(t) \/ GeneratorRuns(t)
      <3> USE DEF Request, RecvOptions, RecvDescribe, RecvSetup, RecvPlay, RecvTeardown,
                  HandlerRuns, ConstructFails, RecvFails, Reply, StartStream, CloseHandler,
                  FinishStreamer, FreeUninitialised, DestroyStreamer, StopSource, JoinSource,
                  ReclaimSource, Cleanup
      <3>1. \A u \in Sessions : Request(u) => gpc' = gpc OBVIOUS
      <3>2. \A u \in Sessions : HandlerRuns(u) => Construct(u) \/ gpc' = gpc OBVIOUS
      <3>3. \A u \in Sessions : Client(u) => gpc' = gpc
        BY DEF Client, ClientStalls, ClientReads, ClientCloses
      <3>4. \A c \in Streams : Camera(c) => gpc' = gpc
        BY DEF Camera, CameraLocks, CameraUnlocks
      <3> QED BY <1>1, <2>1, <3>1, <3>2, <3>3, <3>4 DEF Next
    <2>3. LookForStream(s)
      BY <1>1, <2>2
      DEF Inv, TypeOK, Accept, Construct, GeneratorRuns, InitializeWriter, CheckFinished, LookForStream,
          WaitCamera, CopyImage, EncodeImage, SendFragment, Sleep, ExitGenerator, GeneratorAt
    <2> QED
      BY <1>1, <2>3
      DEF LookForStream, GeneratorAt, Inv, TypeOK, SessionInv, ThreadInv, FlagInv
  <1>2. Inv /\ [Next]_vars => [A]_vars
    BY <1>1
  <1> QED BY <1>2, InvCorrect, PTL DEF Spec, NoImageAfterTeardown

------------------------------------------------------------------------------
(* The step of a connection changes its own lease at most. *)
LEMMA LeaseOfOthers ==
  ASSUME TypeOK, NEW s \in Sessions,
         Accept(s) \/ Request(s) \/ HandlerRuns(s) \/ GeneratorRuns(s) \/ Client(s)
  PROVE  lease' = [lease EXCEPT ![s] = lease'[s]]
  <1>1. \A t \in Sessions \ {s} : lease'[t] = lease[t]
    BY OthersUnchanged DEF Private, lease
  <1> QED BY <1>1 DEF lease

LEMMA LeaseStep == Inv /\ [Next]_vars => [Lease!Next]_lease
  <1> SUFFICES ASSUME Inv, [Next]_vars PROVE Lease!Next \/ lease' = lease
    OBVIOUS
  <1> USE DEF TypeOK, vars, flags, shm, hvars, gvars, HandlerAt, GeneratorAt
  <1>0. TypeOK
    BY DEF Inv
  <1>1. ASSUME NEW s \in Sessions, alive[s]' = alive[s], gpc[s]' = gpc[s]
        PROVE  lease'[s] = lease[s]
    BY <1>1 DEF lease
  <1>2. ASSUME NEW s \in Sessions, lease'[s] = lease[s],
               Accept(s) \/ Request(s) \/ HandlerRuns(s) \/ GeneratorRuns(s) \/ Client(s)
        PROVE  lease' = lease
    <2>1. lease' = [lease EXCEPT ![s] = lease'[s]]
      BY <1>0, <1>2, LeaseOfOthers
    <2>2. lease = [t \in Sessions |-> lease[t]]
      BY DEF lease
    <2> HIDE DEF lease
    <2> QED BY <1>2, <2>1, <2>2
  <1>3. ASSUME NEW s \in Sessions,
               Accept(s) \/ Request(s) \/ HandlerRuns(s) \/ GeneratorRuns(s) \/ Client(s)
        PROVE  Lease!Next \/ lease' = lease
    <2>0. SessionInv(s) BY DEF Inv
    <2>1. lease' = [lease EXCEPT ![s] = lease'[s]]
      BY <1>0, <1>3, LeaseOfOthers
    <2>2. CASE Construct(s)
      <3>1. lease[s] = "none" /\ lease'[s] = "lent"
        BY <1>0, <2>0, <2>2 DEF Construct, lease, SessionInv, ObjectInv, Shared
      <3> QED BY <2>1, <3>1 DEF Lease!Next, Lease!Lend
    <2>3. CASE ExitGenerator(s)
      <3>1. lease[s] = "lent" /\ lease'[s] = "returned"
        BY <1>0, <2>0, <2>3 DEF ExitGenerator, lease, SessionInv, ObjectInv, ThreadInv
      <3> QED BY <2>1, <3>1 DEF Lease!Next, Lease!Return
    <2>4. CASE ReclaimSource(s)
      <3>1. lease[s] = "returned" /\ lease'[s] = "none"
        BY <1>0, <2>0, <2>4 DEF ReclaimSource, lease, SessionInv, ObjectInv, ThreadInv, Shared
      <3> QED BY <2>1, <3>1 DEF Lease!Next, Lease!Reclaim
    <2>5. CASE Accept(s) \/ Request(s) \/ Client(s)
      <3>1. lease'[s] = lease[s]
        BY <1>0, <2>0, <2>5
        DEF lease, SessionInv, ObjectInv, Accept, Request, RecvOptions, RecvDescribe, RecvSetup,
            RecvPlay, RecvTeardown, Client, ClientStalls, ClientReads, ClientCloses
      <3> QED BY <1>2, <2>5, <3>1
    <2>6. CASE HandlerRuns(s) /\ ~Construct(s) /\ ~ReclaimSource(s)
      <3>1. lease'[s] = lease[s]
        BY <1>0, <2>6
        DEF lease, HandlerRuns, ConstructFails, RecvFails, Reply, StartStream, CloseHandler,
            FinishStreamer, FreeUninitialised, DestroyStreamer, StopSource, JoinSource, Cleanup
      <3> QED BY <1>2, <2>6, <3>1
    <2>7. CASE GeneratorRuns(s) /\ ~ExitGenerator(s)
      <3>1. lease'[s] = lease[s]
        BY <1>0, <2>7
        DEF lease, GeneratorRuns, InitializeWriter, CheckFinished, LookForStream, WaitCamera,
            CopyImage, EncodeImage, SendFragment, Sleep
      <3> QED BY <1>2, <2>7, <3>1
    <2> QED BY <1>3, <2>2, <2>3, <2>4, <2>5, <2>6, <2>7
  <1>4. ASSUME NEW c \in Streams, Camera(c)
        PROVE  lease' = lease
    BY <1>4 DEF Camera, CameraLocks, CameraUnlocks, lease
  <1>5. CASE UNCHANGED vars
    BY <1>5 DEF lease
  <1> QED BY <1>3, <1>4, <1>5 DEF Next

(* THEOREM: the flags and the join implement the lease: the memory of a    *)
(* connection is freed once, and only after its generator's last access.   *)
THEOREM LeaseCorrect == Spec => LeaseSpec
  <1>1. Init => Lease!Init
    BY DEF Init, Lease!Init, lease
  <1> QED BY <1>1, InvCorrect, LeaseStep, PTL DEF Spec, LeaseSpec, Lease!Spec

------------------------------------------------------------------------------
(* The semaphores: Holders(c) of camera c are the threads that copy. *)
MutexInv(c) ==
    /\ \A s, t \in Holds(c) : s = t
    /\ writing[c] => Holds(c) = {}
    /\ mutex[c] = IF writing[c] \/ Holds(c) # {} THEN 0 ELSE 1

LEMMA MutexSame ==
  ASSUME NEW c \in Streams, MutexInv(c), Holds(c)' = Holds(c),
         mutex'[c] = mutex[c], writing'[c] = writing[c]
  PROVE  MutexInv(c)'
  BY DEF MutexInv

LEMMA MutexGenerator ==
  ASSUME Inv, NEW c \in Streams, MutexInv(c), NEW s \in Sessions, GeneratorRuns(s)
  PROVE  MutexInv(c)'
  <1> USE DEF Inv, TypeOK, vars, flags, shm, hvars, gvars, GeneratorAt
  <1>1. CASE WaitCamera(s)
    <2>1. CASE grabID[s] = c
      <3>1. mutex[c] = 1 /\ Holds(c) = {} /\ ~writing[c]
        BY <1>1, <2>1 DEF WaitCamera, MutexInv
      <3>2. mutex'[c] = 0 /\ writing' = writing
        BY <1>1, <2>1, <3>1 DEF WaitCamera
      <3>3. Holds(c)' = {s}
        BY <1>1, <2>1, <3>1 DEF WaitCamera, Holds
      <3> QED BY <3>1, <3>2, <3>3 DEF MutexInv
    <2>2. CASE grabID[s] # c
      <3>1. Holds(c)' = Holds(c) BY <1>1, <2>2 DEF WaitCamera, Holds
      <3>2. mutex'[c] = mutex[c] /\ writing' = writing BY <1>1, <2>2 DEF WaitCamera
      <3> QED BY <3>1, <3>2, MutexSame
    <2> QED BY <2>1, <2>2
  <1>2. CASE CopyImage(s)
    <2>1. CASE grabID[s] = c
      <3>1. s \in Holds(c)
        BY <1>2, <2>1 DEF CopyImage, Holds
      <3>2. Holds(c) = {s} /\ ~writing[c] /\ mutex[c] = 0
        BY <3>1 DEF MutexInv
      <3>3. mutex'[c] = 1 /\ writing' = writing
        BY <1>2, <2>1, <3>2 DEF CopyImage
      <3>4. Holds(c)' = Holds(c) \ {s}
        BY <1>2, <2>1 DEF CopyImage, Holds
      <3> QED BY <3>2, <3>3, <3>4 DEF MutexInv
    <2>2. CASE grabID[s] # c
      <3>1. Holds(c)' = Holds(c) BY <1>2, <2>2 DEF CopyImage, Holds
      <3>2. mutex'[c] = mutex[c] /\ writing' = writing BY <1>2, <2>2 DEF CopyImage
      <3> QED BY <3>1, <3>2, MutexSame
    <2> QED BY <2>1, <2>2
  <1>3. CASE GeneratorRuns(s) /\ ~WaitCamera(s) /\ ~CopyImage(s)
    <2>1. Holds(c)' = Holds(c)
      BY <1>3
      DEF GeneratorRuns, InitializeWriter, CheckFinished, LookForStream, EncodeImage,
          SendFragment, Sleep, ExitGenerator, Holds
    <2>2. mutex' = mutex /\ writing' = writing
      BY <1>3
      DEF GeneratorRuns, InitializeWriter, CheckFinished, LookForStream, EncodeImage,
          SendFragment, Sleep, ExitGenerator
    <2> QED BY <2>1, <2>2, MutexSame
  <1> QED BY <1>1, <1>2, <1>3

LEMMA MutexCamera ==
  ASSUME Inv, NEW c \in Streams, MutexInv(c), NEW d \in Streams, Camera(d)
  PROVE  MutexInv(c)'
  <1> USE DEF Inv, TypeOK, vars, flags, shm, hvars, gvars
  <1>1. Holds(c)' = Holds(c)
    BY DEF Camera, CameraLocks, CameraUnlocks, Holds
  <1>2. CASE c = d /\ CameraLocks(d)
    <2>1. mutex[c] = 1 /\ Holds(c) = {} BY <1>2 DEF MutexInv, CameraLocks
    <2>2. mutex'[c] = 0 /\ writing'[c] BY <1>2, <2>1 DEF CameraLocks
    <2> QED BY <1>1, <2>1, <2>2 DEF MutexInv
  <1>3. CASE c = d /\ CameraUnlocks(d)
    <2>1. mutex[c] = 0 /\ Holds(c) = {} BY <1>3 DEF MutexInv, CameraUnlocks
    <2>2. mutex'[c] = 1 /\ ~writing'[c] BY <1>3, <2>1 DEF CameraUnlocks
    <2> QED BY <1>1, <2>1, <2>2 DEF MutexInv
  <1>4. CASE c # d
    <2>1. mutex'[c] = mutex[c] /\ writing'[c] = writing[c]
      BY <1>4 DEF Camera, CameraLocks, CameraUnlocks
    <2> QED BY <1>1, <2>1, MutexSame
  <1> QED BY <1>2, <1>3, <1>4 DEF Camera

(* THEOREM: two threads are never in the critical section of one camera.   *)
THEOREM MutexCorrect == Spec => []CameraMutex
  <1>1. Init => CameraMutex
    BY DEF Init, CameraMutex, Holds
  <1>2. ASSUME Inv, CameraMutex, [Next]_vars
        PROVE  CameraMutex'
    <2> SUFFICES ASSUME NEW c \in Streams PROVE MutexInv(c)'
      BY DEF CameraMutex, MutexInv
    <2>0. MutexInv(c) BY <1>2 DEF CameraMutex, MutexInv
    <2> USE DEF Inv, TypeOK, vars, flags, shm, hvars, gvars
    <2>1. ASSUME NEW s \in Sessions, Accept(s) \/ Request(s) \/ HandlerRuns(s) \/ Client(s)
          PROVE  MutexInv(c)'
      <3>1. mutex' = mutex /\ writing' = writing
        BY <2>1
        DEF Accept, Request, RecvOptions, RecvDescribe, RecvSetup, RecvPlay, RecvTeardown,
            HandlerRuns, Construct, ConstructFails, RecvFails, Reply, StartStream, CloseHandler,
            FinishStreamer, FreeUninitialised, DestroyStreamer, StopSource, JoinSource,
            ReclaimSource, Cleanup, Client, ClientStalls, ClientReads, ClientCloses
      <3>2. CASE Accept(s) \/ Construct(s)
        <4>1. gpc[s] \in {"none", "ended"}
          BY <1>2, <3>2 DEF Accept, Construct, HandlerAt, SessionInv, ThreadInv, Shared
        <4>2. Holds(c)' = Holds(c)
          BY <1>2, <3>2, <4>1 DEF Accept, Construct, Holds
        <4> QED BY <2>0, <3>1, <4>2, MutexSame
      <3>3. CASE ~(Accept(s) \/ Construct(s))
        <4>1. gpc' = gpc /\ grabID' = grabID
          BY <2>1, <3>3
          DEF Accept, Request, RecvOptions, RecvDescribe, RecvSetup, RecvPlay, RecvTeardown,
              HandlerRuns, Construct, ConstructFails, RecvFails, Reply, StartStream, CloseHandler,
              FinishStreamer, FreeUninitialised, DestroyStreamer, StopSource, JoinSource,
              ReclaimSource, Cleanup, Client, ClientStalls, ClientReads, ClientCloses
        <4>2. Holds(c)' = Holds(c)
          BY <4>1 DEF Holds
        <4> QED BY <2>0, <3>1, <4>2, MutexSame
      <3> QED BY <3>2, <3>3
    <2>2. CASE UNCHANGED vars
      <3>1. Holds(c)' = Holds(c) /\ mutex' = mutex /\ writing' = writing
        BY <2>2 DEF Holds
      <3> QED BY <2>0, <3>1, MutexSame
    <2>3. CASE Next
      BY <1>2, <2>0, <2>1, <2>3, MutexGenerator, MutexCamera DEF Next
    <2> QED BY <1>2, <2>2, <2>3
  <1> QED BY <1>1, <1>2, InvCorrect, PTL DEF Spec

------------------------------------------------------------------------------
(***************************************************************************)
(* Why a connection that is being shut down ends.                          *)
(***************************************************************************)

(* The generator has been told to stop, or has stopped. *)
Told(s) == finished[s] \/ quit[s]

(* ~CameraView waits for a generator that was told to stop, and whatever   *)
(* this waits for is not the thread that waits for it: a semaphore that is *)
(* free, or held by a copy or by the camera process, or the client.        *)
JoinGoesOn(s) ==
    hpc[s] = "join" /\ gpc[s] # "ended" =>
        /\ Told(s) /\ gpc[s] # "none"
        /\ gpc[s] = "wait" =>
             LET c == grabID[s]
             IN  mutex[c] > 0 \/ writing[c] \/ \E t \in Sessions : gpc[t] = "copy" /\ grabID[t] = c
        /\ gpc[s] = "send" => left[s] > 0

(* The steps that svc() has left at most, and those that the generator has *)
(* left once it is told to stop: one turn of its loop, in which it sends   *)
(* an image.                                                               *)
HandlerLeft(s) ==
    CASE hpc[s] = "close" -> 8 [] hpc[s] = "finish" -> 7 [] hpc[s] = "freeB" -> 6
      [] hpc[s] = "dtor" -> 5 [] hpc[s] = "stopSource" -> 4 [] hpc[s] = "join" -> 3
      [] hpc[s] = "reclaim" -> 2 [] hpc[s] = "cleanup" -> 1 [] OTHER -> 0

GeneratorLeft(s) ==
    CASE gpc[s] = "look" -> Fragments + 7 [] gpc[s] = "wait" -> Fragments + 6
      [] gpc[s] = "copy" -> Fragments + 5 [] gpc[s] = "encode" -> Fragments + 4
      [] gpc[s] = "send" -> left[s] + 3
      [] gpc[s] \in {"init", "sleep"} -> 3 [] gpc[s] = "check" -> 2 [] gpc[s] = "exit" -> 1
      [] OTHER -> 0

(* Each step of svc() takes it on, each step of a generator that was told  *)
(* to stop takes this on, and no other step takes either of them back.     *)
Nearer(s) ==
    ShuttingDown(s) =>
        /\ Told(s) => Told(s)'
        /\ IF HandlerRuns(s) THEN HandlerLeft(s)' < HandlerLeft(s) ELSE UNCHANGED hpc[s]
        /\ IF GeneratorRuns(s) THEN Told(s) => GeneratorLeft(s)' < GeneratorLeft(s)
                               ELSE UNCHANGED <<gpc[s], left[s]>>

LEMMA HandlerNearer ==
  ASSUME TypeOK, NEW s \in Sessions, ShuttingDown(s), HandlerRuns(s)
  PROVE  HandlerLeft(s)' < HandlerLeft(s) /\ (Told(s) => Told(s)')
  <1> USE DEF TypeOK, HandlerAt, ShuttingDown, Told, flags
  <1>1. hpc[s] \notin {"free", "construct", "recv", "reply", "replyPlay", "start"}
    OBVIOUS
  <1>2. /\ \/ hpc[s] = "close" /\ hpc'[s] = "finish"
           \/ hpc[s] = "finish" /\ hpc'[s] = "freeB"
           \/ hpc[s] = "freeB" /\ hpc'[s] = "dtor"
           \/ hpc[s] = "dtor" /\ hpc'[s] = "stopSource"
           \/ hpc[s] = "stopSource" /\ hpc'[s] \in {"join", "reclaim"}
           \/ hpc[s] = "join" /\ hpc'[s] = "reclaim"
           \/ hpc[s] = "reclaim" /\ hpc'[s] = "cleanup"
           \/ hpc[s] = "cleanup" /\ hpc'[s] = "free"
        /\ Told(s) => Told(s)'
    <2>1. CASE CloseHandler(s) BY <2>1 DEF CloseHandler
    <2>2. CASE FinishStreamer(s) BY <2>2 DEF FinishStreamer
    <2>3. CASE FreeUninitialised(s) BY <2>3 DEF FreeUninitialised
    <2>4. CASE DestroyStreamer(s) BY <2>4 DEF DestroyStreamer
    <2>5. CASE StopSource(s) BY <2>5 DEF StopSource
    <2>6. CASE JoinSource(s) BY <2>6 DEF JoinSource
    <2>7. CASE ReclaimSource(s) BY <2>7 DEF ReclaimSource
    <2>8. CASE Cleanup(s) BY <2>8 DEF Cleanup
    <2>9. ~(Construct(s) \/ ConstructFails(s) \/ RecvFails(s) \/ Reply(s) \/ StartStream(s))
      BY <1>1 DEF Construct, ConstructFails, RecvFails, Reply, StartStream
    <2> QED
      BY <2>1, <2>2, <2>3, <2>4, <2>5, <2>6, <2>7, <2>8, <2>9 DEF HandlerRuns
  <1> QED BY <1>2 DEF HandlerLeft

LEMMA GeneratorNearer ==
  ASSUME TypeOK, NEW s \in Sessions, GeneratorRuns(s)
  PROVE  Told(s) => GeneratorLeft(s)' < GeneratorLeft(s) /\ Told(s)'
  <1> SUFFICES ASSUME Told(s) PROVE GeneratorLeft(s)' < GeneratorLeft(s) /\ Told(s)'
    OBVIOUS
  <1> USE FragmentsAssumption DEF TypeOK, GeneratorAt, GeneratorLeft, Told, flags
  <1>1. CASE InitializeWriter(s) BY <1>1 DEF InitializeWriter
  <1>2. CASE CheckFinished(s) BY <1>2 DEF CheckFinished
  <1>3. CASE LookForStream(s) BY <1>3 DEF LookForStream
  <1>4. CASE WaitCamera(s) BY <1>4 DEF WaitCamera
  <1>5. CASE CopyImage(s) BY <1>5 DEF CopyImage
  <1>6. CASE EncodeImage(s) BY <1>6 DEF EncodeImage
  <1>7. CASE SendFragment(s) BY <1>7 DEF SendFragment
  <1>8. CASE Sleep(s) BY <1>8 DEF Sleep
  <1>9. CASE ExitGenerator(s) BY <1>9 DEF ExitGenerator
  <1> QED BY <1>1, <1>2, <1>3, <1>4, <1>5, <1>6, <1>7, <1>8, <1>9 DEF GeneratorRuns

(* What is left of the two threads only they change, once svc() has left   *)
(* its loop.                                                               *)
LEMMA OnlyTheyRun ==
  ASSUME TypeOK, NEW s \in Sessions, ShuttingDown(s), Next
  PROVE  /\ HandlerRuns(s) \/ UNCHANGED hpc[s]
         /\ GeneratorRuns(s) \/ UNCHANGED <<gpc[s], left[s]>>
         /\ HandlerRuns(s) \/ GeneratorRuns(s) \/ UNCHANGED <<finished[s], quit[s]>>
  <1> USE DEF TypeOK, HandlerAt, ShuttingDown, flags, hvars, gvars
  <1>1. ASSUME NEW t \in Sessions, t # s,
               Accept(t) \/ Request(t) \/ HandlerRuns(t) \/ GeneratorRuns(t) \/ Client(t)
        PROVE  UNCHANGED <<hpc[s], gpc[s], left[s], finished[s], quit[s]>>
    BY <1>1, OthersUnchanged DEF Private
  <1>2. ~Accept(s) /\ ~Request(s)
    BY DEF Accept, Request, RecvOptions, RecvDescribe, RecvSetup, RecvPlay, RecvTeardown
  <1>3. ASSUME Client(s) PROVE UNCHANGED <<hpc[s], gpc[s], left[s], finished[s], quit[s]>>
    BY <1>3 DEF Client, ClientStalls, ClientReads, ClientCloses
  <1>4. ASSUME NEW c \in Streams, Camera(c)
        PROVE  UNCHANGED <<hpc[s], gpc[s], left[s], finished[s], quit[s]>>
    BY <1>4 DEF Camera, CameraLocks, CameraUnlocks
  <1>5. ASSUME HandlerRuns(s) PROVE UNCHANGED <<gpc[s], left[s]>>
    <2>1. ~(Construct(s) \/ ConstructFails(s) \/ RecvFails(s) \/ Reply(s) \/ StartStream(s))
      BY DEF Construct, ConstructFails, RecvFails, Reply, StartStream
    <2> QED
      BY <1>5, <2>1 DEF HandlerRuns, CloseHandler, FinishStreamer, FreeUninitialised,
        DestroyStreamer, StopSource, JoinSource, ReclaimSource, Cleanup
  <1>6. ASSUME GeneratorRuns(s) PROVE UNCHANGED hpc[s]
    BY <1>6 DEF GeneratorRuns, InitializeWriter, CheckFinished, LookForStream, WaitCamera,
      CopyImage, EncodeImage, SendFragment, Sleep, ExitGenerator
  <1> QED BY <1>1, <1>2, <1>3, <1>4, <1>5, <1>6 DEF Next

(* THEOREM: a connection that has begun to shut down does not go back:     *)
(* each step of svc() brings it nearer to the end of the connection, and   *)
(* each step of the generator, from finished or quit on, nearer to its     *)
(* own, within one image, whatever clients and cameras do.                 *)
THEOREM ShutdownProgress == Spec => [][\A s \in Sessions : Nearer(s)]_vars
  <1>1. ASSUME TypeOK, Next, NEW s \in Sessions PROVE Nearer(s)
    <2> SUFFICES ASSUME ShuttingDown(s) PROVE Nearer(s)
      BY DEF Nearer
    <2>1. Told(s) => Told(s)'
      BY <1>1, HandlerNearer, GeneratorNearer, OnlyTheyRun DEF Told
    <2>2. IF HandlerRuns(s) THEN HandlerLeft(s)' < HandlerLeft(s) ELSE UNCHANGED hpc[s]
      BY <1>1, HandlerNearer, OnlyTheyRun
    <2>3. IF GeneratorRuns(s) THEN Told(s) => GeneratorLeft(s)' < GeneratorLeft(s)
                              ELSE UNCHANGED <<gpc[s], left[s]>>
      BY <1>1, GeneratorNearer, OnlyTheyRun
    <2> QED BY <2>1, <2>2, <2>3 DEF Nearer
  <1>2. TypeOK /\ [Next]_vars => [\A s \in Sessions : Nearer(s)]_vars
    BY <1>1
  <1> QED BY <1>2, TypeCorrect, PTL DEF Spec

(* THEOREM: ~CameraView never waits for a generator that was not told to   *)
(* stop, and such a generator waits for the client, the camera process or  *)
(* a copy, which does not wait: no circle of threads waits for ever.  With *)
(* ShutdownProgress, and threads that are scheduled, this is SessionEnds.  *)
THEOREM JoinCorrect == Spec => [](\A s \in Sessions : JoinGoesOn(s))
  <1> DEFINE Asked == \A s \in Sessions : hpc[s] = "join" => Told(s)
  <1>1. Init => Asked
    BY DEF Init
  <1>2. ASSUME TypeOK, Asked, [Next]_vars PROVE Asked'
    <2> SUFFICES ASSUME NEW s \in Sessions, hpc'[s] = "join" PROVE Told(s)'
      OBVIOUS
    <2>1. CASE UNCHANGED vars
      BY <1>2, <2>1 DEF Told, vars, hvars, flags
    <2>2. CASE Next /\ hpc[s] = "join"
      <3>1. Told(s) /\ ShuttingDown(s)
        BY <1>2, <2>2 DEF ShuttingDown
      <3> QED BY <1>2, <2>2, <3>1, HandlerNearer, GeneratorNearer, OnlyTheyRun DEF Told
    <2>3. CASE Next /\ hpc[s] # "join"
      <3> USE <1>2 DEF TypeOK, HandlerAt, hvars, gvars
      <3>1. ASSUME NEW t \in Sessions, t # s,
                   Accept(t) \/ Request(t) \/ HandlerRuns(t) \/ GeneratorRuns(t) \/ Client(t)
            PROVE  hpc'[s] = hpc[s]
        BY <3>1, OthersUnchanged DEF Private
      <3>2. ASSUME Accept(s) \/ Request(s) \/ Client(s) \/ GeneratorRuns(s) PROVE hpc'[s] # "join"
        <4>1. CASE Accept(s) BY <4>1 DEF Accept
        <4>2. CASE Request(s)
          BY <4>2 DEF Request, RecvOptions, RecvDescribe, RecvSetup, RecvPlay, RecvTeardown
        <4>3. CASE Client(s)
          BY <2>3, <4>3 DEF Client, ClientStalls, ClientReads, ClientCloses
        <4>4. CASE GeneratorRuns(s)
          BY <2>3, <4>4 DEF GeneratorRuns, InitializeWriter, CheckFinished, LookForStream,
            WaitCamera, CopyImage, EncodeImage, SendFragment, Sleep, ExitGenerator
        <4> QED BY <3>2, <4>1, <4>2, <4>3, <4>4
      <3>3. ASSUME NEW c \in Streams, Camera(c) PROVE hpc' = hpc
        BY <3>3 DEF Camera, CameraLocks, CameraUnlocks
      <3>4. HandlerRuns(s)
        BY <2>3, <3>1, <3>2, <3>3 DEF Next
      <3>5. StopSource(s)
        BY <2>3, <3>4 DEF HandlerRuns, Construct, ConstructFails, RecvFails, Reply, StartStream,
          CloseHandler, FinishStreamer, FreeUninitialised, DestroyStreamer, JoinSource,
          ReclaimSource, Cleanup
      <3> QED BY <3>5 DEF StopSource, Told
    <2> QED BY <1>2, <2>1, <2>2, <2>3
  <1>3. ASSUME Inv, Asked, CameraMutex, NEW s \in Sessions PROVE JoinGoesOn(s)
    <2>1. SessionInv(s) /\ (hpc[s] = "join" => Told(s))
      BY <1>3 DEF Inv
    <2>2. ASSUME gpc[s] = "wait"
          PROVE  LET c == grabID[s]
                 IN  \/ mutex[c] > 0 \/ writing[c]
                     \/ \E t \in Sessions : gpc[t] = "copy" /\ grabID[t] = c
      <3>1. grabID[s] \in Streams
        BY <2>1, <2>2 DEF SessionInv, FlagInv
      <3> QED BY <1>3, <3>1 DEF CameraMutex, Holds
    <2> QED BY <2>1, <2>2 DEF JoinGoesOn, SessionInv, ThreadInv, FlagInv, Shared
  <1>4. Inv /\ Asked /\ CameraMutex => \A s \in Sessions : JoinGoesOn(s)
    BY <1>3
  <1>5. TypeOK /\ Asked /\ [Next]_vars => Asked'
    BY <1>2
  <1> HIDE DEF Asked
  <1> QED BY <1>1, <1>4, <1>5, TypeCorrect, InvCorrect, MutexCorrect, PTL DEF Spec

==============================================================================
