--------------------------- MODULE ServerLifecycle ---------------------------
(***************************************************************************)
(* The process from start to end: main(), the server thread that it starts *)
(* (mjpeg_maker_func), the signal handler, which interrupts main() or      *)
(* another thread, and the semaphores that ShmManager opens and closes     *)
(* under the generator threads of the connections, which nobody waits for. *)
(***************************************************************************)
EXTENDS Naturals, Sequences

CONSTANTS
    Sessions,     \* connection slots
    N_COUNT,      \* cameras
    MaxTries,     \* 10 calls of is_shm_initialized
    MaxSignals    \* bound: signals that the process receives

ASSUME CountsAssumption == N_COUNT \in Nat \ {0} /\ MaxTries \in Nat /\ MaxSignals \in Nat

VARIABLES
    process,     \* "up", "exited", "aborted" by an assertion, or "dead" of undefined behaviour
                 \* or of an exception that nobody catches
    main,        \* control of main()
    tryCount,
    registered,  \* ServiceContainer holds the ShmManager
    ros,         \* ros::ok() while "ok"; "shutdown" by the handler, or "killed" from outside
    handler,     \* stack of the calls of mySigintHandler in main(): one may interrupt another
    others,      \* calls of it in the server thread and in other threads, for each step
    joined,      \* the server thread has been joined
    server,      \* control of mjpeg_maker_func
    quit,
    reactor,     \* "null" until the server thread makes it
    mutex,       \* what ShmManager::mutex holds for each camera
    next,        \* loop variable of Initialize and of Finalize
    generator,   \* per connection: None, Idle, or the camera its thread copies from
    signals      \* history: those that came before the reactor or in exit(), and the rest

mainVars   == <<main, tryCount, registered>>
serverVars == <<server, next, mutex>>
calls      == <<handler, others>>
vars == <<process, mainVars, ros, calls, joined, serverVars, quit, reactor, generator, signals>>

Cameras == 0..(N_COUNT - 1)
Idle == N_COUNT
None == N_COUNT + 1
HandlerSteps == {"close", "quit", "join", "shutdown"}
Others == {"server", "other"}

TypeOK ==
    /\ process \in {"up", "exited", "aborted", "dead"}
    /\ main \in {"observe", "create", "set", "spin", "destroy"}
    /\ tryCount \in 0..MaxTries
    /\ ros \in {"ok", "shutdown", "killed"}
    /\ registered \in BOOLEAN /\ joined \in BOOLEAN /\ quit \in BOOLEAN
    /\ handler \in Seq(HandlerSteps) /\ Len(handler) <= MaxSignals
    /\ others \in [Others -> [HandlerSteps -> 0..MaxSignals]]
    /\ server \in {"none", "get", "initialize", "reactor", "open", "serve", "finalize", "done"}
    /\ reactor \in {"null", "open", "closed"}
    /\ mutex \in [Cameras -> {"null", "open", "closed"}]
    /\ next \in 0..N_COUNT
    /\ generator \in [Sessions -> Cameras \cup {Idle, None}]
    /\ signals \in [untimely : 0..MaxSignals, timely : 0..MaxSignals]

Init ==
    /\ process = "up" /\ main = "observe" /\ tryCount = 0
    /\ registered = FALSE /\ ros = "ok"
    /\ handler = <<>> /\ others = [t \in Others |-> [step \in HandlerSteps |-> 0]]
    /\ joined = FALSE
    /\ server = "none" /\ quit = FALSE /\ reactor = "null"
    /\ mutex = [c \in Cameras |-> "null"] /\ next = 0
    /\ generator = [s \in Sessions |-> None]
    /\ signals = [untimely |-> 0, timely |-> 0]

MayDie == process' \in {"up", "dead"}

------------------------------------------------------------------------------
(* main(). *)
CallObserver ==
    /\ main = "observe" /\ tryCount < MaxTries
    /\ \/ main' = "create" /\ UNCHANGED tryCount
       \/ tryCount' = tryCount + 1 /\ UNCHANGED main
    /\ UNCHANGED <<process, registered, ros, server>>

NotInitialized ==
    /\ main = "observe" /\ tryCount = MaxTries
    /\ process' = "exited"
    /\ UNCHANGED <<mainVars, ros, server>>

CreateServer ==
    /\ main = "create"
    /\ \/ server' = "get" /\ main' = "set" /\ UNCHANGED process
       \/ process' = "exited" /\ UNCHANGED <<server, main>>
    /\ UNCHANGED <<tryCount, registered, ros>>

(* set() puts an empty entry in the container before it fills it; a get()  *)
(* that finds the entry empty ends as one that finds none.                 *)
SetShmManager ==
    /\ main = "set"
    /\ main' = "spin" /\ registered' = TRUE
    /\ UNCHANGED <<process, tryCount, ros, server>>

(* The loop is left, and the destructors of the static objects run. *)
LeaveLoop ==
    /\ main = "spin" /\ ros # "ok"
    /\ main' = "destroy" /\ registered' = FALSE
    /\ UNCHANGED <<process, tryCount, ros, server>>

Exit ==
    /\ main = "destroy"
    /\ process' = "exited"
    /\ UNCHANGED <<mainVars, ros, server>>

Main ==
    /\ handler = <<>>
    /\ \/ CallObserver \/ NotInitialized \/ CreateServer
       \/ SetShmManager \/ LeaveLoop \/ Exit
    /\ UNCHANGED <<calls, joined, next, mutex, quit, reactor, generator, signals>>

------------------------------------------------------------------------------
(* rosnode kill, or another node that takes the name. *)
RosKilled ==
    /\ ros = "ok" /\ ros' = "killed"
    /\ UNCHANGED <<process, mainVars, calls, joined, serverVars, quit, reactor, generator, signals>>

(* mySigintHandler.  The main thread is interrupted first, and by a signal *)
(* of another kind again; but the kind that is being handled is blocked in *)
(* it, and goes to the server thread, a connection's or a library's.       *)
Signal ==
    /\ signals.untimely + signals.timely < MaxSignals
    /\ signals' = IF reactor = "null" \/ main = "destroy"
                  THEN [signals EXCEPT !.untimely = @ + 1]
                  ELSE [signals EXCEPT !.timely = @ + 1]
    /\ \/ handler' = <<"close">> \o handler /\ UNCHANGED others
       \/ /\ handler # <<>> /\ UNCHANGED handler
          /\ \E t \in Others :
                /\ t = "server" => server \notin {"none", "done"}
                /\ others' = [others EXCEPT ![t] = [others[t] EXCEPT !["close"] = @ + 1]]
    /\ UNCHANGED <<process, ros, joined, quit, reactor>>

At(t, step) ==
    IF t = "main" THEN handler # <<>> /\ Head(handler) = step ELSE others[t][step] > 0

GoesTo(t, from, to) ==
    \/ t = "main" /\ handler' = <<to>> \o Tail(handler) /\ UNCHANGED others
    \/ /\ t # "main" /\ UNCHANGED handler
       /\ others' = [others EXCEPT ![t] = [others[t] EXCEPT ![from] = @ - 1, ![to] = @ + 1]]

(* finish() dereferences the pointer without a test, and uses it even when *)
(* the destructors of the static objects run.                              *)
CloseReactor(t) ==
    /\ At(t, "close")
    /\ \/ reactor = "null" /\ process' = "dead" /\ UNCHANGED <<calls, reactor>>
       \/ /\ reactor # "null" /\ reactor' = "closed" /\ GoesTo(t, "close", "quit")
          /\ IF main = "destroy" THEN MayDie ELSE UNCHANGED process
    /\ UNCHANGED <<ros, joined, quit, signals>>

(* Mutant: finish() only closes the reactor. *)
SetQuitForgotten(t) ==
    /\ At(t, "quit") /\ GoesTo(t, "quit", "join")
    /\ UNCHANGED <<process, ros, joined, quit, reactor, signals>>

SetQuit(t) ==
    /\ At(t, "quit") /\ GoesTo(t, "quit", "join")
    /\ quit' = TRUE
    /\ UNCHANGED <<process, ros, joined, reactor, signals>>

(* Another call is at its pthread_join; one in the server thread does not  *)
(* count, as it never waits.                                               *)
AnotherJoins(t) ==
    \/ others["other"]["join"] > IF t = "other" THEN 1 ELSE 0
    \/ \E i \in DOMAIN handler : handler[i] = "join" /\ (i > 1 \/ t # "main")

(* Mutant: the handler does not wait for the server thread. *)
JoinServerDetached(t) ==
    /\ At(t, "join") /\ GoesTo(t, "join", "shutdown")
    /\ joined' = TRUE
    /\ UNCHANGED <<process, ros, quit, reactor, signals>>

(* pthread_join fails at once in the server thread itself, and when        *)
(* somebody waits in it already.  To join a thread a second time is        *)
(* undefined.                                                              *)
JoinServer(t) ==
    /\ At(t, "join") /\ GoesTo(t, "join", "shutdown")
    /\ \/ (t = "server" \/ AnotherJoins(t)) /\ UNCHANGED <<process, joined>>
       \/ /\ t # "server" /\ server = "done" /\ joined' = TRUE
          /\ IF joined THEN MayDie ELSE UNCHANGED process
    /\ UNCHANGED <<ros, quit, reactor, signals>>

ShutdownRos(t) ==
    /\ At(t, "shutdown")
    /\ \/ t = "main" /\ handler' = Tail(handler) /\ UNCHANGED others
       \/ /\ t # "main" /\ UNCHANGED handler
          /\ others' = [others EXCEPT ![t] = [others[t] EXCEPT !["shutdown"] = @ - 1]]
    /\ ros' = IF ros = "ok" THEN "shutdown" ELSE ros
    /\ UNCHANGED <<process, joined, quit, reactor, signals>>

Handler ==
    /\ \E t \in {"main"} \cup Others :
          CloseReactor(t) \/ SetQuit(t) \/ JoinServer(t) \/ ShutdownRos(t)
    /\ UNCHANGED <<mainVars, serverVars, generator>>

------------------------------------------------------------------------------
(* mjpeg_maker_func.  What it throws nobody catches.  A container that is  *)
(* destroyed may still show its entry.                                     *)
GetShmManager ==
    /\ server = "get"
    /\ \/ (registered \/ main = "destroy") /\ server' = "initialize" /\ UNCHANGED process
       \/ ~registered /\ process' = "dead" /\ UNCHANGED server
    /\ UNCHANGED <<next, mutex, reactor, generator>>

(* Mutants: a camera that fails is skipped; one camera too many. *)
InitializeShmSkips ==
    /\ server = "initialize"
    /\ \/ /\ next < N_COUNT
          /\ \/ mutex' = [mutex EXCEPT ![next] = "open"]
             \/ UNCHANGED mutex
          /\ next' = next + 1
          /\ UNCHANGED server
       \/ next = N_COUNT /\ next' = 0 /\ server' = "reactor" /\ UNCHANGED mutex
    /\ UNCHANGED <<process, reactor, generator>>

InitializeShmOver ==
    /\ server = "initialize"
    /\ \/ /\ next <= N_COUNT
          /\ mutex' = [mutex EXCEPT ![next] = "open"]
          /\ next' = next + 1
          /\ UNCHANGED <<process, server>>
       \/ next <= N_COUNT /\ process' = "dead" /\ UNCHANGED serverVars
       \/ next > N_COUNT /\ next' = 0 /\ server' = "reactor" /\ UNCHANGED <<process, mutex>>
    /\ UNCHANGED <<reactor, generator>>

(* A camera: sem_open and the shared memory, either of which may fail. *)
InitializeShm ==
    /\ server = "initialize"
    /\ \/ /\ next < N_COUNT
          /\ mutex' = [mutex EXCEPT ![next] = "open"]
          /\ next' = next + 1
          /\ UNCHANGED <<process, server>>
       \/ next < N_COUNT /\ process' = "dead" /\ UNCHANGED serverVars
       \/ next = N_COUNT /\ next' = 0 /\ server' = "reactor" /\ UNCHANGED <<process, mutex>>
    /\ UNCHANGED <<reactor, generator>>

MakeReactor ==
    /\ server = "reactor"
    /\ server' = "open" /\ reactor' = "open"
    /\ UNCHANGED <<process, next, mutex, generator>>

(* It fails when the port is taken or the reactor is closed already. *)
OpenAcceptor ==
    /\ server = "open"
    /\ \/ reactor = "open" /\ server' = "serve"
       \/ server' = "done"
    /\ UNCHANGED <<process, next, mutex, reactor, generator>>

(* A closed reactor handles nothing. *)
AcceptConnection(s) ==
    /\ server = "serve" /\ ~quit
    /\ reactor = "open" /\ generator[s] = None
    /\ generator' = [generator EXCEPT ![s] = Idle]
    /\ UNCHANGED <<process, serverVars, reactor>>

LeaveServe ==
    /\ server = "serve" /\ quit
    /\ server' = "finalize"
    /\ UNCHANGED <<process, next, mutex, reactor, generator>>

FinalizeShm ==
    /\ server = "finalize"
    /\ \/ next < N_COUNT /\ next' = next + 1 /\ mutex' = [mutex EXCEPT ![next] = "closed"]
                         /\ UNCHANGED server
       \/ next = N_COUNT /\ server' = "done" /\ UNCHANGED <<next, mutex>>
    /\ UNCHANGED <<process, reactor, generator>>

(* The container, the ShmManager and the reactor are static objects: they  *)
(* go under a server thread that main() has not waited for.                *)
DiesInExit ==
    /\ main = "destroy" /\ server \notin {"none", "done"}
    /\ process' = "dead"
    /\ UNCHANGED <<serverVars, reactor, generator>>

Interrupted == \E step \in HandlerSteps : others["server"][step] > 0

ServerRuns ==
    /\ ~Interrupted
    /\ \/ GetShmManager \/ InitializeShm \/ MakeReactor \/ OpenAcceptor
       \/ LeaveServe \/ FinalizeShm \/ DiesInExit
    /\ UNCHANGED <<mainVars, ros, calls, joined, quit, signals>>

Accepts ==
    /\ ~Interrupted
    /\ \E s \in Sessions : AcceptConnection(s)
    /\ UNCHANGED <<mainVars, ros, calls, joined, quit, signals>>

------------------------------------------------------------------------------
(* GetData of a generator uses the ShmManager and a semaphore of it twice. *)
UseSemaphore(c) ==
    IF mutex[c] = "open" /\ main # "destroy" THEN UNCHANGED process
    ELSE IF mutex[c] = "null" THEN process' = "dead" ELSE MayDie

BeginCopy(s, c) ==
    /\ generator[s] = Idle /\ generator' = [generator EXCEPT ![s] = c]
    /\ UseSemaphore(c)

EndCopy(s, c) ==
    /\ generator[s] = c /\ generator' = [generator EXCEPT ![s] = Idle]
    /\ UseSemaphore(c)

EndSession(s) ==
    /\ generator[s] = Idle /\ generator' = [generator EXCEPT ![s] = None]
    /\ UNCHANGED process

(* A PLAY before a DESCRIBE fails an assertion; the generator calls exit() *)
(* when an image does not fit in its buffer.  What exit() destroys under   *)
(* the other threads is not followed then.                                 *)
EndProcess(s) ==
    /\ generator[s] # None /\ UNCHANGED generator
    /\ process' \in {"aborted", "exited"}

Generators ==
    /\ \E s \in Sessions :
          \/ EndSession(s) \/ EndProcess(s)
          \/ \E c \in Cameras : BeginCopy(s, c) \/ EndCopy(s, c)
    /\ UNCHANGED <<mainVars, ros, calls, joined, serverVars, quit, reactor, signals>>

------------------------------------------------------------------------------
Next ==
    /\ process = "up"
    /\ \/ Main
       \/ Signal /\ UNCHANGED <<mainVars, serverVars, generator>>
       \/ RosKilled \/ Handler \/ ServerRuns \/ Accepts \/ Generators

Spec == Init /\ [][Next]_vars

(* The operating system runs the main thread, the server thread and the    *)
(* calls of the handler.  Nothing is assumed of signals and clients.       *)
FairSpec ==
    /\ Spec
    /\ WF_vars(process = "up" /\ Main)
    /\ WF_vars(process = "up" /\ Handler)
    /\ WF_vars(process = "up" /\ ServerRuns)

------------------------------------------------------------------------------
(***************************************************************************)
(* Properties.                                                             *)
(***************************************************************************)

(* Connections are accepted only while every semaphore is open, and a      *)
(* generator never meets one that Initialize has not opened.               *)
ServesInitialised ==
    /\ server = "serve" => \A c \in Cameras : mutex[c] = "open"
    /\ (\E s \in Sessions : generator[s] # None) => \A c \in Cameras : mutex[c] # "null"

Starting == server \in {"get", "initialize"}

(* Apart from a failing start, and from the assertions and the exit() that *)
(* a connection can reach, which are not meant here, undefined behaviour   *)
(* ends the process for four reasons only: a signal before there is a      *)
(* reactor or during exit(), a second signal, ROS shutting the node down   *)
(* from outside, after which main() does not wait for the server thread,   *)
(* and connections that outlive this thread.  One signal to a serving      *)
(* process without connections ends it with exit().                        *)
DeathExplained ==
    process = "dead" =>
        \/ Starting
        \/ signals.untimely > 0
        \/ signals.untimely + signals.timely > 1
        \/ ros = "killed" /\ main = "destroy" /\ server # "done"
        \/ server \in {"finalize", "done"} /\ \E s \in Sessions : generator[s] # None

(* When the server thread asks for the ShmManager main() has registered it *)
(* (it may not have: main() starts the thread first).                      *)
ShmManagerRegistered == server = "get" => registered

(* Once a call of the signal handler has closed the reactor the process    *)
(* ends, though it waits for the server thread, in whatever thread it is   *)
(* called and whatever the clients do.                                     *)
ShutdownCompletes == (\E t \in {"main"} \cup Others : At(t, "quit")) ~> (process # "up")

==============================================================================
