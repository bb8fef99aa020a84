# TLA+ models of mjpeg_maker

mjpeg_maker is a ROS node that serves the images of two cameras over RTSP.
Another process writes camera images to shared memory; for each client
connection the node copies images out of it, compresses them to JPEG and sends
them as RTP packets, over UDP or interleaved with RTSP on the TCP connection.

These modules model the node's threads, its protocol and its sockets. TLC checks
them on small instances. TLAPS proves every invariant and action property that a run
checks for every value of the constants, and of the liveness properties all but the last
step, from fairness (section 4). Paths below are relative to the repository.

## 1. The system

### Components

| component | code | state | operations |
|---|---|---|---|
| node | `src/mjpeg_maker_node.cpp` | `ros::ok()`, the server thread's id | `main`: wait for the shared memory to exist, start the server thread, register the `ShmManager`, spin; `mySigintHandler`: finish, join, shutdown |
| server thread | `src/mjpeg_maker.cpp`, `client_acceptor.h` | `reactor`, `quit` | open the cameras, make the reactor, listen, handle events until `quit`, close the cameras |
| client connection | `src/client_handler.cpp` | `Stop`, the uninitialised pointer `b`, the `Client_Handler` on the heap | `open` (starts a thread), `svc` (the loop over the requests), `process` (one `recv`), `close`/`destroy` |
| RTSP session | `src/CRtspSession.cpp` | `m_StreamID`, `m_ClientRTPPort`, `m_TcpTransport`, the fields of the last request | parse a request, answer OPTIONS, DESCRIBE, SETUP, PLAY |
| streamer, transport | `src/CStreamer.cpp:165-205` | two UDP sockets, server and client ports, `m_TCPTransport` | `InitTransport` |
| streamer, packets | `src/CStreamer.cpp:80-163`, `:224-310` | `m_SequenceNumber`, `m_Timestamp`, `data` | `StreamImage`, `SendRtpPacket` |
| JPEG header walk | `src/CStreamer.cpp:312-547` | none | `GetPayLoad` |
| camera view | `src/camera_view.cpp`, `src/stream_source.cpp` | `quit`, `streamID`, the writer, a thread | `stream_generator` (the loop over the images), constructor, destructor |
| shared memory | `src/shm_manager.cpp` | semaphores and segments of the cameras | `Initialize`, `GetData`, `Finalize` |
| image writers | `src/image_writer.cpp`, `src/jpeg_writer.cpp` | the JPEG buffer | `Initialize`, `Write`, `Finalize` |
| service container | `utils.h`, `src/utils.cpp` | the registered services | `set`, `get` |
| file source | `src/fake_source.cpp` | | dead code: the lines that make one are commented out |

### How they interact

    main thread          server thread         svc() thread, one per connection
    main() --starts-->   mjpeg_maker_func
    ServiceContainer     | reactor, acceptor --open()--> Client_Handler::svc
    mySigintHandler      | quit                           CStreamer, CRtspSession
      closes reactor --> |                                 | CameraView --starts--> stream_generator
      joins      <------ returns                           |   finished, quit,        | GetData (semaphore)
                                                           |   streamStarted,  -----> | JPEG_Writer::Write
                                                           |   streamID               | SendRtpPacket
                                                           joins <------------------- quit = true

A connection has two threads, which share the `CStreamer`, the `CameraView`, the
`JPEG_Writer` and the `Client_Handler` without a lock: `streamStarted`,
`finished`, `quit`, `streamID`, `m_RtpClientPort` and `m_TCPTransport` are plain
variables, and with TCP transport both threads send on one socket. Connections share the
semaphores of the cameras with each other and with the camera process, the UDP
port numbers with each other and with other programs, and the process itself: an
assertion or an uncaught exception in one connection ends all of them.

### What is hard here

* The order in which `svc()` takes a connection apart, against a generator that
  may be anywhere in its loop (`src/client_handler.cpp:183`, `src/camera_view.cpp:43`).
* TCP is a byte stream and `svc()` has no framing (`src/client_handler.cpp:206`).
* State of the session that outlives the request that set it
  (`src/CRtspSession.cpp:62`, `:113`), a parser that searches behind the bytes that it
  received (`:52`), and a command type that is returned for requests
  that the parser rejected (`src/CRtspSession.cpp:234`).
* Sockets that are opened while open, and an inverted test (`src/CStreamer.cpp:180`,
  `:188`).
* Headers that are written over the image that is being sent (`src/CStreamer.cpp:97`).
* Answers and packets on one TCP connection, each sent by a loop of `send()` calls
  (`src/CStreamer.cpp:149`), and a SETUP that changes the transport of a stream
  that plays by two assignments (`src/CStreamer.cpp:170`).
* A walk over a JPEG header that reads before it tests (`src/CStreamer.cpp:331`).
* Frames that another process writes, under a semaphore that outlives both
  (`src/shm_manager.cpp:101`), and a length that is read twice (`:113`).
* Sizes of one image that come from three places (`src/jpeg_writer.cpp:92`).
* Start and shutdown: a thread that runs before what it needs is there, signals
  that interrupt the handler of another or come in another thread
  (`src/mjpeg_maker_node.cpp:63`), ROS that shuts the node down from outside, after
  which `main` waits for nobody (`:141`), connections that outlive the server thread.

`PROJECT.json` lists these hazards and others at their lines, with the properties
that are about them.

### What makes each component correct

* Connection: no thread uses freed memory, nothing is left behind, a shutdown ends.
* Shared memory: semaphore and holders add up, also after a death; an exception does
  not keep it locked; an image that is encoded is one whole frame, the newest.
* RTSP session: answers can be matched to requests and agree with what is done.
* Transport: an announced port is the connection's own; each further SETUP leaks one
  socket and no more than one; the search ends.
* Packets: bytes arrive that belong where the packet says, once, marked and numbered.
* Two senders: no byte is lost or sent twice, a PLAY that is answered at all is answered
  before the first packet, a change of transport lets one packet at most leave the old
  way, and a sender that can go on does.
* JPEG: the header walk finds a header if there is one, ends, and stays near the
  image; rows and strides fit the buffers, and the announced size the image.
* Node and server: ready before it serves, ends when told to, dies only for a known reason.

## 2. The modules

| module | about | checked by | proofs |
|---|---|---|---|
| `WorkerLease` | abstract: memory lent to a worker is freed only after the worker's last access | through `StreamSession` | |
| `StreamSession` | a connection's two threads, objects and flags; the camera semaphores | `MCStreamSession` | `StreamSessionProofs` |
| `RtspSession` | requests as a byte stream, parser and handlers | `MCRtspSession` | `RtspSessionProofs` |
| `RtpPorts` | the search for UDP ports | `MCRtpPorts` | `RtpPortsProofs` |
| `RtpPacketizer` | fragmentation, in-place headers, counters | `MCRtpPacketizer` | `RtpPacketizerProofs` |
| `SharedSocket` | the two threads as senders on one TCP connection, and the change of transport | `MCSharedSocket` | `SharedSocketProofs` |
| `JpegHeader` | the walk of `GetPayLoad` over arbitrary bytes | through `JpegWriter` | `JpegWriterProofs` |
| `JpegWriter` | a `JPEG_Writer`, its sizes and buffers; extends `JpegHeader`, whose walk follows every image | `MCJpegWriter` | `JpegWriterProofs` |
| `FrameChannel` | abstract: a generator takes the newest frame of a camera, and takes it whole | through `ShmFrames` | |
| `ShmFrames` | the camera process and `GetData` on the shared memory, with deaths of either | `MCShmFrames` | `ShmFramesProofs` |
| `ServerLifecycle` | main, server thread, signal handler, cameras | `MCServerLifecycle` | `ServerLifecycleProofs` |

Operators whose comment begins with "Mutant" are plausible mistakes. No
specification uses them: in place of the definition that follows them, each makes
one of the properties fail (`PROJECT.json`, "mutants").

### StreamSession

`hpc` and `gpc` are the positions of the two threads, and each action is the code
from one access of shared state to the next. `alive` says which objects of a
connection are allocated. Flags keep the names of the code. What a request says
is reduced to what it does to shared state. Undefined behaviour is a choice:
`MayAbort` (the process lives or dies) where a deleted `Client_Handler` is used or
deleted again (`SendFragment`, `Cleanup`) and where `svc()` frees a pointer that
it never set (`FreeUninitialised`).

The refinement of `WorkerLease`: the memory is "lent" from `Construct` on,
"returned" when the generator has set `quit` for the last time, and "none" after
`ReclaimSource`. That the destructor skips the join if `quit` is already set is
what makes the refinement worth stating: it is right only because the generator
touches nothing after it sets `quit` (`src/camera_view.cpp:138`).

Left out: a failing `open()`, after which the slot is as free as before;
`bad_alloc` in the generator's start, which would end the process; the
dimension tests there, whose operands are constants.

### RtspSession

The client writes requests at any time. A request is up to three pieces, and
`svc` takes any number of pieces from the front of the stream: so a request may
arrive in parts and several may arrive together. The CSeq of a request is its position
in `sent`. `intact` remembers whether every `recv` so far returned exactly one request.
A handler runs, and answers, only if the parser found a CSeq, but `svc` acts on the
command type in any case.

A buffer may also begin within a request. The parser takes all that precedes the first
blank for the method and looks for a known one in it (`src/CRtspSession.cpp:89-107`).
`Drop` has the buffers in which it finds none. `FromMethod` has those in which it finds
that of the next request: a Transport header that is cut in its value has no blank left,
so that the following request line belongs to the same word.

The buffer that the parser copies to its stack is not terminated (`:52`), so that
`strstr` reads on into what earlier requests left there. What it finds is any choice:
`ParsedPort` and `ParsedTcp` are the sets of what may come of it. That matters for
requests without a `client_port`, since its value is terminated in place (`:68`).
A whole SETUP for UDP that names no `client_port` is therefore answered with the port
of an earlier request, with none, or even with TCP. `AnsweredInStep` says that all
other requests are answered for what they asked, and claims nothing of the transport in
the answer to this one; `TransportAgreed` holds of it too.

Not modelled: lines longer than the parser's buffers, names of methods in URLs or in
the values of headers, and the wording of answers.

### RtpPorts

One system call of `InitTransport` a step. `rtp` and `rtcp` are what the socket
objects hold; `bound` is what the operating system has bound for the connection,
which is more after an `open` on an open object, since
`ACE_SOCK_Dgram::open` does not close the old descriptor. A failed `bind` loses
the old descriptor too. `foreign` is what other programs hold.

### RtpPacketizer

A byte of the image is its index, so that a packet shows from where its bytes
came; a byte that a header was written over is `Header`. `data` keeps those
between packets, as the code does. Offset, length, sequence number and timestamp
have moduli for their widths.

### SharedSocket

`wire` is the bytes of the TCP connection, each with the message that it belongs
to, and `taken` is how many of them have left the socket buffer. `SendBytes` is one
call of `send()` in the loop of `send_n`: it takes what fits. A call that takes
everything at once is atomic, since the kernel keeps the socket locked while what it
copies fits; between two calls the other thread may send. `SetPort` and
`SetTransport` are the two assignments of `InitTransport`, `ReadPort` and
`TestTransport` the two reads of `SendRtpPacket`. The variables that no thread locks
are read anew each time: the loops call library functions that the compiler cannot
see into. `RecvRejected` is a request that the parser rejects: it is not answered, but
a PLAY starts the stream all the same (`src/CRtspSession.cpp:223-234`), and packets then
leave with no answer before them. `unanswered` remembers that, and is the exception of
`PlayAnsweredFirst`. TEARDOWN and what frees the objects is in `StreamSession`.

### JpegHeader and JpegWriter

The bytes of the image are arbitrary: `Step` chooses marker and length at the
position of the walk, within what `CanBe` says (an image ends where it ends, and
behind it are zeros). `After` is the order of the tests and loops of `GetPayLoad`,
`Skip` and `Fits` are its pointer arithmetic and its tests. `FindsHeader` compares
the walk with a definition that has no control: the ranks of the markers, how often
each occurs, and `EndOf`, the sum of the lengths.

`JpegWriter` has the life of the writer: constructor, `Initialize`, `Write`,
`write_JPEG_file` row by row, the walk over the outcome, and the deletion, which may find
a writer that was never initialised. `cinfo.width` comes from `ShmManager::IMAGE_WIDTH`
whatever the writer was made for (`src/jpeg_writer.cpp:92`). `Write` takes its columns
from the ninth of the resized image on (`:231`), and as many as the width rounded down to
eights: for `CameraView` columns 8 to 487 of 484. The four that are not there repeat the
edge, by what Magick does with a region that exceeds the image. `beyond` counts them;
`RowsInSource` says that there is at least one and at most eight, and that what is written
fits in `temp`. libjpeg and the resizing are external: a compressed image has any of some
sizes, and one that does not fit ends the process, as does `fmemopen` without memory.

### ShmFrames and FrameChannel

A frame is a header and two parts of its pixels, each with the number of the frame it
comes from, so that a mixture shows. The camera process (external) writes them in three
steps while it holds the semaphore; `GetData` reads the length, tests it, and copies in
two steps with the length that it reads again. `RestartNode` is the death of the node and
the start of another, which opens the semaphores with the values they have. It also
constructs a `shm_data` in the memory without the semaphore (`src/shm_manager.cpp:70`);
`new (shm) shm_data` without parentheses leaves a plain struct of numbers and bytes as it
is, which is what the model takes it for. The refinement maps `published` and `image` to
themselves: the memory and the semaphores are what the abstract specification leaves out.
Its steps are a frame that is given free, an image that `GetData` has returned, and a
restart.

### ServerLifecycle

`main` and `handler` share the main thread: `main` runs only when the stack of
interrupted handlers is empty. A signal of another kind interrupts a handler; one of the
kind that is being handled is blocked in that thread and goes to another one: `others`
counts, for the server thread and for the rest, the calls at each step. A call in the
server thread stops that thread. `pthread_join` fails at once in the server thread itself
and when another call waits in it already (`AnotherJoins`), and a second join of a joined
thread is undefined.

`main` leaves its loop when `ros::ok()` is false, which the handler does (`ShutdownRos`)
and so does ROS from outside (`RosKilled`: `rosnode kill`, or another node that takes the
name). Then nobody has told the server thread to stop, and `exit` destroys the container,
the `ShmManager` and the reactor under it (`DiesInExit`) and under the generators
(`UseSemaphore`). A connection can also end the process by itself (`EndProcess`): by the
assertion of finding 1 ("aborted"), or with `exit(1)` in the JPEG writer ("exited"). What
this `exit` destroys while other threads still run is not followed. `DeathExplained` is
about undefined behaviour and exceptions alone ("dead").

The semaphores are opened one by one and closed one by one, and generators may be using
them. `SetShmManager` and the container's destruction at exit are the service container,
with the one service there is.

## 3. The checks

| run | instance | states | shows |
|---|---|---|---|
| `session` | 1 slot, 2 cameras, 2 packets an image | 60 thousand | no dangling access, no leak, lease, no image after TEARDOWN, connections end |
| `rtsp` | 3 requests, 2 streams, ports 5000 and 65535 | 385 thousand | answers are in order, agree with the transport and the stream, and are not mixed up |
| `rtsp_assertion` | 2 requests | | the assertion of `SetStreamID` fails (finding 1) |
| `rtsp_public` | 2 requests | | announced methods are not answered (finding 2) |
| `ports` | 2 connections, 3 pairs, 2 SETUPs each | 289 thousand | an announced port is held; leaks are bounded; the search ends |
| `ports_pair` | 1 connection, 2 pairs | | a pair is taken without its second port (finding 3) |
| `packets` | payload 3, header 2, images of 0 to 4 packets, counters modulo 8 | 4 thousand | payload, tiling, numbering |
| `shared_socket` | buffer 2, answers of 2, packets of 3, an image of 2 packets, 2 requests, 2 ports | 247 thousand | messages are complete, torn only where the buffer was full; PLAY is answered first; the transport changes promptly; sends end |
| `jpeg` | the sizes of the code, images of 1 to 30 bytes and one too large, 3 images | 240 thousand | the walk finds headers, moves on and reads at most 5 bytes behind; rows and announced sizes fit |
| `shm_frames` | 1 camera, 2 generators, 3 frames of 4 formats, 2 restarts | 67 thousand | frames are whole and the newest; the semaphore is accounted for; waits end |
| `server` | 2 cameras, 2 connections, 2 signals, 2 tries | 110 thousand | initialised before serving, explained deaths, shutdown completes |
| `server_registered` | 1 camera, no signal | | the server thread overtakes `main` (finding 4) |

### Why the bounds are enough

* Connections meet only at semaphores, ports and the process. One slot of
  `StreamSession` is taken again and again, so that a connection also meets what an
  earlier one left, and the camera process competes for the semaphores; two packets
  an image put a request or a shutdown between packets. Two generators at one
  semaphore are in `shm_frames`, two connections at the ports in `ports`, two that
  outlive the server in `server`. The theorems about `StreamSession` hold for any
  number of sessions.
* Three requests are what each answer depends on: one that sets something, one that is
  rejected, cut or names nothing, and one that is answered (SETUP, SETUP without its CSeq
  or its port, SETUP; DESCRIBE, DESCRIBE with 404, PLAY). What a fourth could have left on
  the stack is chosen anyway. 65535 is where the RTCP port wraps. The theorems hold for any
  number of requests.
* Three pairs allow a pair that is skipped, one that is found and one after it.
  The modulus is `PortLimit + 2`, as 2^16 is 0xFFFE + 2.
* The lengths of images are zero, one byte, one less than, exactly and one more
  than a packet, multiples of a packet, and a rest of one byte; the sequence
  number wraps within four images.
* In `shared_socket` an answer fills the buffer and no packet fits in it, so that
  each packet takes two calls at least and either thread may get in between; two
  requests are a PLAY and a SETUP during it, or two SETUPs before it.
* Segment lengths in `jpeg` are 0 to 3, around what the field itself takes, the 8
  of a SOF with its height and width, and 256, whose low byte is 0. The shortest
  header that the walk accepts ends within 18 to 30 bytes: images end before it, in
  it and after it.
* One camera in `shm_frames`: cameras share nothing. The second restart meets what
  the first left. The formats are right with and without bytes in front of the
  pixels, too short, and of other dimensions.
* Two signals: one inside the handler of the other, at every point, or beside it in
  another thread, or after it.

### Fairness

`StreamSession!FairSpec`: the operating system runs `svc()` and the generator
(weak). `WaitCamera` and `SendFragment` are strongly fair: a semaphore that is
posted again and again is free nearly all the time, since generators sleep 40 ms
between images, and a client that reads again and again makes room in the socket
buffer that stays there. Nothing is assumed of clients and cameras: `SessionEnds`
names the two environments in which a shutdown hangs for ever, a client that
stays connected and stops reading, and a camera process that stops inside its
critical section. `RtpPorts!FairSpec`: the search, which never blocks, is
scheduled. `ServerLifecycle!FairSpec`: the main thread and the server thread are,
and so are the calls of the signal handler in whatever thread; nothing is assumed of
signals, of ROS, and of connections.
`SharedSocket!FairSpec`: both threads run, and the sends are strongly fair, since a
thread that waits in `send()` is woken for room that comes again and again; `SendsEnd`
has what it needs of the client as its premise, that it reads all it is sent again and
again or leaves. `ShmFrames!FairSpec`: whoever is inside the critical section runs on,
as long as its process lives (weak), and one that waits in `sem_wait` gets a semaphore
that is free again and again (strong); nothing makes a camera send frames or processes
die.

Deadlock is not checked where the modelled system may stop: the process has
ended, or the bounded client has sent its last request.

### Findings

1. `src/stream_source.cpp:40` asserts a stream number of 0 or 1, but `svc()` passes
   on -1 for a PLAY without a DESCRIBE that succeeded (in builds with assertions,
   as the package is built: `CMakeLists.txt` sets no build type).
2. `src/CRtspSession.cpp:243` announces PAUSE and TEARDOWN; neither is answered.
3. `src/CStreamer.cpp:188` takes the pair of ports whose second one could not be
   bound, against the comments at `:175` and `:181`.
4. `src/mjpeg_maker_node.cpp:133` starts the server thread before line 140 registers
   the service it asks for, against the commented assertion at
   `include/mjpeg_maker/utils.h:87`.

`StreamSession` states three more hazards as the exception of an invariant rather
than as a failing one, since the repository promises nothing about them: the use
of the deleted `Client_Handler` after TEARDOWN, its second deletion, and the
`free` of an uninitialised pointer.

## 4. The proofs

Everything is proved from the named assumptions on the constants alone, for any
number of sessions, streams, ports, requests, packets, cameras and generators.

Liveness itself is out of this prover's reach, but most of what makes it true is
not. Where a run checks that something ends, a theorem gives a measure, a number of
steps that are left: the steps of the waiting party lower it and those of nobody else
raise it. A second one says that somebody can always take a step: nobody waits for a
thread that waits for him. From both and fairness the end follows, by an induction on
the measure that is left to the reader and, on an instance, to TLC.

* **StreamSession.** `TypeCorrect` by one step per action. Neither
  `NoDanglingAccess` nor the refinement is inductive: they need to know which
  objects exist at each position of `svc()`, that the generator is past its last
  access once `svc()` reaches "reclaim", and, for that, that only two things set
  `quit`: the generator's end, and a `svc()` which then joins. This is the
  invariant `Inv` (`InvCorrect`). `DanglingCorrect`, `NothingLeftBehindCorrect`
  and `LeaseCorrect` follow from it; for the latter every step is mapped to
  `Lend`, `Return`, `Reclaim` or a stutter. `NoImageCorrect` needs that `Stop`
  implies `~streamStarted`. `MutexCorrect` proves `CameraMutex`, which is
  inductive with the types, by cases on who holds the semaphore.
  Behind `SessionEnds` are `ShutdownProgress` (from the disconnection on each step of
  `svc()`, and from `finished` or `quit` on each step of the generator, lowers its own
  measure, and nothing raises it: the generator ends within one image) and
  `JoinCorrect` (`svc()` joins only a generator that was told to stop, and that one
  waits for the client, for the camera's semaphore, or not at all).
* **RtspSession.** The CSeq headers that wait in the socket are in the order in
  which they were sent (`NetInv`) and behind those that were answered (`ReplyInv`),
  however the bytes are cut: an answer takes the first CSeq of a buffer, which is a
  front of what waits, so `RepliesCorrect` follows. `TransportInv` names the last
  answer to SETUP, `StreamInv` says that `m_StreamID` too was described, not only
  the stream that plays. For `AnswersCorrect` a buffer that is one whole request has
  one CSeq, its own, and at most one transport, its own (`WholeFacts`,
  `WholeTransport`). Where it names TCP or a port, that is the only choice in
  `ParsedTcp` or `ParsedPort`, so that nothing from before is used.
* **RtpPorts.** `AdvertisedPortCorrect` rests on three facts: the ports bound for
  different connections are disjoint, an announced port is bound, and a port
  that the running search has bound is not the announced one (it was free), so
  that no `close` of the search hits an announced port. `LeakCorrect` counts, at
  each position of the search, the ports that the socket objects no longer hold
  (`LeakInv`). `SearchProgress` is what `SearchEnds` needs: four steps for each
  value that `P` may still have, less those of this pair that are done, a number that
  falls with every step although `P` is 16 bits wide: a pair is tried only below the
  limit (`InRange`). `NeverAnRtcpSocket`
  is finding 3 for every number of ports: no `InitTransport` ever returns with an
  RTCP socket, and it announces the port of one all the same.
* **RtpPacketizer.** The invariant says what the bytes from the next payload on
  still are (`ScanInv`) and that the last packet on the wire ends where the next
  begins (`WireInv`). `SendStep` shows that one packet preserves it: headers end
  where the payload begins, and are not longer than what lies before it.
  `TypeCorrect`, `PayloadCorrect`, `TileCorrect` and `NumbersCorrect` are its parts.
* **SharedSocket.** As to the connection every step of a thread begins a message, sends
  bytes of one, or gives one up (`SendingStep`), and the invariants on the bytes are
  proved for these three: the bytes belong to messages that were begun (`Numbered`), and
  behind an unfinished message the buffer was full (`CutWhereFull`), which gives
  `MessagesCorrect` and `TornCorrect`. `PlayCorrect` needs that a generator which runs, or
  has run, finds the answer to PLAY complete, unless a PLAY without one started the stream
  (`PlayBegun`). For `SwitchCorrect` a packet that will leave by another way than the one
  set is paid for by a SETUP that no earlier packet has used (`LateBounded`).
  `SendProgress` is what `SendsEnd` needs: a thread stays in `send_n` with its message
  until no byte is left, only its own calls change how many are, each takes some off, and
  one is possible when the client has read everything.
* **JpegHeader.** For images, segments and length fields of any size. The walk stays in
  the image and reads at most five bytes behind it (`ReadsCorrect`), since each test of
  the length precedes the next step. `HeaderCorrect` needs how far the walk is at least
  when it expects what (`Reached`): a length below 2 makes a segment shorter, and then
  no marker is accepted behind it. `FoundCorrect` compares the walk with the definition
  that has no control. `Shape` is the invariant: which markers were accepted so far, in
  which order and how often, at each position of the walk (`Accepted`), and that the
  walk stands at the end of the last one (`EndOf`). Each step keeps it (`StepShape`), a
  step that gives up leaves no header (`StepFails`). `EndOf` is a recursive function
  over the segments; that it follows its recursion is proved (`EndOfFollows`) from its
  approximations on `0..n`, which exist and agree, by a least counterexample in place of
  an induction. `TurnsBounded`: the loops take at most one turn for each two bytes of
  the image, and one more, which with `AdvanceCorrect` means that `GetPayLoad` ends on
  every input.
* **JpegWriter.** The same holds of the walk over every image of every writer
  (`EveryWalkCorrect`, `EveryWalkAdvances`), because each begins where `AtRest` left
  off. `RowsCorrect` and `AnnouncedCorrect` are about sizes: what `Write` resizes to,
  what `write_JPEG_file` takes for the width, and the size that `CameraView` announces
  in blocks of eight (`BuffersInv`, `FileInv`). They hold for any camera image and any
  factor that satisfy `CameraAssumption`. It says what the program's only writer has: it
  is made for the size of the camera images (`src/camera_view.cpp:19`), which its factor
  divides (1936 and 1464 by 4), so that resizing gives the size it is asked for; the
  quotient is 8 to 2047, the sizes that a byte can announce in eighths; and that the
  height, divided (366), is not 1 to 7 above a multiple of 16: these rows would be a row
  of blocks, and the announced height, which is rounded down to a multiple of 8, would
  lack it.
* **ShmFrames.** `Exclusion` says who keeps whom out of a camera's memory, the dead
  included, `FrameInMemory` what that memory holds at each step of the camera
  process, and `CopiedSoFar` that what a generator has read is what the memory still
  holds. `SemaphoreCorrect` follows from the first, the refinement `ChannelCorrect`
  from all of them: a `Post` takes the newest frame, everything else is a
  publication, a restart or a stutter. `WaitCorrect` is behind `WaitsEnd`: unless a
  process died in the critical section, the semaphore is free or its holder can go on.
* **ServerLifecycle.** `SignalInv` counts the calls of the handler in all threads: each
  came with a signal of its own, calls in other threads only with a second one, so that
  what one call finds done already was done in another. Where no second signal came the
  handler waits for the server thread before it shuts ROS down, so only a node that was
  shut down from outside leaves `main` before this thread. `MutexInv`: semaphores are
  opened before connections are accepted and closed after the loop. `ServesCorrect` and
  `DeathCorrect` are by cases on the actions from these two. `NobodyWaitsForEver` and
  `ShutdownProgress` are behind `ShutdownCompletes`: from the first call that finds a
  reactor on some thread can take a step until the process has ended (a call in
  `pthread_join` waits for a server thread that waits for nobody, and none waits in the
  server thread), and each step of `main`, the calls and the server thread lowers the
  measure `Left` (at most four steps for each call, `CallsLeft`), which clients and ROS
  cannot raise.

Only model-checked: the step from the measures to the liveness properties `SessionEnds`,
`SearchEnds`, `ShutdownCompletes`, `SendsEnd` and `WaitsEnd`, since fairness speaks of
ENABLED and the induction is over a number that has no bound. Proved and not checked by
a run are `CameraMutex`, `TurnsBounded`, `NeverAnRtcpSocket`, and the measures.

## 5. Not modelled, and what could follow

* `FakeSource` (`src/fake_source.cpp`) is dead code: every line that makes one is
  commented out. It is worth knowing that a writer for images of another size than
  the cameras' would read rows that are not there, since `write_JPEG_file` takes
  its width from `ShmManager` (`src/jpeg_writer.cpp:92`); no state of the
  program has such a writer.
* Compression and resizing are library code, and so is ACE; the wording of
  answers is layout. `Service1` to `Service3` in `src/utils.cpp` have no caller.
* The length that the camera process writes has no upper bound in `GetData`
  (`src/shm_manager.cpp:113`), and `process` writes a NUL behind what `recv`
  returned (`src/client_handler.cpp:221`): what happens then is memory layout, which
  the models do not have. The index test of `GetData` lets one index too many pass
  (`src/shm_manager.cpp:96`), but its callers have no such index; the RTCP port that the
  parser computes (`src/CRtspSession.cpp:80`) wraps behind 65535 and is echoed in the
  answer, and nothing is sent to it.
* What `exit(1)` in a generator destroys under the other threads, and a signal that comes
  during it: the process is on its way out, and the code waits for nobody there.
* A composition of `RtspSession` with `RtpPorts`, where SETUP answers after the
  search, would say that the port in an answer is the port that is bound; the two
  meet in `InitTransport` alone, which each of them has in full for its own state.
