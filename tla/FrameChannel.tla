---------------------------- MODULE FrameChannel ----------------------------
(***************************************************************************)
(* What the shared memory of the cameras promises to the generators, with  *)
(* the memory and its semaphores left out: a generator takes the newest    *)
(* frame of a camera, and takes it whole.                                  *)
(***************************************************************************)
EXTENDS Naturals

CONSTANTS Cameras, Readers

VARIABLES
    published,  \* number of the newest frame of each camera; 0: there is none
    image       \* what each generator has taken last: <<camera, frame>> or <<>>

Init ==
    /\ published = [c \in Cameras |-> 0]
    /\ image = [r \in Readers |-> <<>>]

Publish(c) ==
    /\ published' = [published EXCEPT ![c] = @ + 1]
    /\ UNCHANGED image

Take(r, c) ==
    /\ published[c] > 0
    /\ image' = [image EXCEPT ![r] = <<c, published[c]>>]
    /\ UNCHANGED published

(* The process of the generators ends. *)
Forget ==
    /\ image' = [r \in Readers |-> <<>>]
    /\ UNCHANGED published

Next ==
    \/ \E c \in Cameras : Publish(c) \/ \E r \in Readers : Take(r, c)
    \/ Forget

Spec == Init /\ [][Next]_<<published, image>>

==============================================================================
