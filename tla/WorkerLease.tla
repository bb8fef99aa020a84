----------------------------- MODULE WorkerLease -----------------------------
(***************************************************************************)
(* What a connection promises about the memory it shares with its worker   *)
(* thread, with the protocol that keeps the promise left out.              *)
(*                                                                         *)
(* The owner of some memory lends it to a worker thread.  The worker       *)
(* returns the lease at its last access, and only then may the owner free  *)
(* the memory.  In mjpeg_maker the owner is the svc() thread of a          *)
(* connection, the worker is CameraView::stream_generator and the memory   *)
(* is the CStreamer, the CameraView and the JPEG_Writer of the connection. *)
(* StreamSession shows that the flags finished and quit and the join of    *)
(* ~CameraView implement this specification.                               *)
(***************************************************************************)
CONSTANT Owners

VARIABLE lease   \* lease[o] : is the memory of o allocated, is it still used

TypeOK == lease \in [Owners -> {"none", "lent", "returned"}]

Init == lease = [o \in Owners |-> "none"]

(* The owner allocates the memory and starts the worker on it. *)
Lend(o) ==
    /\ lease[o] = "none"
    /\ lease' = [lease EXCEPT ![o] = "lent"]

(* The worker makes its last access. *)
Return(o) ==
    /\ lease[o] = "lent"
    /\ lease' = [lease EXCEPT ![o] = "returned"]

(* The owner frees the memory. *)
Reclaim(o) ==
    /\ lease[o] = "returned"
    /\ lease' = [lease EXCEPT ![o] = "none"]

Next == \E o \in Owners : Lend(o) \/ Return(o) \/ Reclaim(o)

Spec == Init /\ [][Next]_lease

==============================================================================
