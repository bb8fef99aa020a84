----------------------------- MODULE MCShmFrames -----------------------------
(* ShmFrames for TLC: frames without and with a header in front of the     *)
(* pixels, a frame that is too short and one of other dimensions.          *)
EXTENDS ShmFrames

FormatsOfCamera == {[len |-> 2, dims |-> TRUE], [len |-> 3, dims |-> TRUE],
                    [len |-> 1, dims |-> TRUE], [len |-> 3, dims |-> FALSE]}
==============================================================================
