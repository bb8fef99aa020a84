---------------------------- MODULE MCJpegWriter ----------------------------
(* JpegWriter for TLC: the writer that a CameraView makes.  An image ends   *)
(* before, within or after a header of the least size, or does not fit in   *)
(* the buffer.                                                              *)
EXTENDS JpegWriter

OfCameraView == {[width |-> 1936, height |-> 1464, factor |-> 4]}
Lengths == {1, 2, 5} \cup 18..30 \cup {9000000}
==============================================================================
