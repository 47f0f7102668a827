---------------------------- MODULE MCMpegPlayer ----------------------------
(* A small instance of MpegPlayer: three kinds of frames, of the first and of *)
(* a later segment, of two sizes and two rates.                               *)
EXTENDS MpegPlayer

MCFrames ==
  {[seg |-> 0, res |-> 2, size |-> 1],
   [seg |-> 1, res |-> 1, size |-> 2],
   [seg |-> 1, res |-> 3, size |-> 1]}
=============================================================================
