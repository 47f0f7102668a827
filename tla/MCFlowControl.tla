--------------------------- MODULE MCFlowControl ---------------------------
(* Instances of FlowControl.  With UnitSizes a message is one unit and the   *)
(* receive buffer holds several; with MixedSizes it holds hardly more than   *)
(* one of the larger messages.  A buffer that is a multiple of the segment   *)
(* size can be filled, so that the window is 0; otherwise the server stops   *)
(* with a window smaller than a segment.                                     *)
EXTENDS FlowControl
MCRates == {1}
UnitSizes == {1}
MixedSizes == {1, 2}
=============================================================================
