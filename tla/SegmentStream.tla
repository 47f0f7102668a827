---------------------------- MODULE SegmentStream ----------------------------
(***************************************************************************)
(* What a DASH client promises to its viewer and to its server, whatever    *)
(* happens on the network: it asks for the segments of the video one at a   *)
(* time and in order, it accepts no frame it has not asked for, and it      *)
(* shows every frame once, after it has been received.                      *)
(***************************************************************************)
EXTENDS Integers

CONSTANT FramesPerSegment  \* MPEG_FRAMES_PER_SEGMENT

VARIABLES
  asked,     \* segments requested so far
  received,  \* frames accepted by the player so far
  shown      \* frames shown so far

streamVars == <<asked, received, shown>>

StreamInit == asked = 0 /\ received = 0 /\ shown = 0

\* One event of the client.  It accepts any number of the frames still due, it
\* may ask for the next segment once the last frame of the current one is in,
\* and it shows at most one frame.
StreamStep ==
  /\ received' \in received .. asked * FramesPerSegment
  /\ \/ asked' = asked
     \/ asked' = asked + 1 /\ received' = asked * FramesPerSegment
  /\ \/ shown' = shown
     \/ shown' = shown + 1 /\ shown < received'

StreamSpec == StreamInit /\ [][StreamStep]_streamVars
=============================================================================
