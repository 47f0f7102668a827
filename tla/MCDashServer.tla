---------------------------- MODULE MCDashServer ----------------------------
(* Instances of DashServer: two frames a segment, one smaller and one larger *)
(* than the send buffer, and messages of two units.                          *)
EXTENDS DashServer
MCFrameSizes == {1, 3}
=============================================================================
