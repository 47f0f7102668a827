---------------------------- MODULE MCDashClient ----------------------------
(* Instances of DashClient: two frames a segment, messages of two sizes, and *)
(* a player that has room for one large or two small messages only.          *)
EXTENDS DashClient
MCRates == {1}
MCSizes == {2, 3}
=============================================================================
