--------------------------- MODULE MCTcpConnection ---------------------------
(* Instances of TcpConnection: both sides write, or only the server does.  *)
EXTENDS TcpConnection

MCMaxData == Client :> 1 @@ Server :> 2
VideoOnly == Client :> 0 @@ Server :> 2
=============================================================================
