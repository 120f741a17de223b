------------------------------ MODULE MCGateway ------------------------------
(* Gateway for TLC: finite without any bound but the length of the queue.  *)
EXTENDS Gateway
=============================================================================
