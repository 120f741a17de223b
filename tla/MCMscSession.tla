---------------------------- MODULE MCMscSession ----------------------------
(* Instance of MscSession for TLC; the bounds are in MCMscSession.cfg.     *)
EXTENDS MscSession
=============================================================================
