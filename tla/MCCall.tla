------------------------------- MODULE MCCall -------------------------------
(* Call, for TLC: the constants are in RefuteReconnect.cfg.                *)
EXTENDS Call
=============================================================================
