------------------------------ MODULE MCServer ------------------------------
(* A small instance of Server, and of the rate limiter in it, for TLC.      *)
EXTENDS Server
=============================================================================
