----------------------------- MODULE MCAudioHalf -----------------------------
(* AudioHalf, for TLC.                                                     *)
EXTENDS AudioHalf
=============================================================================
