---------------------------- MODULE MCAudioTrack ----------------------------
(* AudioTrack, for TLC.                                                    *)
EXTENDS AudioTrack
=============================================================================
