------------------------------- MODULE MCChat -------------------------------
(* Chat with a few messages for TLC.                                       *)
EXTENDS Chat
=============================================================================
