----------------------------- MODULE MCHomePage -----------------------------
(* HomePage with a few requests for TLC.                                   *)
EXTENDS HomePage
=============================================================================
