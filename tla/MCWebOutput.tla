---------------------------- MODULE MCWebOutput ----------------------------
(* Instances of WebOutput for TLC.                                          *)
EXTENDS WebOutput
=============================================================================
