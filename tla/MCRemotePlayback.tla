-------------------------- MODULE MCRemotePlayback --------------------------
(* Small instances of RemotePlayback for TLC. *)
EXTENDS RemotePlayback
=============================================================================
