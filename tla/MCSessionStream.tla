-------------------------- MODULE MCSessionStream --------------------------
(* The instance of SessionStream that TLC checks. *)
EXTENDS SessionStream
=============================================================================
