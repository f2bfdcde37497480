---------------------------- MODULE MCNewtonRoot ----------------------------
(* A small instance of NewtonRoot for TLC. *)
EXTENDS NewtonRoot
=============================================================================
