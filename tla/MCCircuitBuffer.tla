-------------------------- MODULE MCCircuitBuffer --------------------------
(* Small instances of CircuitBuffer for TLC. *)
EXTENDS CircuitBuffer
=============================================================================
