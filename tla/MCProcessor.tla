---------------------------- MODULE MCProcessor ----------------------------
(* Small instances of the messaging service for TLC.                       *)
EXTENDS ProcessorProperties

CONSTANTS a, b, w1, w2
=============================================================================
