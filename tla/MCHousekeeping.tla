--------------------------- MODULE MCHousekeeping ---------------------------
(* One housekeeping model for TLC: root keys are the numbers from 1. *)
EXTENDS Housekeeping

CONSTANT Roots
Keys == 1 .. Roots

=============================================================================
