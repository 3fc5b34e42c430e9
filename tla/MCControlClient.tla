-------------------------- MODULE MCControlClient --------------------------
(* ControlClient with model values for TLC.                                *)
EXTENDS ControlClient

CONSTANTS r1, r2, r3
=============================================================================
