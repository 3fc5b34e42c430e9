------------------------------ MODULE MCServer ------------------------------
(* Server with model values for TLC.                                       *)
EXTENDS Server

CONSTANTS a, g, o1, o2, s1, s2, f1
=============================================================================
