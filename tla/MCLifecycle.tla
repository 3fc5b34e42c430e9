---------------------------- MODULE MCLifecycle ----------------------------
(* Lifecycle with model values for TLC.                                    *)
EXTENDS Lifecycle

CONSTANTS c1, c2
=============================================================================
