---------------------------- MODULE MCCertMinter ----------------------------
(* CertMinter with two names for TLC.                                      *)
EXTENDS CertMinter

CONSTANTS slack, wss
=============================================================================
