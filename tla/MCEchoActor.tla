---------------------------- MODULE MCEchoActor ----------------------------
(* EchoActor for TLC: the events that one message arrives as.  A mention is *)
(* a message event and an app_mention with the same ts; with a file, the    *)
(* message event has a subtype as well.                                     *)
EXTENDS EchoActor

CONSTANTS c1, c2, t1

MCTsOf == [k \in EventKeys |-> t1]
=============================================================================
