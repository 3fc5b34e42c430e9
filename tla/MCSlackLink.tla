---------------------------- MODULE MCSlackLink ----------------------------
(* SlackLink with two events of different envelope types for TLC.          *)
EXTENDS SlackLink

CONSTANTS l1, l2, t1

MCEvents == {[type |-> "events_api"], [type |-> "interactive"]}
=============================================================================
