------------------------------ MODULE Delivery ------------------------------
(***************************************************************************)
(* What a session promises about events, and nothing else: at-least-once   *)
(* delivery with redelivery on every connection until the actor acks.      *)
(*   - an accepted event is never dropped: it stays pending until acked;   *)
(*   - an ack counts only for an event that was delivered somewhere;       *)
(*   - an event is delivered at most once on one connection.               *)
(***************************************************************************)
EXTENDS Naturals

CONSTANT Conns   \* actor connections

VARIABLES
  accepted,    \* number of events accepted from Slack; event k is the k-th, from 0
  acked,       \* events the actor acknowledged
  delivered    \* for each connection, the events delivered on it

dvars == <<accepted, acked, delivered>>

Init == accepted = 0 /\ acked = {} /\ delivered = [c \in Conns |-> {}]

\* onEvent: take responsibility for one more event.
Accept ==
  /\ accepted' = accepted + 1
  /\ UNCHANGED <<acked, delivered>>

DeliverOn(c) ==
  \E k \in 0..(accepted - 1) :
    /\ k \notin delivered[c]
    /\ delivered' = [delivered EXCEPT ![c] = @ \cup {k}]
    /\ UNCHANGED <<accepted, acked>>

Acknowledge ==
  \E k \in 0..(accepted - 1) :
    /\ k \notin acked
    /\ \E c \in Conns : k \in delivered[c]
    /\ acked' = acked \cup {k}
    /\ UNCHANGED <<accepted, delivered>>

Next == Accept \/ Acknowledge \/ \E c \in Conns : DeliverOn(c)

Spec == Init /\ [][Next]_dvars
=============================================================================
