----------------------------- MODULE CertMinter -----------------------------
(***************************************************************************)
(* The certificate minter of cmd/egress-broker/tlsmint.go: the TLS leaf an *)
(* actor is shown for the host name it believes to dial, and the cache of  *)
(* leaves.  getCertificate runs in the goroutine of each handshake; certFor*)
(* holds mu from beginning to end, so it is one action.                    *)
(*                                                                         *)
(* Keys, serials and signatures are left out: a leaf is the name it is for *)
(* and the time it is valid.  The process may be replaced, which empties   *)
(* the cache.                                                              *)
(***************************************************************************)
EXTENDS Naturals

CONSTANTS
  Names,      \* DNS names actors dial
  SlackHost,  \* "slack.com", for a client without SNI
  NoName,     \* no SNI
  NoLeaf,     \* nothing cached, or a handshake that failed
  Lifetime,   \* NotAfter minus the time of minting, in clock ticks (365 days)
  Backdate,   \* the time of minting minus NotBefore (one hour)
  MaxTime     \* bound on the clock

VARIABLES
  cache,    \* name -> leaf, guarded by mu
  clock,    \* m.now, and the actor's clock
  dialled,  \* the name the client of the last handshake dialled
  hello,    \* the SNI it sent
  shown,    \* the leaf it was given
  born      \* when the process was started

vars == <<cache, clock, dialled, hello, shown, born>>

Leaf(name, now) == [name |-> name, notBefore |-> now - Backdate, notAfter |-> now + Lifetime]

Init ==
  /\ cache = [n \in Names |-> NoLeaf]
  /\ clock = Backdate /\ born = Backdate
  /\ dialled = SlackHost /\ hello = SlackHost /\ shown = NoLeaf

\* The name getCertificate asks certFor for.
LeafName(sni) == IF sni = NoName THEN SlackHost ELSE sni

\* certFor finds the name in the cache.
Cached(sni) ==
  /\ cache[LeafName(sni)] # NoLeaf
  /\ hello' = sni /\ shown' = cache[LeafName(sni)]
  /\ UNCHANGED <<cache, clock, born>>

\* It mints a leaf and keeps it.
Mint(sni) ==
  /\ cache[LeafName(sni)] = NoLeaf
  /\ cache' = [cache EXCEPT ![LeafName(sni)] = Leaf(LeafName(sni), clock)]
  /\ hello' = sni /\ shown' = Leaf(LeafName(sni), clock)
  /\ UNCHANGED <<clock, born>>

\* Drawing the key or the serial, or signing, fails: the handshake does too, and
\* nothing is cached.
MintFails(sni) ==
  /\ cache[LeafName(sni)] = NoLeaf
  /\ hello' = sni /\ shown' = NoLeaf
  /\ UNCHANGED <<cache, clock, born>>

\* A handshake with a client that dialled host and named it in its hello, or not.
GetCertificate(host, sni) ==
  /\ sni \in {host, NoName}
  /\ dialled' = host
  /\ Cached(sni) \/ Mint(sni) \/ MintFails(sni)

\* The broker process is replaced: newCertMinter makes an empty cache.
NewCertMinter ==
  /\ cache' = [n \in Names |-> NoLeaf]
  /\ shown' = NoLeaf /\ born' = clock
  /\ UNCHANGED <<clock, dialled, hello>>

\* Time passes between handshakes; the last one is over.
Tick ==
  /\ clock < MaxTime
  /\ clock' = clock + 1
  /\ shown' = NoLeaf
  /\ UNCHANGED <<cache, dialled, hello, born>>

Next ==
  \/ \E host \in Names, sni \in Names \cup {NoName} : GetCertificate(host, sni)
  \/ NewCertMinter
  \/ Tick

Spec == Init /\ [][Next]_vars

-----------------------------------------------------------------------------
(* Properties.                                                             *)

\* What the actor's TLS client checks of a leaf: the name it dialled, and the time.
Accepts(host, leaf) ==
  /\ leaf.name = host
  /\ leaf.notBefore <= clock /\ clock <= leaf.notAfter

\* tlsmint.go:33: "On each handshake it mints a leaf certificate for the requested
\* SNI", so that "the actor's TLS validation succeeds".  A leaf is minted once per
\* name and never dropped: after its NotAfter every handshake for that name is
\* refused by the actor, until the broker is restarted.
LeafAccepted == (shown # NoLeaf /\ hello # NoName) => Accepts(dialled, shown)

\* What the code does keep: in the first year of a broker process the actor accepts
\* every leaf, cached or fresh; without SNI too if slack.com is what it dialled.
AcceptedWhileYoung ==
  (/\ clock <= born + Lifetime /\ shown # NoLeaf
   /\ hello # NoName \/ dialled = SlackHost) => Accepts(dialled, shown)
=============================================================================
