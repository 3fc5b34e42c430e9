-------------------------- MODULE CertMinterProofs --------------------------
(***************************************************************************)
(* How long the leaves of the minter are good for, for any set of names    *)
(* and any lifetime.                                                       *)
(***************************************************************************)
EXTENDS CertMinter, TLAPS

\* What main.go and tlsmint.go give: the fallback host is a name like any other.
Sensible == Lifetime \in Nat /\ Backdate \in Nat /\ SlackHost \in Names

\* The leaf was minted for the name by this process.
MintedFor(leaf, name) == \E t \in born..clock : leaf = Leaf(name, t)

\* Every leaf in the cache stands under its own name and is at most as old as the
\* process; so is the one shown last, under the name that was asked for.
MinterInv ==
  /\ clock \in Nat /\ born \in Nat /\ Backdate <= born /\ born <= clock
  /\ cache = [n \in Names |-> cache[n]]
  /\ \A n \in Names : cache[n] # NoLeaf => MintedFor(cache[n], n)
  /\ shown # NoLeaf => MintedFor(shown, LeafName(hello))
  /\ hello \in {dialled, NoName}

\* A handshake is answered with a leaf of the cache, or with one minted now.
LEMMA HandshakeStep ==
  ASSUME Sensible, MinterInv, NEW host \in Names, NEW sni \in Names \cup {NoName},
         GetCertificate(host, sni)
  PROVE  MinterInv'
<1> DEFINE name == LeafName(sni)
<1>1. name \in Names /\ LeafName(hello)' = name /\ hello' \in {dialled', NoName}
  BY DEF Sensible, LeafName, GetCertificate, Cached, Mint, MintFails
<1>2. UNCHANGED <<clock, born>>
  BY DEF GetCertificate, Cached, Mint, MintFails
<1>3. CASE Cached(sni)
  BY <1>1, <1>2, <1>3 DEF Cached, MinterInv, MintedFor, Leaf
<1>4. CASE Mint(sni)
  <2>1. clock \in born..clock
    BY DEF MinterInv
  <2>2. /\ cache' = [cache EXCEPT ![name] = Leaf(name, clock)]
        /\ shown' = Leaf(name, clock)
    BY <1>4 DEF Mint
  <2>3. MintedFor(Leaf(name, clock), name)' /\ MintedFor(shown, LeafName(hello))'
    BY <1>1, <1>2, <2>1, <2>2 DEF MintedFor, Leaf
  <2>4. \A n \in Names : cache'[n] # NoLeaf => MintedFor(cache[n], n)'
    BY <1>1, <1>2, <2>1, <2>2 DEF MinterInv, MintedFor, Leaf
  <2> QED
    BY <1>1, <1>2, <2>2, <2>3, <2>4 DEF MinterInv
<1>5. CASE MintFails(sni)
  BY <1>1, <1>2, <1>5 DEF MintFails, MinterInv, MintedFor, Leaf
<1> QED
  BY <1>3, <1>4, <1>5 DEF GetCertificate

LEMMA MinterInvariant ==
  ASSUME Sensible PROVE Spec => []MinterInv
<1>1. Init => MinterInv
  BY DEF Sensible, Init, MinterInv
<1>2. MinterInv /\ [Next]_vars => MinterInv'
  <2> SUFFICES ASSUME MinterInv, [Next]_vars PROVE MinterInv'
    OBVIOUS
  <2>1. ASSUME NEW host \in Names, NEW sni \in Names \cup {NoName}, GetCertificate(host, sni)
        PROVE  MinterInv'
    BY <2>1, HandshakeStep, Zenon
  <2>2. CASE NewCertMinter
    BY <2>2 DEF Sensible, NewCertMinter, MinterInv
  <2>3. CASE Tick
    <3>1. clock' = clock + 1 /\ shown' = NoLeaf /\ UNCHANGED <<cache, born, dialled, hello>>
      BY <2>3 DEF Tick
    <3>2. born..clock \subseteq born'..clock'
      BY <3>1 DEF MinterInv
    <3>3. \A n \in Names : cache'[n] # NoLeaf => MintedFor(cache[n], n)'
      BY <3>1, <3>2 DEF MinterInv, MintedFor, Leaf
    <3> QED
      BY <3>1, <3>3 DEF MinterInv
  <2>4. CASE UNCHANGED vars
    BY <2>4 DEF vars, MinterInv, MintedFor, Leaf, LeafName
  <2> QED
    BY <2>1, <2>2, <2>3, <2>4 DEF Next
<1> QED
  BY <1>1, <1>2, PTL DEF Spec

\* In the first year of a broker process an actor accepts every leaf certFor
\* returns, cached or fresh, unless it dialled another host without naming it.
THEOREM AlwaysAcceptedWhileYoung ==
  ASSUME Sensible PROVE Spec => []AcceptedWhileYoung
<1>1. MinterInv => AcceptedWhileYoung
  <2> SUFFICES ASSUME MinterInv, clock <= born + Lifetime, shown # NoLeaf,
                      hello # NoName \/ dialled = SlackHost
               PROVE  Accepts(dialled, shown)
    BY DEF AcceptedWhileYoung
  <2>1. LeafName(hello) = dialled
    BY DEF MinterInv, LeafName
  <2>2. PICK t \in born..clock : shown = Leaf(dialled, t)
    BY <2>1 DEF MinterInv, MintedFor
  <2> QED
    BY <2>2 DEF Sensible, MinterInv, Leaf, Accepts
<1>2. Spec => []MinterInv
  BY MinterInvariant
<1> QED
  BY <1>1, <1>2, PTL
=============================================================================
