----------------------------- MODULE MCDelivery -----------------------------
(***************************************************************************)
(* Instances of Delivery for TLC: one message of two chunks (m1) and one   *)
(* of a single chunk (m2), every chunk its own packet.                     *)
(***************************************************************************)
EXTENDS Delivery, TLC

CONSTANTS m1, m2, p1, p2, p3, h1, h2, h3, o1

\* m1 has two chunks, m2 has one.
TwoAndOne == (m1 :> 2) @@ (m2 :> 1)
\* Every chunk is a packet of its own.
OwnPackets == (<<m1, 1>> :> p1) @@ (<<m1, 2>> :> p2) @@ (<<m2, 1>> :> p3)

\* A single message of two chunks.
Two == m1 :> 2
TwoPackets == (<<m1, 1>> :> p1) @@ (<<m1, 2>> :> p2)

\* A single message of one chunk.
One == m1 :> 1
OnePacket == <<m1, 1>> :> p1

\* Two messages of one chunk that are the same packet.
OneEach == (m1 :> 1) @@ (m2 :> 1)
SharedPacket == (<<m1, 1>> :> p1) @@ (<<m2, 1>> :> p1)

NoChunks == {}
SecondMessage == {<<m2, 1>>}
=============================================================================
