------------------------------ MODULE MCInbound ------------------------------
(***************************************************************************)
(* Instances of Inbound for TLC: one or two packets of someone else (q, q2) *)
(* and a packet of ours (o); mapping a takes every scope, b only "near",   *)
(* c only "far".                                                           *)
(***************************************************************************)
EXTENDS Inbound, TLC

CONSTANTS q, q2, o, a, b, c, chan

\* q and o differ in their text, q2 repeats that of q.
Repeated == (q :> "q") @@ (q2 :> "q") @@ (o :> "o")
Single == q :> "q"

\* Scopes the packets are flooded in.
OneNear == q :> "near"
FarThenNear == (q :> "far") @@ (q2 :> "near") @@ (o :> "near")

\* rx_scopes of the mappings.
AllKinds == (a :> {}) @@ (b :> {"near"}) @@ (c :> {"far"})
BothOpen == (a :> {}) @@ (b :> {})
OnlyNear == b :> {"near"}

\* All mappings relay to the same Meshtastic channel, or to none.
SameChannel == (a :> chan) @@ (b :> chan) @@ (c :> chan)
NoMeshtastic == (a :> NoName) @@ (b :> NoName)

\* Devices that have the channel in slot 1.
SlotOne == {chan :> 1}
=============================================================================
