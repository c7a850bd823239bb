----------------------------- MODULE MCMtBridge -----------------------------
(* Small instances of the Meshtastic side: two or three slots, a channel   *)
(* that moves from one slot to another between two sessions, a blank       *)
(* disabled slot behind a blank primary channel, a channel that is gone.   *)
EXTENDS MtBridge, TLC

Slot(r, n) == [role |-> r, name |-> n]

\* The channel changes its slot, and leaves its name in the one it had when that
\* is disabled; or it is gone.
MCConfigs == {(0 :> Slot("primary", "") @@ 1 :> Slot("secondary", "alpha") @@ 2 :> Slot("disabled", "alpha")),
              (0 :> Slot("primary", "") @@ 1 :> Slot("disabled", "") @@ 2 :> Slot("secondary", "alpha")),
              (0 :> Slot("primary", "") @@ 1 :> Slot("disabled", "") @@ 2 :> Slot("disabled", ""))}

\* One channel takes another's slot.
MCRenamed == {(0 :> Slot("primary", "") @@ 1 :> Slot("secondary", "alpha")),
              (0 :> Slot("primary", "") @@ 1 :> Slot("secondary", "beta"))}

\* Bridges of one device that share a MeshCore channel, and one on the
\* primary channel.
MCName == "m1" :> "alpha" @@ "m2" :> "alpha" @@ "m3" :> "longfast" @@ "m4" :> "alpha"
MCChannel == "m1" :> "c1" @@ "m2" :> "c1" @@ "m3" :> "c2" @@ "m4" :> "c1"

\* ... and two of which one took over the other's slot.
MCRenamedName == "m1" :> "alpha" @@ "m2" :> "beta"
MCRenamedChannel == "m1" :> "c1" @@ "m2" :> "c2"

MCBy == "own" :> "m1"
MCText == "own" :> "hi" @@ "p" :> "hi" @@ "q" :> "hi" @@ "r" :> "yo"
MCOn == "own" :> "alpha" @@ "p" :> "alpha" @@ "q" :> "" @@ "r" :> "beta"
=============================================================================
