----------------------------- MODULE MCMcSession -----------------------------
(***************************************************************************)
(* Instances of McSession for TLC: a device with few channel slots, one of *)
(* them in use by another tool (f1).                                       *)
(***************************************************************************)
EXTENDS McSession, TLC

CONSTANTS k1, k2, f1

ForeignSecond == (0 :> Empty) @@ (1 :> f1) @@ (2 :> Empty)
ForeignPublic == (0 :> f1) @@ (1 :> k1) @@ (2 :> f1) @@ (3 :> Empty)
ForeignThird == (0 :> Empty) @@ (1 :> f1) @@ (2 :> Empty) @@ (3 :> f1)
OneFree == (0 :> Empty) @@ (1 :> Empty)
=============================================================================
