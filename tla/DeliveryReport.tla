--------------------------- MODULE DeliveryReport ---------------------------
(***************************************************************************)
(* What delivery reactions promise the author of a Discord message: the    *)
(* message gets one verdict, "delivered" is given only once every chunk    *)
(* has been proven to be heard and is never taken back, and "unconfirmed"  *)
(* is replaced by nothing but "delivered".                                 *)
(***************************************************************************)
CONSTANTS
    Msgs,       \* messages
    ChunksOf(_) \* the chunks of a message

VARIABLES
    proven, \* chunks whose delivery rule has been satisfied
    verdict \* verdict[m]: the verdict on message m

vars == <<proven, verdict>>

Init ==
    /\ proven = {}
    /\ verdict = [m \in Msgs |-> "none"]

\* Evidence proves some more chunks.
Prove ==
    /\ proven \subseteq proven' /\ proven' \subseteq UNION {ChunksOf(m) : m \in Msgs}
    /\ UNCHANGED verdict

Deliver(m) ==
    /\ verdict[m] \in {"none", "unconfirmed"}
    /\ ChunksOf(m) \subseteq proven
    /\ verdict' = [verdict EXCEPT ![m] = "delivered"]
    /\ UNCHANGED proven

GiveUp(m) ==
    /\ verdict[m] = "none"
    /\ verdict' = [verdict EXCEPT ![m] = "unconfirmed"]
    /\ UNCHANGED proven

Next == Prove \/ \E m \in Msgs : Deliver(m) \/ GiveUp(m)

Spec == Init /\ [][Next]_vars
=============================================================================
