------------------------------ MODULE EchoRetry ------------------------------
(***************************************************************************)
(* Meshtastic's retry on no repeat.  The Meshtastic API does not tell which*)
(* node relayed a packet, so the bridge only counts: every send of a text  *)
(* adds one pending echo under the text's key, every echo heard takes one  *)
(* off, and the check retry_wait_ms after a send retransmits if one is     *)
(* left.  The sweep drops the entry effectiveSelfEchoTTL after its last    *)
(* send.                                                                   *)
(*                                                                         *)
(* Modelled are sends of one text on one channel, since others do not      *)
(* share the entry.  Time is counted; timers fire when they are due.       *)
(***************************************************************************)
EXTENDS Integers, FiniteSets, FiniteSetsExt

CONSTANTS
    Sends,       \* packets sent with the text, each with its own packet ID
    RetryWait,   \* meshtastic.retry_wait_ms
    SelfEchoTTL, \* selfEchoTTL, the floor of effectiveSelfEchoTTL
    MaxSend,     \* longest SendTextOnChannel, the TX guard's wait included
    Horizon      \* bound: no packet is sent for the first time later

MaxRepeatRetries == 1

VARIABLES
    now,        \* the clock
    count,      \* pendingEcho.count; 0 if there is no entry
    sentAt,     \* pendingEcho.sentAt
    pc,         \* pc[s]: where the goroutine that sends s stands
    due,        \* due[s]: when it goes on
    attempt,    \* attempt[s]: 0 for the original send
    echoed,     \* echoed[s]: the attempts of s the mesh was heard to repeat
    taken,      \* echoes that took a pending one off
    satisfied   \* sends whose check found no pending echo

vars == <<now, count, sentAt, pc, due, attempt, echoed, taken, satisfied>>

Init ==
    /\ now = 0 /\ count = 0 /\ sentAt = 0
    /\ pc = [s \in Sends |-> "new"]
    /\ due = [s \in Sends |-> 0]
    /\ attempt = [s \in Sends |-> 0]
    /\ echoed = [s \in Sends |-> {}]
    /\ taken = 0 /\ satisfied = {}

\* effectiveSelfEchoTTL
EchoTTL == Max({SelfEchoTTL, RetryWait})

\* A mutant of OneLess: the whole entry goes.
NoneLeft == 0

\* Pending echoes after one is given up.
OneLess == IF count = 0 THEN 0 ELSE count - 1

\* Time passes up to the next thing that is due.
Tick ==
    /\ \A s \in Sends : pc[s] \in {"sending", "waiting"} => now < due[s]
    /\ \/ \E s \in Sends : pc[s] \in {"sending", "waiting"}
       \/ now < Horizon
       \/ count > 0 /\ now - sentAt <= EchoTTL
    /\ now' = now + 1
    /\ UNCHANGED <<count, sentAt, pc, due, attempt, echoed, taken, satisfied>>

\* transmitMeshtastic with a live session: the echo is announced before the
\* send, which may have to wait for the other radio.
Transmit(s) ==
    /\ pc[s] = "resend" \/ (pc[s] = "new" /\ now < Horizon)
    /\ pc' = [pc EXCEPT ![s] = "sending"]
    /\ \E d \in 0..MaxSend : due' = [due EXCEPT ![s] = now + d]
    /\ count' = count + 1
    /\ sentAt' = now
    /\ UNCHANGED <<now, attempt, echoed, taken, satisfied>>

\* No session, or the channel is not on the device.
NotConnected(s) ==
    /\ pc[s] \in {"new", "resend"}
    /\ pc' = [pc EXCEPT ![s] = "offline"]
    /\ UNCHANGED <<now, count, sentAt, due, attempt, echoed, taken, satisfied>>

\* The packet was handed to the radio.
Sent(s) ==
    /\ pc[s] = "sending" /\ now = due[s]
    /\ IF attempt[s] < MaxRepeatRetries
       THEN /\ pc' = [pc EXCEPT ![s] = "waiting"]
            /\ due' = [due EXCEPT ![s] = now + RetryWait]
       ELSE /\ pc' = [pc EXCEPT ![s] = "over"]
            /\ UNCHANGED due
    /\ UNCHANGED <<now, count, sentAt, attempt, echoed, taken, satisfied>>

\* The send failed: unmarkOutboundSent.
SendFailed(s) ==
    /\ pc[s] = "sending" /\ now = due[s]
    /\ pc' = [pc EXCEPT ![s] = "over"]
    /\ count' = OneLess
    /\ UNCHANGED <<now, sentAt, due, attempt, echoed, taken, satisfied>>

\* The attempts of s that were given to the radio; one that failed may have
\* gone out.
Aired(s) == 0..(IF pc[s] \in {"new", "resend", "offline"} THEN attempt[s] - 1 ELSE attempt[s])

\* A mutant of Echo: the pending echo is not taken off.
EchoUntaken(s) ==
    /\ \E n \in Aired(s) : echoed' = [echoed EXCEPT ![s] = @ \cup {n}]
    /\ taken' = IF count > 0 THEN taken + 1 ELSE taken
    /\ UNCHANGED <<now, count, sentAt, pc, due, attempt, satisfied>>

\* A node repeats s and the device passes it on: consumeSelfEcho.  Several
\* nodes may repeat one attempt.
Echo(s) ==
    /\ \E n \in Aired(s) : echoed' = [echoed EXCEPT ![s] = @ \cup {n}]
    /\ taken' = IF count > 0 THEN taken + 1 ELSE taken
    /\ count' = OneLess
    /\ UNCHANGED <<now, sentAt, pc, due, attempt, satisfied>>

\* echoUnheard, and the retry if a pending echo was left.
Check(s) ==
    /\ pc[s] = "waiting" /\ now = due[s]
    /\ IF count > 0
       THEN /\ pc' = [pc EXCEPT ![s] = "resend"]
            /\ attempt' = [attempt EXCEPT ![s] = @ + 1]
            /\ UNCHANGED satisfied
       ELSE /\ pc' = [pc EXCEPT ![s] = "over"]
            /\ satisfied' = satisfied \cup {s}
            /\ UNCHANGED attempt
    /\ count' = OneLess
    /\ UNCHANGED <<now, sentAt, due, echoed, taken>>

\* The sweep finds the entry too old.
Sweep ==
    /\ count > 0 /\ now - sentAt > EchoTTL
    /\ count' = 0
    /\ UNCHANGED <<now, sentAt, pc, due, attempt, echoed, taken, satisfied>>

Next ==
    \/ Tick \/ Sweep
    \/ \E s \in Sends : Transmit(s) \/ NotConnected(s) \/ Sent(s) \/ SendFailed(s)
                        \/ Echo(s) \/ Check(s)

Spec == Init /\ [][Next]_vars

-----------------------------------------------------------------------------

TypeOK ==
    /\ now \in Nat /\ count \in 0..Cardinality(Sends) * 2 /\ sentAt \in 0..now
    /\ pc \in [Sends -> {"new", "sending", "waiting", "resend", "offline", "over"}]
    /\ due \in [Sends -> Nat]
    /\ attempt \in [Sends -> 0..MaxRepeatRetries]
    /\ echoed \in [Sends -> SUBSET (0..MaxRepeatRetries)]
    /\ taken \in Nat /\ satisfied \subseteq Sends

\* pendingEcho.count: "one echo can't satisfy two distinct sends'
\* accounting", and the sweep satisfies none ("effectiveSelfEchoTTL keeps the
\* sweep from ever purging a key before the configured retry_wait_ms
\* elapses"): no more sends go without their retry than echoes were heard.
\* It holds while sending and waiting fit into the TTL; refuted when the send
\* itself takes its share of a TTL that is no longer than retry_wait_ms.
OneEchoOneSend == Cardinality(satisfied) <= taken

\* transmitMeshtastic: it is only "if no self-echo of chunk was heard by
\* then" that a text is retransmitted: never when every packet that carried
\* the text was heard, whichever of several identical sends counts the echo.
\* (Of two identical texts the one that was heard may be the one that is sent
\* again: echoes are counted for the text.)
RetriedOnlyUnheard ==
    [][\A s \in Sends : attempt'[s] # attempt[s] =>
          \E t \in Sends : Aired(t) \ echoed[t] # {}]_vars
=============================================================================
