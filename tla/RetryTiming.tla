----------------------------- MODULE RetryTiming -----------------------------
(***************************************************************************)
(* The retries of one chunk against the clock.  Delivery lets a timer fire *)
(* at any time and keeps the sweep away from chunks in flight; here time   *)
(* is counted, the sweep is let loose, and what keeps it away is a         *)
(* condition on the configuration:                                         *)
(*                                                                         *)
(*    (max_retries + 1) * (longest attempt) <= inboundDedupTTL.            *)
(*                                                                         *)
(* An attempt waits for the transmit lock and quiet air (queued), is sent, *)
(* and waits for retry_wait_ms with its jitter.                            *)
(***************************************************************************)
EXTENDS Naturals

CONSTANTS
    MaxRetries, \* meshcore.max_retries
    MaxQueue,   \* longest wait for the lock and for quiet air
    MaxSend,    \* longest SendPacket, the TX guard's wait included
    MinWait,    \* retry_wait_ms less 20%
    MaxWait,    \* retry_wait_ms and 20%
    TTL         \* inboundDedupTTL, which the sweep applies to deliveries

ASSUME TimingAssumption ==
    /\ MaxRetries \in Nat /\ MaxQueue \in Nat /\ MaxSend \in Nat
    /\ MinWait \in Nat /\ MaxWait \in Nat /\ TTL \in Nat
    /\ MinWait <= MaxWait

VARIABLES
    now,       \* the clock
    phase,     \* what the chunk waits for
    deadline,  \* when it stops waiting
    attempt,   \* number of the attempt
    tracked,   \* is there a delivery record?
    firstSent, \* when the record was made
    settled    \* times the chunk settled its receipt

vars == <<now, phase, deadline, attempt, tracked, firstSent, settled>>

Init ==
    /\ now = 0 /\ phase = "queued" /\ deadline \in 0..MaxQueue
    /\ attempt = 0 /\ tracked = FALSE /\ firstSent = 0 /\ settled = 0

Tick ==
    /\ IF phase = "over" THEN tracked /\ now - firstSent <= TTL ELSE now < deadline
    /\ now' = now + 1
    /\ UNCHANGED <<phase, deadline, attempt, tracked, firstSent, settled>>

\* The air is quiet: trackDelivery, then the send.
Track ==
    /\ phase = "queued" /\ now = deadline
    /\ phase' = "sending"
    /\ deadline' \in now..now + MaxSend
    /\ tracked' = TRUE
    /\ firstSent' = IF tracked THEN firstSent ELSE now
    /\ UNCHANGED <<now, attempt, settled>>

\* The radio accepted the packet; the check is due after the jittered wait.
Sent ==
    /\ phase = "sending" /\ now = deadline
    /\ phase' = "waiting"
    /\ deadline' \in (now + MinWait)..(now + MaxWait)
    /\ UNCHANGED <<now, attempt, tracked, firstSent, settled>>

\* reportDelivery settles the receipt that the record holds, if there is one.
ReportDelivery ==
    /\ phase' = "over"
    /\ settled' = IF tracked THEN settled + 1 ELSE settled
    /\ UNCHANGED <<now, deadline, attempt, tracked, firstSent>>

\* Nothing is sent, as the radio is not connected or no packet can be built: the original
\* settles at once, a retry reports.
NotSent ==
    /\ phase = "queued"
    /\ \/ /\ attempt = 0
          /\ phase' = "over" /\ settled' = settled + 1
          /\ UNCHANGED <<now, deadline, attempt, tracked, firstSent>>
       \/ attempt > 0 /\ ReportDelivery

\* The send failed: the original settles at once and forgets its record, a
\* retry reports.
SendFailed ==
    /\ phase = "sending" /\ now = deadline
    /\ \/ /\ attempt = 0
          /\ phase' = "over" /\ tracked' = FALSE /\ settled' = settled + 1
          /\ UNCHANGED <<now, deadline, attempt, firstSent>>
       \/ attempt > 0 /\ ReportDelivery

\* A mutant of Check: one retry too many.
CheckOnceMore ==
    /\ phase = "waiting" /\ now = deadline
    /\ \/ /\ attempt <= MaxRetries
          /\ phase' = "queued"
          /\ deadline' \in now..now + MaxQueue
          /\ attempt' = attempt + 1
          /\ UNCHANGED <<now, tracked, firstSent, settled>>
       \/ ReportDelivery

\* The check: retransmit while a retry is left, or report.
Check ==
    /\ phase = "waiting" /\ now = deadline
    /\ \/ /\ attempt < MaxRetries
          /\ phase' = "queued"
          /\ deadline' \in now..now + MaxQueue
          /\ attempt' = attempt + 1
          /\ UNCHANGED <<now, tracked, firstSent, settled>>
       \/ ReportDelivery

\* The sweep drops the record once it is older than the TTL.
Sweep ==
    /\ tracked /\ now - firstSent > TTL
    /\ tracked' = FALSE
    /\ UNCHANGED <<now, phase, deadline, attempt, firstSent, settled>>

Next == Tick \/ NotSent \/ Track \/ Sent \/ SendFailed \/ Check \/ Sweep

Spec == Init /\ [][Next]_vars

-----------------------------------------------------------------------------

\* The longest an attempt takes, from its turn for the lock to its check.
Attempt == MaxQueue + MaxSend + MaxWait

\* The configuration lets the sweep spare every chunk in flight.
ShortChains == (MaxRetries + 1) * Attempt <= TTL

TypeOK ==
    /\ now \in Nat /\ deadline \in Nat /\ firstSent \in Nat /\ settled \in Nat
    /\ attempt \in 0..MaxRetries
    /\ phase \in {"queued", "sending", "waiting", "over"}
    /\ tracked \in BOOLEAN

\* transmitMeshcoreFor: "Every chunk settles rc exactly once".  It holds for
\* ShortChains; refuted for the largest retry_wait_ms and max_retries that
\* Validate accepts, when the sweep runs between the last retry and its check.
SettlesOnce == settled = IF phase = "over" THEN 1 ELSE 0

\* The record of a chunk in flight is never swept, and holds the evidence of
\* every attempt.
RecordOutlivesRetries ==
    phase \in {"sending", "waiting"} \/ (phase = "queued" /\ attempt > 0) => tracked

\* A record is no older than the attempts so far.
RecordIsYoung ==
    tracked => LET spent == firstSent + attempt * Attempt IN
        /\ phase = "queued" => deadline <= spent + MaxQueue
        /\ phase = "sending" => deadline <= spent + MaxQueue + MaxSend
        /\ phase = "waiting" => deadline <= spent + Attempt

\* The inductive invariant.
RetryInv ==
    /\ TypeOK /\ SettlesOnce /\ RecordOutlivesRetries /\ RecordIsYoung
    /\ firstSent <= now
    /\ phase # "over" => now <= deadline
=============================================================================
