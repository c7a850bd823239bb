------------------------------ MODULE Notices ------------------------------
(***************************************************************************)
(* Scope notices (bridge/scope_notice.go): a message that rx_scopes        *)
(* rejected is answered by a notice, at most once per sender and cooldown, *)
(* and once per scopeNoticeBridgeGap.  The notice goes through the send    *)
(* worker's queue like any send, so it composes with Pacing.  RunMeshcore's*)
(* goroutine is the only one that answers; the sweep runs beside it.       *)
(*                                                                         *)
(* One bridge is modelled: the limits of two never meet.                   *)
(***************************************************************************)
EXTENDS Pacing

CONSTANTS
    Nodes,       \* senders of rejected messages
    Cooldown,    \* scope_notice.cooldown_s
    Gap,         \* scopeNoticeBridgeGap
    MaxCooldown, \* maxNoticeCooldown, after which the sweep forgets a sender
    Never        \* no entry in noticeSent

ASSUME NoticeAssumption ==
    /\ Cooldown \in Nat /\ Gap \in Nat /\ MaxCooldown \in Nat
    /\ Gap <= Cooldown /\ Cooldown <= MaxCooldown /\ Never \notin Nat

VARIABLES
    noticeSent, \* noticeSent[n]: time since n's entry, up to MaxCooldown + 1
    noticeLast, \* time since the bridge's entry, up to Gap
    told        \* told[n]: time since a notice for n was decided on, up to Cooldown

noticeVars == <<noticeSent, noticeLast, told>>
vars == <<sendVars, noticeVars>>

NoticeInit ==
    /\ Init
    /\ noticeSent = [n \in Nodes |-> Never] /\ noticeLast = Gap
    /\ told = [n \in Nodes |-> Cooldown]

Limited(n) == noticeSent[n] # Never /\ noticeSent[n] < Cooldown
Busy == noticeLast < Gap

\* maybeScopeNotice for a message of n that is not limited: both times are taken
\* before the notice is queued, which may drop it.
Notify(n) ==
    /\ ~Limited(n) /\ ~Busy
    /\ noticeSent' = [noticeSent EXCEPT ![n] = 0] /\ noticeLast' = 0
    /\ told' = [told EXCEPT ![n] = 0]
    /\ Enqueued("notice")
    /\ UNCHANGED <<pc, job, attempt, waited, slept, txMu, sinceOwn, closed>>

\* A mutant of Sweep: senders are forgotten as soon as the bridge may speak again.
SweepSoon ==
    /\ \E n \in Nodes : noticeSent[n] # Never /\ noticeSent[n] >= Gap
    /\ noticeSent' = [n \in Nodes |->
           IF noticeSent[n] # Never /\ noticeSent[n] >= Gap THEN Never ELSE noticeSent[n]]
    /\ UNCHANGED <<sendVars, noticeLast, told>>

\* The sweep of noticeSent; noticeLast is kept.
Sweep ==
    /\ \E n \in Nodes : noticeSent[n] # Never /\ noticeSent[n] > MaxCooldown
    /\ noticeSent' = [n \in Nodes |->
           IF noticeSent[n] # Never /\ noticeSent[n] > MaxCooldown THEN Never ELSE noticeSent[n]]
    /\ UNCHANGED <<sendVars, noticeLast, told>>

Send == SendStep /\ UNCHANGED noticeVars

Tock ==
    /\ Tick
    /\ noticeSent' = [n \in Nodes |->
           IF noticeSent[n] = Never THEN Never ELSE Smaller(noticeSent[n] + 1, MaxCooldown + 1)]
    /\ noticeLast' = Smaller(noticeLast + 1, Gap)
    /\ told' = [n \in Nodes |-> Smaller(told[n] + 1, Cooldown)]

Next == Send \/ Tock \/ Sweep \/ \E n \in Nodes : Notify(n)

Spec == NoticeInit /\ [][Next]_vars

\* Time goes on as well.
FairSpec == Spec /\ SendFairness /\ WF_vars(Tock)

-----------------------------------------------------------------------------

TypeOK ==
    /\ PacingTypeOK
    /\ noticeSent \in [Nodes -> 0..(MaxCooldown + 1) \cup {Never}] /\ noticeLast \in 0..Gap
    /\ told \in [Nodes -> 0..Cooldown]

\* maybeScopeNotice: a sender gets at most one notice per cooldown and the bridge
\* decides on at most one per scopeNoticeBridgeGap, although the sweep forgets senders.
NoticesLimited ==
    [][\A n \in Nodes : Notify(n) => told[n] >= Cooldown /\ \A o \in Nodes : told[o] >= Gap]_vars

\* transmitMeshcoreScoped: every transmission that is due is made or given up, whatever
\* the air and the others do, and a full queue gets room again.
EventuallySent ==
    /\ \A g \in Senders : pc[g] = "lock" ~> pc[g] \in {"idle", "armed"}
    /\ Len(queue) = QueueCap ~> Len(queue) < QueueCap \/ closed

\* Meant to be refuted: a sender who is not to be told again was told, a notice that
\* uses up a cooldown being queued.
NoticeQueued == [][\A n \in Nodes : Notify(n) => queue' # queue]_vars

\* Meant to be refuted (scope_notice.go: "the minimum time between any two scope
\* notices from one bridge"): one notice at a time is on its way.
NoticesApart ==
    /\ \A i, k \in DOMAIN queue : queue[i] = "notice" /\ queue[k] = "notice" => i = k
    /\ pc[Worker] # "idle" /\ job[Worker] = "notice" => \A i \in DOMAIN queue : queue[i] # "notice"
=============================================================================
