------------------------------- MODULE Pacing -------------------------------
(***************************************************************************)
(* Listen before talk on the MeshCore side (bridge/pacing.go).  The send   *)
(* worker takes sends from its queue; the timers of retries come beside    *)
(* it.  Whoever holds meshcoreTxMu waits for quiet air and for a minimum   *)
(* gap to our own last transmission, but never longer than its cap, which  *)
(* is looked at between two sleeps of 350 to 650 ms.                       *)
(*                                                                         *)
(* Time is counted in ticks.  What the radio hears is nobody's choice here:*)
(* the channel is busy or not at each look.  A send is one chunk, and the  *)
(* check after it finds it confirmed or not.                               *)
(***************************************************************************)
EXTENDS Integers, Sequences

CONSTANTS
    BusyWait,   \* meshcore.busy_wait
    Spacing,    \* minTxSpacing
    Cap,        \* busyMaxDefer
    Extra,      \* what a retry may wait beyond it
    MinPoll,    \* the shortest and
    MaxPoll,    \*   the longest sleep between two looks
    MaxRetries, \* meshcore.max_retries
    QueueCap,   \* relayQueueCap
    Timers      \* bound: retry timers at a time

Worker == "worker"
Nobody == "nobody"
Senders == {Worker} \cup Timers

ASSUME PacingAssumption ==
    /\ BusyWait \in BOOLEAN
    /\ Spacing \in Nat /\ Cap \in Nat /\ Extra \in Nat
    /\ MinPoll \in Nat \ {0} /\ MaxPoll \in Nat /\ MinPoll <= MaxPoll
    /\ MaxRetries \in Nat /\ QueueCap \in Nat \ {0}
    /\ Worker \notin Timers /\ Nobody \notin Timers

VARIABLES
    queue,    \* relayQ
    pc,       \* pc[g]: where goroutine g stands
    job,      \* job[g]: what it sends
    attempt,  \* attempt[g]: transmitMeshcoreScoped's attempt
    waited,   \* waited[g]: how long it has waited for quiet air
    slept,    \* slept[g]: how long it has slept since it looked
    txMu,     \* holder of meshcoreTxMu, or Nobody
    sinceOwn, \* time since lastOwnTx, up to Spacing
    closed    \* is closedCh closed?

sendVars == <<queue, pc, job, attempt, waited, slept, txMu, sinceOwn, closed>>

Jobs == {"relay", "notice"}

Smaller(a, b) == IF a < b THEN a ELSE b

Init ==
    /\ queue = <<>>
    /\ pc = [g \in Senders |-> "idle"]
    /\ job = [g \in Senders |-> "relay"]
    /\ attempt = [g \in Senders |-> 0]
    /\ waited = [g \in Senders |-> 0] /\ slept = [g \in Senders |-> 0]
    /\ txMu = Nobody /\ sinceOwn = Spacing
    /\ closed = FALSE

-----------------------------------------------------------------------------

\* enqueueRelay: a full queue drops the send.
Enqueued(j) == queue' = IF Len(queue) < QueueCap THEN Append(queue, j) ELSE queue

\* A message to relay.
Relay ==
    /\ Enqueued("relay")
    /\ UNCHANGED <<pc, job, attempt, waited, slept, txMu, sinceOwn, closed>>

\* The worker takes a send; once the bridge is closed it may as well leave.
Take ==
    /\ pc[Worker] = "idle" /\ queue # <<>>
    /\ pc' = [pc EXCEPT ![Worker] = "lock"]
    /\ job' = [job EXCEPT ![Worker] = Head(queue)]
    /\ queue' = Tail(queue)
    /\ UNCHANGED <<attempt, waited, slept, txMu, sinceOwn, closed>>

Leave ==
    /\ pc[Worker] = "idle" /\ closed
    /\ pc' = [pc EXCEPT ![Worker] = "left"]
    /\ UNCHANGED <<queue, job, attempt, waited, slept, txMu, sinceOwn, closed>>

\* g has no send any more: the worker is free, a timer's goroutine ends.
Done(g) ==
    /\ pc' = [pc EXCEPT ![g] = "idle"]
    /\ job' = [job EXCEPT ![g] = "relay"] /\ attempt' = [attempt EXCEPT ![g] = 0]

\* The check after the retry wait: nothing to do, or another attempt.
Fire(t) ==
    /\ t \in Timers /\ pc[t] = "armed"
    /\ \/ pc' = [pc EXCEPT ![t] = "lock"] /\ UNCHANGED <<job, attempt>>
       \/ Done(t)
    /\ UNCHANGED <<queue, waited, slept, txMu, sinceOwn, closed>>

\* A mutant of Lock: meshcoreTxMu is not taken.
LockNothing(g) ==
    /\ pc[g] = "lock"
    /\ pc' = [pc EXCEPT ![g] = "look"]
    /\ UNCHANGED <<queue, job, attempt, waited, slept, txMu, sinceOwn, closed>>

\* transmitMeshcoreScoped begins: with meshcoreTxMu, and with a session.
Lock(g) ==
    /\ pc[g] = "lock" /\ txMu = Nobody
    /\ \/ /\ pc' = [pc EXCEPT ![g] = "look"] /\ txMu' = g
          /\ UNCHANGED <<job, attempt>>
       \/ Done(g) /\ UNCHANGED txMu
    /\ UNCHANGED <<queue, waited, slept, sinceOwn, closed>>

\* deferCap
DeferCap(g) == IF attempt[g] > 0 THEN Cap + Extra ELSE Cap

\* A mutant of Look: the cap holds for the spacing only, not for busy air.
LookUncapped(g) ==
    /\ pc[g] = "look"
    /\ \E busy \in BOOLEAN :
           IF ~BusyWait \/ (~busy /\ (waited[g] >= DeferCap(g) \/ sinceOwn >= Spacing)) \/ closed
           THEN pc' = [pc EXCEPT ![g] = "send"]
           ELSE pc' = [pc EXCEPT ![g] = "sleep"]
    /\ UNCHANGED <<queue, job, attempt, waited, slept, txMu, sinceOwn, closed>>

\* One turn of waitForQuietAir.
Look(g) ==
    /\ pc[g] = "look"
    /\ \E busy \in BOOLEAN :
           IF ~BusyWait \/ waited[g] >= DeferCap(g) \/ (~busy /\ sinceOwn >= Spacing) \/ closed
           THEN pc' = [pc EXCEPT ![g] = "send"]
           ELSE pc' = [pc EXCEPT ![g] = "sleep"]
    /\ UNCHANGED <<queue, job, attempt, waited, slept, txMu, sinceOwn, closed>>

Wake(g) ==
    /\ pc[g] = "sleep" /\ slept[g] >= MinPoll
    /\ pc' = [pc EXCEPT ![g] = "look"] /\ slept' = [slept EXCEPT ![g] = 0]
    /\ UNCHANGED <<queue, job, attempt, waited, txMu, sinceOwn, closed>>

\* After a send that was accepted a timer for its retry may be left behind.
Sent(g) ==
    \/ Done(g)
    \/ \E t \in Timers :
           /\ attempt[g] < MaxRetries /\ ~closed
           /\ t = g \/ pc[t] = "idle"
           /\ pc' = [pc EXCEPT ![g] = "idle", ![t] = "armed"]
           /\ job' = [job EXCEPT ![g] = "relay", ![t] = job[g]]
           /\ attempt' = [attempt EXCEPT ![g] = 0, ![t] = attempt[g] + 1]

Accepted(g) ==
    /\ pc[g] = "send"
    /\ Sent(g)
    /\ sinceOwn' = 0
    /\ txMu' = Nobody /\ waited' = [waited EXCEPT ![g] = 0]
    /\ UNCHANGED <<queue, slept, closed>>

\* A mutant of Failed: an error's early return keeps meshcoreTxMu.
FailedLocked(g) ==
    /\ pc[g] = "send"
    /\ Done(g)
    /\ waited' = [waited EXCEPT ![g] = 0]
    /\ UNCHANGED <<queue, slept, txMu, sinceOwn, closed>>

\* SendPacket returned an error.
Failed(g) ==
    /\ pc[g] = "send"
    /\ Done(g)
    /\ txMu' = Nobody /\ waited' = [waited EXCEPT ![g] = 0]
    /\ UNCHANGED <<queue, slept, sinceOwn, closed>>

\* Close stops the timers that have not fired.
Close ==
    /\ ~closed /\ closed' = TRUE
    /\ pc' = [g \in Senders |-> IF pc[g] = "armed" THEN "idle" ELSE pc[g]]
    /\ job' = [g \in Senders |-> IF pc[g] = "armed" THEN "relay" ELSE job[g]]
    /\ attempt' = [g \in Senders |-> IF pc[g] = "armed" THEN 0 ELSE attempt[g]]
    /\ UNCHANGED <<queue, waited, slept, txMu, sinceOwn>>

\* Time passes.  A look takes none, and a sleeper oversleeps no longest poll.
Tick ==
    /\ \A g \in Senders : pc[g] # "look" /\ (pc[g] = "sleep" => slept[g] < MaxPoll)
    /\ sinceOwn' = Smaller(sinceOwn + 1, Spacing)
    /\ waited' = [g \in Senders |-> IF pc[g] = "sleep" THEN waited[g] + 1 ELSE waited[g]]
    /\ slept' = [g \in Senders |-> IF pc[g] = "sleep" THEN slept[g] + 1 ELSE slept[g]]
    /\ UNCHANGED <<queue, pc, job, attempt, txMu, closed>>

Turn(g) == Look(g) \/ Wake(g) \/ Accepted(g) \/ Failed(g)

SendStep ==
    \/ Relay \/ Take \/ Leave \/ Close
    \/ \E t \in Timers : Fire(t)
    \/ \E g \in Senders : Lock(g) \/ Turn(g)

\* The goroutines run, requests end and timers fire; a mutex of Go does not starve
\* a waiter.
SendFairness ==
    /\ WF_sendVars(Take)
    /\ \A t \in Timers : WF_sendVars(Fire(t))
    /\ \A g \in Senders : SF_sendVars(Lock(g)) /\ WF_sendVars(Turn(g))

-----------------------------------------------------------------------------

PacingTypeOK ==
    /\ queue \in Seq(Jobs) /\ Len(queue) <= QueueCap
    /\ pc \in [Senders -> {"idle", "armed", "lock", "look", "sleep", "send", "left"}]
    /\ job \in [Senders -> Jobs] /\ attempt \in [Senders -> 0..MaxRetries]
    /\ waited \in [Senders -> Nat] /\ slept \in [Senders -> 0..MaxPoll]
    /\ txMu \in Senders \cup {Nobody}
    /\ sinceOwn \in 0..Spacing /\ closed \in BOOLEAN

Leaves(g) == pc[g] = "send" /\ pc'[g] # "send"

\* waitForQuietAir, meshcoreTxMu: a transmission leaves at least minTxSpacing after
\* our last one that was accepted, although retries come beside the queue - unless it
\* has waited for its whole cap, or hoplink shuts down.
SpacedUnlessDeferred ==
    [][\A g \in Senders :
          Leaves(g) => ~BusyWait \/ sinceOwn >= Spacing \/ waited[g] >= DeferCap(g) \/ closed
      ]_sendVars

\* waitForQuietAir ("a message is never held hostage"): however busy the channel is,
\* no send waits for it longer than its cap and the sleep in which that ended.
DeferralBounded == \A g \in Senders : waited[g] < DeferCap(g) + MaxPoll

=============================================================================
