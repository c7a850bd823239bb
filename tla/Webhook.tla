------------------------------- MODULE Webhook -------------------------------
(***************************************************************************)
(* WebhookSender: the posts of one Discord webhook are queued by whoever   *)
(* relays to it, and sent one at a time by its worker, which waits and     *)
(* tries again when Discord answers 429.  Close stops the queue and gives  *)
(* the worker a limited time to drain it.                                  *)
(*                                                                         *)
(* Jobs are numbered in the order of the calls of Enqueue.  A request that *)
(* fails may have posted its job all the same, but no later than it fails. *)
(***************************************************************************)
EXTENDS Integers, Sequences, FiniteSets

CONSTANTS
    QueueSize,  \* webhookQueueSize
    MaxRetries, \* maxWebhookRetries
    MaxJobs     \* bound: calls of Enqueue

ASSUME WebhookAssumption ==
    QueueSize \in Nat \ {0} /\ MaxRetries \in Nat /\ MaxJobs \in Nat

VARIABLES
    offered, \* calls of Enqueue so far
    queue,   \* jobs in WebhookSender.queue
    dropped, \* jobs Enqueue dropped
    closed,  \* WebhookSender.closed
    pc,      \* where the worker stands
    job,     \* the job in its hands
    attempt, \* sendWithRetry's attempt
    posted,  \* jobs that appeared in Discord, in their order
    failed,  \* jobs given up
    closer   \* what has become of the call of Close

vars == <<offered, queue, dropped, closed, pc, job, attempt, posted, failed, closer>>

Jobs == 1..MaxJobs

Init ==
    /\ offered = 0 /\ queue = <<>> /\ dropped = {} /\ closed = FALSE
    /\ pc = "idle" /\ job = 0 /\ attempt = 0
    /\ posted = <<>> /\ failed = {}
    /\ closer = "none"

\* A job is dropped if the webhook is closed or its queue is full.
Enqueue ==
    /\ offered < MaxJobs
    /\ offered' = offered + 1
    /\ IF closed \/ Len(queue) = QueueSize
       THEN dropped' = dropped \cup {offered + 1} /\ UNCHANGED queue
       ELSE queue' = Append(queue, offered + 1) /\ UNCHANGED dropped
    /\ UNCHANGED <<closed, pc, job, attempt, posted, failed, closer>>

\* The worker takes the next job.
Take ==
    /\ pc = "idle" /\ queue # <<>>
    /\ pc' = "sending" /\ job' = Head(queue) /\ attempt' = 0
    /\ queue' = Tail(queue)
    /\ UNCHANGED <<offered, dropped, closed, posted, failed, closer>>

Posted ==
    /\ pc = "sending"
    /\ pc' = "idle"
    /\ posted' = Append(posted, job)
    /\ UNCHANGED <<offered, queue, dropped, closed, job, attempt, failed, closer>>

\* Discord refuses, or its answer does not come in time.
Failed ==
    /\ pc = "sending"
    /\ pc' = "idle"
    /\ failed' = failed \cup {job}
    /\ posted' = posted \/ posted' = Append(posted, job)
    /\ UNCHANGED <<offered, queue, dropped, closed, job, attempt, closer>>

\* A mutant of RateLimited: the job goes back to the end of the queue.
RateLimitedRequeue ==
    /\ pc = "sending"
    /\ pc' = "idle"
    /\ queue' = Append(queue, job)
    /\ UNCHANGED <<offered, dropped, closed, job, attempt, posted, failed, closer>>

\* 429: the worker waits before the next attempt, or the job is given up.
RateLimited ==
    /\ pc = "sending"
    /\ IF attempt < MaxRetries
       THEN pc' = "waiting" /\ UNCHANGED failed
       ELSE pc' = "idle" /\ failed' = failed \cup {job}
    /\ UNCHANGED <<offered, queue, dropped, closed, job, attempt, posted, closer>>

\* retry_after, at most maxWebhookRetryWait, is over.
Retry ==
    /\ pc = "waiting"
    /\ pc' = "sending" /\ attempt' = attempt + 1
    /\ UNCHANGED <<offered, queue, dropped, closed, job, posted, failed, closer>>

\* The queue is closed and drained: done is closed.
Exit ==
    /\ pc = "idle" /\ queue = <<>> /\ closed
    /\ pc' = "exited"
    /\ UNCHANGED <<offered, queue, dropped, closed, job, attempt, posted, failed, closer>>

Close ==
    /\ ~closed
    /\ closed' = TRUE /\ closer' = "waiting"
    /\ UNCHANGED <<offered, queue, dropped, pc, job, attempt, posted, failed>>

\* Close returns: done is closed, or the timeout is over.
CloseReturns ==
    /\ closer = "waiting"
    /\ \/ pc = "exited" /\ closer' = "drained"
       \/ closer' = "expired"
    /\ UNCHANGED <<offered, queue, dropped, closed, pc, job, attempt, posted, failed>>

Worker == Take \/ Posted \/ Failed \/ RateLimited \/ Retry \/ Exit

Next == Enqueue \/ Worker \/ Close \/ CloseReturns

Spec == Init /\ [][Next]_vars

\* The worker runs; every request returns (its context expires) and every
\* wait ends.
FairSpec == Spec /\ WF_vars(Worker)

-----------------------------------------------------------------------------

TypeOK ==
    /\ offered \in 0..MaxJobs
    /\ queue \in Seq(Jobs) /\ Len(queue) <= QueueSize
    /\ dropped \subseteq Jobs /\ failed \subseteq Jobs
    /\ closed \in BOOLEAN
    /\ pc \in {"idle", "sending", "waiting", "exited"}
    /\ job \in 0..MaxJobs /\ attempt \in 0..MaxRetries
    /\ posted \in Seq(Jobs)
    /\ closer \in {"none", "waiting", "drained", "expired"}

Increasing(seq) == \A i, j \in 1..Len(seq) : i < j => seq[i] < seq[j]

\* Enqueue: posts appear in the order of the calls of Enqueue, and none
\* appears twice, whatever is rate limited, retried, given up or dropped.
InOrder == Increasing(posted)

InHand == IF pc \in {"sending", "waiting"} THEN {job} ELSE {}
Elements(seq) == {seq[i] : i \in 1..Len(seq)}

\* A job Enqueue accepted is not lost on the way: it waits, is in the
\* worker's hands, was posted or was given up.
NothingVanishes ==
    1..offered = dropped \cup Elements(queue) \cup InHand \cup Elements(posted) \cup failed

\* Close returns before its timeout only when nothing is left to post.
DrainedIsDrained ==
    closer = "drained" => queue = <<>> /\ 1..offered = dropped \cup Elements(posted) \cup failed

\* Jobs wait behind those that were posted or are in the worker's hands.
OrderInv ==
    /\ Increasing(posted) /\ Increasing(queue)
    /\ \A i \in 1..Len(posted) : posted[i] <= job /\ (InHand # {} => posted[i] < job)
    /\ \A i \in 1..Len(queue) : job < queue[i] /\ queue[i] <= offered
    /\ job <= offered

\* The worker waits only for a retry it has left, and leaves only a closed,
\* empty queue behind.
ExitInv ==
    /\ pc = "waiting" => attempt < MaxRetries
    /\ pc = "exited" => queue = <<>> /\ closed
    /\ closer = "drained" => pc = "exited"

\* The inductive invariant.
WebhookInv == TypeOK /\ OrderInv /\ NothingVanishes /\ ExitInv

\* Every accepted job is posted or given up in the end, even if Discord
\* answers 429 for ever (maxWebhookRetries).
EventuallyHandled ==
    \A n \in Jobs : n \in Elements(queue) ~> n \in Elements(posted) \cup failed
=============================================================================
