-------------------------- MODULE LifecycleProofs --------------------------
(***************************************************************************)
(* The posts of a webhook are in order and complete, for every queue size, *)
(* number of retries and number of jobs: WebhookInv is inductive.  And the *)
(* process uses the webhook as its specification says, so that what is     *)
(* proved of the webhook holds while hoplink runs and shuts down; and what *)
(* finds the webhook closed is a Discord message that came after every     *)
(* loop had ended.  For any number of loops.                               *)
(***************************************************************************)
EXTENDS Lifecycle, TLAPS

\* A sequence stays increasing when a larger job is appended, and its
\* elements grow by that job.
LEMMA AppendJob ==
    ASSUME NEW q \in Seq(Int), NEW n \in Int, Increasing(q),
           \A i \in 1..Len(q) : q[i] < n
    PROVE  /\ Increasing(Append(q, n))
           /\ Elements(Append(q, n)) = Elements(q) \cup {n}
<1>1. /\ Append(q, n) \in Seq(Int) /\ Len(Append(q, n)) = Len(q) + 1
      /\ Append(q, n)[Len(q) + 1] = n
      /\ \A i \in 1..Len(q) : Append(q, n)[i] = q[i]
  OBVIOUS
<1>2. Len(q) \in Nat /\ \A i \in 1..Len(q) : q[i] \in Int
  OBVIOUS
<1>3. Increasing(Append(q, n))
  BY <1>1, <1>2 DEF Increasing
<1>4. Elements(Append(q, n)) = Elements(q) \cup {n}
  <2>1. Elements(Append(q, n)) \subseteq Elements(q) \cup {n}
    BY <1>1, <1>2 DEF Elements
  <2>2. \A x \in Elements(q) : x \in Elements(Append(q, n))
    BY <1>1, <1>2 DEF Elements
  <2>3. n \in Elements(Append(q, n))
    BY <1>1, <1>2 DEF Elements
  <2>4. QED
    BY <2>1, <2>2, <2>3
<1>5. QED
  BY <1>3, <1>4

\* Without its head an increasing sequence is increasing, its elements are
\* those but the head, and larger than the head.
LEMMA TakeJob ==
    ASSUME NEW q \in Seq(Int), Increasing(q), q # <<>>
    PROVE  /\ Tail(q) \in Seq(Int) /\ Len(Tail(q)) = Len(q) - 1
           /\ Head(q) \in Int /\ Head(q) = q[1]
           /\ \A i \in 1..Len(Tail(q)) : Tail(q)[i] = q[i + 1] /\ Head(q) < Tail(q)[i]
           /\ Increasing(Tail(q))
           /\ Elements(q) = Elements(Tail(q)) \cup {Head(q)}
<1>1. /\ Tail(q) \in Seq(Int) /\ Len(Tail(q)) = Len(q) - 1
      /\ Head(q) \in Int /\ Head(q) = q[1]
      /\ Len(q) \in Nat /\ Len(q) >= 1
      /\ \A i \in 1..Len(q) : q[i] \in Int
  <2>1. Len(q) \in Nat /\ Len(q) >= 1 /\ \A i \in 1..Len(q) : q[i] \in Int
    OBVIOUS
  <2>2. Tail(q) \in Seq(Int) /\ Len(Tail(q)) = Len(q) - 1
    OBVIOUS
  <2>3. Head(q) = q[1]
    OBVIOUS
  <2>4. QED
    BY <2>1, <2>2, <2>3
<1>2. \A i \in 1..Len(Tail(q)) : Tail(q)[i] = q[i + 1]
  OBVIOUS
<1>3. \A i \in 1..Len(Tail(q)) : Head(q) < Tail(q)[i]
  BY <1>1, <1>2 DEF Increasing
<1>4. Increasing(Tail(q))
  BY <1>1, <1>2 DEF Increasing
<1>5. Elements(q) = Elements(Tail(q)) \cup {Head(q)}
  <2>1. ASSUME NEW i \in 1..Len(q)
        PROVE  q[i] \in Elements(Tail(q)) \cup {Head(q)}
    <3>1. CASE i = 1
      BY <3>1, <1>1
    <3>2. CASE i # 1
      <4>1. i - 1 \in 1..Len(Tail(q)) /\ (i - 1) + 1 = i
        BY <3>2, <1>1
      <4>2. QED
        BY <4>1, <1>2 DEF Elements
    <3>3. QED
      BY <3>1, <3>2
  <2>2. \A i \in 1..Len(Tail(q)) : i + 1 \in 1..Len(q)
    BY <1>1
  <2>3. Elements(Tail(q)) \subseteq Elements(q)
    BY <2>2, <1>2 DEF Elements
  <2>4. Head(q) \in Elements(q)
    BY <1>1 DEF Elements
  <2>5. Elements(q) \subseteq Elements(Tail(q)) \cup {Head(q)}
    BY <2>1 DEF Elements
  <2>6. QED
    BY <2>3, <2>4, <2>5
<1>6. QED
  BY <1>1, <1>2, <1>3, <1>4, <1>5

\* Nothing has been queued or posted at first.
LEMMA WebhookInvInit == Init => WebhookInv
<1>1. ASSUME Init
      PROVE  TypeOK
  <2>1. queue \in Seq(Jobs) /\ Len(queue) = 0 /\ posted \in Seq(Jobs)
    BY <1>1 DEF Init
  <2>2. closed \in BOOLEAN
    BY <1>1, Zenon DEF Init
  <2>3. QED
    BY <1>1, <2>1, <2>2, WebhookAssumption DEF Init, TypeOK
<1>2. ASSUME Init
      PROVE  OrderInv
  BY <1>2 DEF Init, OrderInv, Increasing, InHand
<1>3. ASSUME Init
      PROVE  NothingVanishes
  <2>1. 1..offered = {} /\ Elements(queue) = {} /\ Elements(posted) = {}
    BY <1>3 DEF Init, Elements
  <2>2. InHand = {} /\ dropped = {} /\ failed = {}
    BY <1>3 DEF Init, InHand
  <2>3. QED
    BY <2>1, <2>2 DEF NothingVanishes
<1>4. ASSUME Init
      PROVE  ExitInv
  BY <1>4 DEF Init, ExitInv
<1>5. QED
  BY <1>1, <1>2, <1>3, <1>4 DEF WebhookInv

\* A call of Enqueue puts its job behind all others, or drops it.
LEMMA EnqueueStep ==
    ASSUME WebhookInv, Enqueue
    PROVE  WebhookInv'
<1>0. /\ offered \in 0..MaxJobs /\ offered < MaxJobs /\ offered' = offered + 1
      /\ MaxJobs \in Nat /\ queue \in Seq(Int) /\ offered + 1 \in Jobs
  BY WebhookAssumption DEF WebhookInv, TypeOK, Enqueue, Jobs
<1>1. CASE closed \/ Len(queue) = QueueSize
  <2>1. /\ dropped' = dropped \cup {offered + 1}
        /\ UNCHANGED <<queue, closed, pc, job, attempt, posted, failed, closer>>
    BY <1>1 DEF Enqueue
  <2>2. TypeOK'
    BY <1>0, <2>1 DEF WebhookInv, TypeOK, Jobs
  <2>3. OrderInv'
    BY <1>0, <2>1 DEF WebhookInv, TypeOK, Jobs, OrderInv, Increasing, InHand
  <2>4. NothingVanishes'
    <3>1. 1..offered' = (1..offered) \cup {offered + 1}
      BY <1>0
    <3>2. /\ InHand' = InHand /\ Elements(queue)' = Elements(queue)
          /\ Elements(posted)' = Elements(posted)
      BY <2>1 DEF InHand, Elements
    <3>3. QED
      BY <3>1, <3>2, <2>1 DEF WebhookInv, NothingVanishes
  <2>5. ExitInv'
    BY <2>1 DEF WebhookInv, ExitInv
  <2>6. QED
    BY <2>2, <2>3, <2>4, <2>5 DEF WebhookInv
<1>2. CASE ~(closed \/ Len(queue) = QueueSize)
  <2>1. /\ queue' = Append(queue, offered + 1)
        /\ UNCHANGED <<dropped, closed, pc, job, attempt, posted, failed, closer>>
    BY <1>2 DEF Enqueue
  <2>a. \A i \in 1..Len(queue) : queue[i] < offered + 1
    <3>1. \A i \in 1..Len(queue) : queue[i] \in Int /\ queue[i] <= offered
      BY <1>0 DEF WebhookInv, OrderInv
    <3>2. QED
      BY <3>1, <1>0
  <2>b. Increasing(queue') /\ Elements(queue') = Elements(queue) \cup {offered + 1}
    <3>1. offered + 1 \in Int /\ Increasing(queue)
      BY <1>0 DEF WebhookInv, OrderInv
    <3>2. QED
      BY <3>1, <1>0, <2>1, <2>a, AppendJob
  <2>2. TypeOK'
    <3>1. queue' \in Seq(Jobs) /\ Len(queue') = Len(queue) + 1 /\ Len(queue) < QueueSize
      BY <1>0, <1>2, <2>1, WebhookAssumption DEF WebhookInv, TypeOK
    <3>2. Len(queue') <= QueueSize
      BY <3>1, WebhookAssumption DEF WebhookInv, TypeOK
    <3>3. QED
      BY <1>0, <2>1, <3>1, <3>2 DEF WebhookInv, TypeOK
  <2>3. OrderInv'
    <3>1. /\ Len(queue') = Len(queue) + 1 /\ queue'[Len(queue) + 1] = offered + 1
          /\ \A i \in 1..Len(queue) : queue'[i] = queue[i] /\ queue[i] \in Int
          /\ Len(queue) \in Nat
      BY <1>0, <2>1
    <3>2. job \in Int /\ job <= offered
      BY DEF WebhookInv, TypeOK, OrderInv
    <3>3. \A i \in 1..Len(queue') : job < queue'[i] /\ queue'[i] <= offered'
      BY <3>1, <3>2, <1>0 DEF WebhookInv, OrderInv
    <3>4. InHand' = InHand
      BY <2>1 DEF InHand
    <3>5. QED
      BY <2>b, <3>2, <3>3, <3>4, <1>0, <2>1 DEF WebhookInv, OrderInv
  <2>4. NothingVanishes'
    <3>1. 1..offered' = (1..offered) \cup {offered + 1}
      BY <1>0
    <3>2. InHand' = InHand /\ Elements(posted)' = Elements(posted)
      BY <2>1 DEF InHand, Elements
    <3>3. QED
      BY <3>1, <3>2, <2>1, <2>b DEF WebhookInv, NothingVanishes
  <2>5. ExitInv'
    BY <1>2, <2>1 DEF WebhookInv, ExitInv
  <2>6. QED
    BY <2>2, <2>3, <2>4, <2>5 DEF WebhookInv
<1>3. QED
  BY <1>1, <1>2

\* The worker takes the first job, which comes after all it took before.
LEMMA TakeStep ==
    ASSUME WebhookInv, Take
    PROVE  WebhookInv'
<1>1. /\ pc = "idle" /\ queue # <<>> /\ pc' = "sending" /\ job' = Head(queue)
      /\ attempt' = 0 /\ queue' = Tail(queue)
      /\ UNCHANGED <<offered, dropped, closed, posted, failed, closer>>
  BY DEF Take
<1>2. queue \in Seq(Jobs) /\ queue \in Seq(Int) /\ Increasing(queue)
  BY WebhookAssumption DEF WebhookInv, TypeOK, OrderInv, Jobs
<1>a. queue' \in Seq(Jobs) /\ Head(queue) \in Jobs /\ Head(queue) \in Int
  <2>1. Tail(queue) \in Seq(Jobs) /\ Head(queue) \in Jobs
    BY <1>1, <1>2
  <2>2. Jobs \subseteq Int
    BY DEF Jobs
  <2>3. QED
    BY <1>1, <2>1, <2>2
<1>3. /\ queue' \in Seq(Jobs) /\ Len(queue') = Len(queue) - 1
      /\ job' \in Jobs /\ job' = queue[1]
      /\ \A i \in 1..Len(queue') : queue'[i] = queue[i + 1] /\ job' < queue'[i]
      /\ Increasing(queue')
      /\ Elements(queue) = Elements(queue') \cup {job'}
  BY <1>1, <1>2, <1>a, TakeJob
<1>4. TypeOK'
  BY <1>1, <1>3, WebhookAssumption DEF WebhookInv, TypeOK, Jobs
<1>5. OrderInv'
  <2>1. Len(queue) \in Nat /\ Len(queue) >= 1
    BY <1>1, <1>2
  <2>2. job < job' /\ job' <= offered'
    BY <1>1, <1>3, <2>1 DEF WebhookInv, OrderInv
  <2>3. job \in Int /\ job' \in Int /\ offered \in Int
    BY <1>1, <1>a DEF WebhookInv, TypeOK
  <2>4. \A i \in 1..Len(posted) : posted[i] \in Int /\ posted[i] <= job
    <3>0. posted \in Seq(Int)
      BY WebhookAssumption DEF WebhookInv, TypeOK, Jobs
    <3>1. \A i \in 1..Len(posted) : posted[i] \in Int
      BY <3>0
    <3>2. QED
      BY <3>1 DEF WebhookInv, OrderInv
  <2>5. \A i \in 1..Len(posted') : posted'[i] <= job' /\ posted'[i] < job'
    BY <1>1, <2>2, <2>3, <2>4
  <2>6. \A i \in 1..Len(queue') : i + 1 \in 1..Len(queue) /\ queue'[i] <= offered'
    BY <1>1, <1>3, <2>1 DEF WebhookInv, OrderInv
  <2>7. Increasing(posted')
    BY <1>1 DEF WebhookInv, OrderInv
  <2>8. QED
    BY <1>3, <2>2, <2>5, <2>6, <2>7 DEF OrderInv
<1>6. NothingVanishes'
  <2>1. InHand = {} /\ InHand' = {job'}
    BY <1>1 DEF InHand
  <2>2. Elements(posted)' = Elements(posted)
    BY <1>1 DEF Elements
  <2>3. QED
    BY <1>1, <1>3, <2>1, <2>2 DEF WebhookInv, NothingVanishes
<1>7. ExitInv'
  BY <1>1 DEF WebhookInv, ExitInv
<1>8. QED
  BY <1>4, <1>5, <1>6, <1>7 DEF WebhookInv

\* The job in the worker's hands may be appended to what was posted.
LEMMA PostedInOrder ==
    ASSUME WebhookInv, InHand # {}
    PROVE  /\ job \in Jobs
           /\ Append(posted, job) \in Seq(Jobs)
           /\ Increasing(Append(posted, job))
           /\ Elements(Append(posted, job)) = Elements(posted) \cup {job}
           /\ \A i \in 1..Len(Append(posted, job)) : Append(posted, job)[i] <= job
<1>1. posted \in Seq(Jobs) /\ posted \in Seq(Int) /\ Increasing(posted)
  BY WebhookAssumption DEF WebhookInv, TypeOK, OrderInv, Jobs
<1>2. job \in Jobs
  <2>1. job \in 1..offered
    BY DEF WebhookInv, NothingVanishes, InHand
  <2>2. QED
    BY <2>1, WebhookAssumption DEF WebhookInv, TypeOK, Jobs
<1>3. \A i \in 1..Len(posted) : posted[i] < job
  BY DEF WebhookInv, OrderInv
<1>6. job \in Int
  BY <1>2 DEF Jobs
<1>4. /\ Increasing(Append(posted, job))
      /\ Elements(Append(posted, job)) = Elements(posted) \cup {job}
  BY <1>1, <1>6, <1>3, AppendJob
<1>5. /\ Append(posted, job) \in Seq(Jobs) /\ Len(Append(posted, job)) = Len(posted) + 1
      /\ Append(posted, job)[Len(posted) + 1] = job
      /\ \A i \in 1..Len(posted) : Append(posted, job)[i] = posted[i] /\ posted[i] \in Int
      /\ Len(posted) \in Nat
  <2>1. Append(posted, job) \in Seq(Jobs)
    BY <1>1, <1>2
  <2>2. QED
    BY <2>1, <1>1, <1>6
<1>7. \A i \in 1..Len(Append(posted, job)) : Append(posted, job)[i] <= job
  BY <1>3, <1>5, <1>6
<1>8. QED
  BY <1>2, <1>4, <1>5, <1>7

\* However the attempt ends, the job is posted, given up, or still in hand.
LEMMA EndStep ==
    ASSUME WebhookInv, Posted \/ Failed \/ RateLimited
    PROVE  WebhookInv'
<1>1. /\ pc = "sending" /\ InHand = {job}
      /\ UNCHANGED <<offered, queue, dropped, closed, job, attempt, closer>>
  BY DEF Posted, Failed, RateLimited, InHand
<1>2. /\ job \in Jobs
      /\ Append(posted, job) \in Seq(Jobs)
      /\ Increasing(Append(posted, job))
      /\ Elements(Append(posted, job)) = Elements(posted) \cup {job}
      /\ \A i \in 1..Len(Append(posted, job)) : Append(posted, job)[i] <= job
  BY <1>1, PostedInOrder
<1>3. /\ pc' \in {"idle", "waiting"}
      /\ posted' = posted \/ (posted' = Append(posted, job) /\ pc' = "idle")
      /\ failed' = failed \/ failed' = failed \cup {job}
      /\ pc' = "idle" => job \in Elements(posted') \cup failed'
      /\ pc' = "waiting" => attempt < MaxRetries
  <2>1. CASE Posted
    BY <2>1, <1>2 DEF Posted
  <2>2. CASE Failed
    BY <2>2 DEF Failed
  <2>3. CASE RateLimited
    BY <2>3 DEF RateLimited
  <2>4. QED
    BY <2>1, <2>2, <2>3
<1>4. TypeOK'
  BY <1>1, <1>2, <1>3 DEF WebhookInv, TypeOK
<1>5. OrderInv'
  <2>1. Increasing(posted')
    BY <1>2, <1>3 DEF WebhookInv, OrderInv
  <2>2. /\ Increasing(queue') /\ job' <= offered'
        /\ \A i \in 1..Len(queue') : job' < queue'[i] /\ queue'[i] <= offered'
    BY <1>1 DEF WebhookInv, OrderInv
  <2>3. \A i \in 1..Len(posted') : posted'[i] <= job' /\ (InHand' # {} => posted'[i] < job')
    <3>1. CASE posted' = posted
      BY <3>1, <1>1 DEF WebhookInv, OrderInv
    <3>2. CASE posted' = Append(posted, job) /\ pc' = "idle"
      <4>1. InHand' = {}
        BY <3>2 DEF InHand
      <4>2. QED
        BY <4>1, <3>2, <1>1, <1>2
    <3>3. QED
      BY <3>1, <3>2, <1>3
  <2>4. QED
    BY <2>1, <2>2, <2>3 DEF OrderInv
<1>6. NothingVanishes'
  <2>1. Elements(posted') = Elements(posted) \/ Elements(posted') = Elements(posted) \cup {job}
    BY <1>2, <1>3
  <2>2. InHand' = {} \/ InHand' = {job}
    BY <1>1 DEF InHand
  <2>3. pc' = "waiting" => InHand' = {job}
    BY <1>1 DEF InHand
  <2>4. job \in InHand' \cup Elements(posted') \cup failed'
    BY <1>3, <2>3
  <2>5. Elements(queue') = Elements(queue)
    BY <1>1
  <2>6. QED
    BY <1>1, <1>3, <2>1, <2>2, <2>4, <2>5 DEF WebhookInv, NothingVanishes
<1>7. ExitInv'
  <2>1. pc # "exited" /\ closer # "drained"
    BY <1>1 DEF WebhookInv, ExitInv
  <2>2. QED
    BY <1>1, <1>3, <2>1 DEF ExitInv
<1>8. QED
  BY <1>4, <1>5, <1>6, <1>7 DEF WebhookInv

\* Waiting, leaving, and closing move no job.
LEMMA OtherStep ==
    ASSUME WebhookInv, Retry \/ Exit \/ Close \/ CloseReturns \/ UNCHANGED vars
    PROVE  WebhookInv'
<1>1. /\ UNCHANGED <<offered, queue, dropped, job, posted, failed>>
      /\ InHand' = InHand
  BY DEF Retry, Exit, Close, CloseReturns, vars, InHand
<1>2. TypeOK'
  <2>1. attempt' \in 0..MaxRetries
    <3>1. CASE Retry
      BY <3>1, WebhookAssumption DEF WebhookInv, TypeOK, Retry, ExitInv
    <3>2. CASE Exit \/ Close \/ CloseReturns \/ UNCHANGED vars
      BY <3>2 DEF WebhookInv, TypeOK, Exit, Close, CloseReturns, vars
    <3>3. QED
      BY <3>1, <3>2
  <2>2. pc' \in {"idle", "sending", "waiting", "exited"}
    BY DEF WebhookInv, TypeOK, Retry, Exit, Close, CloseReturns, vars
  <2>3. closed' \in BOOLEAN
    BY Zenon DEF WebhookInv, TypeOK, Retry, Exit, Close, CloseReturns, vars
  <2>4. closer' \in {"none", "waiting", "drained", "expired"}
    BY DEF WebhookInv, TypeOK, Retry, Exit, Close, CloseReturns, vars
  <2>5. QED
    BY <1>1, <2>1, <2>2, <2>3, <2>4 DEF WebhookInv, TypeOK
<1>3. OrderInv'
  BY <1>1 DEF WebhookInv, OrderInv
<1>4. NothingVanishes'
  BY <1>1 DEF WebhookInv, NothingVanishes
<1>5. ExitInv'
  <2>1. CASE Retry
    BY <2>1 DEF WebhookInv, ExitInv, Retry
  <2>2. CASE Exit
    BY <2>2, Zenon DEF WebhookInv, ExitInv, Exit
  <2>3. CASE Close
    BY <2>3, Zenon DEF WebhookInv, ExitInv, Close
  <2>4. CASE CloseReturns
    BY <2>4, Zenon DEF WebhookInv, ExitInv, CloseReturns
  <2>5. CASE UNCHANGED vars
    BY <2>5, Zenon DEF WebhookInv, ExitInv, vars
  <2>6. QED
    BY <2>1, <2>2, <2>3, <2>4, <2>5
<1>6. QED
  BY <1>2, <1>3, <1>4, <1>5 DEF WebhookInv

\* The inductive invariant holds throughout.
THEOREM WebhookInvariance == Spec => []WebhookInv
<1>1. WebhookInv /\ [Next]_vars => WebhookInv'
  BY EnqueueStep, TakeStep, EndStep, OtherStep DEF Next, Worker
<1>2. QED
  BY <1>1, WebhookInvInit, PTL DEF Spec

\* Enqueue: posts appear in the order of the calls, and none appears twice.
THEOREM PostsInOrder == Spec => []InOrder
<1>1. WebhookInv => InOrder
  BY DEF WebhookInv, OrderInv, InOrder
<1>2. QED
  BY <1>1, WebhookInvariance, PTL

\* Enqueue, sendWithRetry: an accepted job is never lost on the way.
THEOREM AcceptedJobsKept == Spec => []NothingVanishes
<1>1. WebhookInv => NothingVanishes
  BY DEF WebhookInv
<1>2. QED
  BY <1>1, WebhookInvariance, PTL

\* Close: when it returns before its timeout, nothing is left to post.
THEOREM CloseDrains == Spec => []DrainedIsDrained
<1>1. WebhookInv => DrainedIsDrained
  <2>1. ASSUME WebhookInv, closer = "drained"
        PROVE  queue = <<>> /\ 1..offered = dropped \cup Elements(posted) \cup failed
    <3>1. pc = "exited" /\ queue = <<>>
      BY <2>1 DEF WebhookInv, ExitInv
    <3>2. InHand = {} /\ Elements(queue) = {}
      BY <3>1 DEF InHand, Elements
    <3>3. QED
      BY <2>1, <3>1, <3>2 DEF WebhookInv, NothingVanishes
  <2>2. QED
    BY <2>1 DEF DrainedIsDrained
<1>2. QED
  BY <1>1, WebhookInvariance, PTL

-----------------------------------------------------------------------------
(* The process.                                                            *)

\* A step of the process is one of the webhook, or leaves it alone.
LEMMA ProcessStep == [ProcessNext]_allVars => [Next]_vars
<1> SUFFICES ASSUME [ProcessNext]_allVars
             PROVE  [Next]_vars
  OBVIOUS
<1>1. CASE Signal \/ Housekept
  BY <1>1 DEF Signal, Housekept
<1>2. CASE \E poster \in Posters : Post(poster)
  BY <1>2 DEF Post, Next
<1>3. CASE Works
  BY <1>3 DEF Works, Next
<1>4. CASE MainStep
  <2>1. CASE Waited \/ ExitProcess
    BY <2>1 DEF Waited, ExitProcess
  <2>2. CASE CloseBridge
    BY <2>2 DEF CloseBridge, Next
  <2>3. QED
    BY <1>4, <2>1, <2>2 DEF MainStep
<1>5. ASSUME NEW l \in Loops, LoopStep(l)
      PROVE  UNCHANGED vars
  BY <1>5 DEF LoopStep, Start, Connected, Broken, Sleep
<1>6. CASE UNCHANGED allVars
  BY <1>6 DEF allVars
<1>7. QED
  BY <1>1, <1>2, <1>3, <1>4, <1>5, <1>6 DEF ProcessNext

\* main.go, webhook.go: the process uses the webhook as Webhook describes it.
THEOREM ProcessImplementsWebhook == ProcessSpec => Spec
<1>1. ProcessInit => Init
  BY DEF ProcessInit
<1>2. QED
  BY <1>1, ProcessStep, PTL DEF ProcessSpec, Spec

\* Enqueue: posts come in order while hoplink runs and shuts down.
THEOREM ProcessPostsInOrder == ProcessSpec => []InOrder
BY ProcessImplementsWebhook, PostsInOrder, PTL

-----------------------------------------------------------------------------

\* Once main is past wg.Wait no loop is left, the webhook is open until then, and
\* only a gateway goroutine finds it closed.
ShutdownInv ==
    /\ main = "waiting" => ~closed
    /\ main # "waiting" => \A l \in Goroutines : at[l] = "done"
    /\ refused \subseteq {"discord"}
    /\ refused # {} => closed

\* ShutdownInv is inductive.
LEMMA ShutdownStep ==
    ASSUME ShutdownInv, [ProcessNext]_allVars
    PROVE  ShutdownInv'
<1>1. CASE Signal
  BY <1>1 DEF Signal, ShutdownInv, vars
<1>2. ASSUME NEW poster \in Posters, Post(poster)
      PROVE  ShutdownInv'
  <2>1. closed' = closed /\ UNCHANGED <<cancelled, at, backoff, main>>
    BY <1>2 DEF Post, Enqueue
  <2>2. closed => poster = "discord"
    <3> SUFFICES ASSUME closed, poster = "mesh" PROVE FALSE
      BY DEF Posters
    <3>1. PICK l \in Meshes : at[l] = "serving"
      BY <1>2 DEF Post
    <3>2. l \in Goroutines
      BY <3>1, LifecycleAssumption DEF Goroutines
    <3> QED
      BY <3>1, <3>2 DEF ShutdownInv
  <2>3. refused' = IF closed THEN refused \cup {poster} ELSE refused
    BY <1>2 DEF Post
  <2> QED
    BY <2>1, <2>2, <2>3 DEF ShutdownInv
<1>3. CASE Works
  BY <1>3 DEF Works, Worker, Take, Posted, Failed, RateLimited, Retry, Exit, processVars,
              ShutdownInv
<1>4. CASE MainStep
  <2>1. CASE Waited
    BY <2>1 DEF Waited, ShutdownInv, vars
  <2>2. CASE CloseBridge
    BY <2>2 DEF CloseBridge, Close, CloseReturns, ShutdownInv
  <2>3. CASE ExitProcess
    BY <2>3 DEF ExitProcess, ShutdownInv, vars
  <2>4. QED
    BY <1>4, <2>1, <2>2, <2>3 DEF MainStep
<1>5. ASSUME NEW l \in Goroutines, NEW where, at[l] # "done", Goes(l, where),
             UNCHANGED <<vars, main, refused>>
      PROVE  ShutdownInv'
  BY <1>5 DEF ShutdownInv, vars
<1>6. CASE Housekept
  BY <1>5, <1>6 DEF Housekept, Goroutines
<1>7. ASSUME NEW l \in Loops, LoopStep(l)
      PROVE  ShutdownInv'
  <2>1. l \in Goroutines
    BY DEF Goroutines
  <2>2. CASE Start(l)
    BY <1>5, <2>1, <2>2 DEF Start
  <2>3. CASE Connected(l)
    BY <1>5, <2>1, <2>3 DEF Connected
  <2>4. CASE Broken(l)
    BY <1>5, <2>1, <2>4 DEF Broken
  <2>5. CASE Sleep(l)
    BY <1>5, <2>1, <2>5 DEF Sleep
  <2>6. QED
    BY <1>7, <2>2, <2>3, <2>4, <2>5 DEF LoopStep
<1>8. CASE UNCHANGED allVars
  BY <1>8 DEF allVars, vars, processVars, ShutdownInv
<1>9. QED
  BY <1>1, <1>2, <1>3, <1>4, <1>6, <1>7, <1>8 DEF ProcessNext

\* main, Bridge.Close: no message of a mesh finds the webhook closed, and none of
\* Discord before every loop has ended.
THEOREM MeshPostsAccepted == ProcessSpec => []OnlyDiscordRefused
<1>1. ProcessInit => ShutdownInv
  BY DEF ProcessInit, Init, ShutdownInv
<1>2. ShutdownInv => OnlyDiscordRefused
  BY DEF ShutdownInv, OnlyDiscordRefused
<1>3. QED
  BY <1>1, <1>2, ShutdownStep, PTL DEF ProcessSpec
=============================================================================
