---------------------------- MODULE NoticesProofs ----------------------------
(***************************************************************************)
(* Our transmissions keep their spacing, none is held longer than its cap, *)
(* and notices keep to their limits, for any number of timers and senders  *)
(* and all times.  Nothing is assumed of what the radio hears.             *)
(***************************************************************************)
EXTENDS Notices, TLAPS

\* Whoever looks, sleeps or sends has meshcoreTxMu.
MutexInv == \A g \in Senders : pc[g] \in {"look", "sleep", "send"} => txMu = g

\* A sender has waited only for quiet air: less than its cap when it last looked, and
\* then for one sleep.
WaitInv ==
    \A g \in Senders :
        /\ pc[g] \notin {"look", "sleep", "send"} => waited[g] = 0
        /\ pc[g] # "sleep" => slept[g] = 0
        /\ pc[g] = "sleep" => waited[g] - slept[g] < DeferCap(g)
        /\ waited[g] < DeferCap(g) + MaxPoll

\* What let g send still holds when it does, since nobody else sends in between.
Free(g) == ~BusyWait \/ sinceOwn >= Spacing \/ waited[g] >= DeferCap(g) \/ closed
SpaceInv == \A g \in Senders : pc[g] = "send" => Free(g)

PacingInv == PacingTypeOK /\ MutexInv /\ WaitInv /\ SpaceInv

\* The two limits remember every notice for as long as it counts.
LimitInv ==
    /\ noticeLast \in Nat
    /\ told \in [Nodes -> Nat] /\ noticeSent \in [Nodes -> Nat \cup {Never}]
    /\ \A n \in Nodes : told[n] < Cooldown => noticeSent[n] # Never /\ noticeSent[n] = told[n]
    /\ \A n \in Nodes : told[n] < Gap => noticeLast <= told[n]

NoticeInv == PacingInv /\ LimitInv

-----------------------------------------------------------------------------

\* What the bounds are.
LEMMA Numbers ==
    /\ Spacing \in Nat /\ Cap \in Nat /\ Extra \in Nat
    /\ MinPoll \in Nat /\ MinPoll # 0 /\ MaxPoll \in Nat /\ MinPoll <= MaxPoll
    /\ MaxRetries \in Nat /\ QueueCap \in Nat /\ QueueCap # 0
    /\ Worker \notin Timers /\ Nobody \notin Timers
<1>1. MinPoll \in Nat \ {0} /\ QueueCap \in Nat \ {0}
  BY PacingAssumption, Zenon
<1>2. QED
  BY <1>1, PacingAssumption, Zenon

\* Nobody sends, or waits to send, at first.
LEMMA PacingInvInit == Init => PacingInv
<1> SUFFICES ASSUME Init
             PROVE  PacingInv
  OBVIOUS
<1>1. PacingTypeOK
  <2>1. queue \in Seq(Jobs) /\ Len(queue) = 0
    BY DEF Init
  <2>2. closed \in BOOLEAN
    BY Zenon DEF Init
  <2>3. QED
    BY <2>1, <2>2, Numbers DEF Init, PacingTypeOK, Jobs
<1>2. MutexInv /\ SpaceInv
  BY DEF Init, MutexInv, SpaceInv
<1>3. WaitInv
  BY Numbers DEF Init, WaitInv, DeferCap
<1>4. QED
  BY <1>1, <1>2, <1>3 DEF PacingInv

\* Queueing a send changes the queue only, and keeps it within its bound.
LEMMA EnqueueStep ==
    ASSUME PacingInv, NEW j \in Jobs, Enqueued(j),
           UNCHANGED <<pc, job, attempt, waited, slept, txMu, sinceOwn, closed>>
    PROVE  PacingInv'
<1>1. queue' \in Seq(Jobs) /\ Len(queue') <= QueueCap
  <2>1. queue \in Seq(Jobs) /\ Len(queue) <= QueueCap /\ Len(queue) \in Nat
    BY DEF PacingInv, PacingTypeOK
  <2>2. CASE Len(queue) < QueueCap
    BY <2>1, <2>2, Numbers DEF Enqueued
  <2>3. CASE ~(Len(queue) < QueueCap)
    BY <2>1, <2>3 DEF Enqueued
  <2>4. QED
    BY <2>2, <2>3
<1>2. PacingTypeOK'
  BY <1>1 DEF PacingInv, PacingTypeOK
<1>3. MutexInv' /\ WaitInv' /\ SpaceInv'
  BY DEF PacingInv, MutexInv, WaitInv, SpaceInv, Free, DeferCap
<1>4. QED
  BY <1>2, <1>3 DEF PacingInv

\* A step of a sender that neither holds meshcoreTxMu nor gets it.
LEMMA OutsideStep ==
    ASSUME PacingInv, NEW g \in Senders, pc[g] \notin {"look", "sleep", "send"},
           NEW where \in {"idle", "lock", "left"}, pc' = [pc EXCEPT ![g] = where],
           PacingTypeOK', UNCHANGED <<waited, slept, txMu, sinceOwn, closed>>,
           \A h \in Senders \ {g} : attempt'[h] = attempt[h]
    PROVE  PacingInv'
<1>1. \A h \in Senders : pc'[h] \in {"look", "sleep", "send"} =>
          h # g /\ pc'[h] = pc[h] /\ DeferCap(h)' = DeferCap(h)
  BY DEF PacingInv, PacingTypeOK, DeferCap
<1>2. MutexInv'
  BY <1>1 DEF PacingInv, MutexInv
<1>3. WaitInv'
  <2> SUFFICES ASSUME NEW h \in Senders
               PROVE  /\ pc'[h] \notin {"look", "sleep", "send"} => waited'[h] = 0
                      /\ pc'[h] # "sleep" => slept'[h] = 0
                      /\ pc'[h] = "sleep" => waited'[h] - slept'[h] < DeferCap(h)'
                      /\ waited'[h] < DeferCap(h)' + MaxPoll
    BY DEF WaitInv
  <2>1. CASE h = g
    <3>1. waited'[g] = 0 /\ slept'[g] = 0 /\ pc'[g] = where
      BY DEF PacingInv, PacingTypeOK, WaitInv
    <3>2. DeferCap(g)' \in Nat
      BY Numbers DEF DeferCap
    <3>3. QED
      BY <2>1, <3>1, <3>2, Numbers
  <2>2. CASE h # g
    <3>1. pc'[h] = pc[h] /\ DeferCap(h)' = DeferCap(h)
      BY <2>2 DEF PacingInv, PacingTypeOK, DeferCap
    <3>2. QED
      BY <3>1 DEF PacingInv, WaitInv
  <2>3. QED
    BY <2>1, <2>2
<1>4. SpaceInv'
  BY <1>1 DEF PacingInv, SpaceInv, Free
<1>5. QED
  BY <1>2, <1>3, <1>4 DEF PacingInv

\* The worker keeps the invariant when it takes a message and when it leaves.
LEMMA TakeStep ==
    ASSUME PacingInv, Take \/ Leave
    PROVE  PacingInv'
<1>1. Worker \in Senders /\ pc[Worker] = "idle"
  BY DEF Senders, Take, Leave
<1>2. CASE Take
  <2>1. queue' \in Seq(Jobs) /\ Len(queue') <= QueueCap /\ Head(queue) \in Jobs
    <3>1. queue \in Seq(Jobs) /\ queue # <<>> /\ Len(queue) <= QueueCap /\ queue' = Tail(queue)
      BY <1>2 DEF Take, PacingInv, PacingTypeOK
    <3>2. /\ Len(queue) \in Nat /\ Len(queue') = Len(queue) - 1
          /\ queue' \in Seq(Jobs) /\ Head(queue) \in Jobs
      BY <3>1
    <3>3. QED
      BY <3>1, <3>2, Numbers
  <2>2. PacingTypeOK'
    BY <1>2, <2>1 DEF Take, PacingInv, PacingTypeOK
  <2>3. QED
    BY <1>1, <1>2, <2>2, OutsideStep DEF Take
<1>3. CASE Leave
  <2>1. PacingTypeOK'
    BY <1>3 DEF Leave, PacingInv, PacingTypeOK
  <2>2. QED
    BY <1>1, <1>3, <2>1, OutsideStep DEF Leave
<1>4. QED
  BY <1>2, <1>3

\* What Done(g) leaves.
LEMMA DoneLeaves ==
    ASSUME PacingInv, NEW g \in Senders, Done(g)
    PROVE  /\ pc' = [pc EXCEPT ![g] = "idle"]
           /\ job' \in [Senders -> Jobs] /\ attempt' \in [Senders -> 0..MaxRetries]
           /\ \A h \in Senders \ {g} : attempt'[h] = attempt[h]
BY Numbers DEF Done, PacingInv, PacingTypeOK, Jobs

\* A timer that fires keeps the invariant.
LEMMA FireStep ==
    ASSUME PacingInv, NEW t \in Timers, Fire(t)
    PROVE  PacingInv'
<1>1. t \in Senders /\ pc[t] = "armed"
  BY DEF Senders, Fire
<1>2. CASE Done(t)
  <2>1. PacingTypeOK'
    BY <1>1, <1>2, DoneLeaves DEF Fire, PacingInv, PacingTypeOK
  <2>2. QED
    BY <1>1, <1>2, <2>1, DoneLeaves, OutsideStep DEF Fire
<1>3. CASE pc' = [pc EXCEPT ![t] = "lock"] /\ UNCHANGED <<job, attempt>>
  <2>1. PacingTypeOK'
    BY <1>1, <1>3 DEF Fire, PacingInv, PacingTypeOK
  <2>2. QED
    BY <1>1, <1>3, <2>1, OutsideStep DEF Fire
<1>4. QED
  BY <1>2, <1>3 DEF Fire

\* Taking the lock keeps the invariant.
LEMMA LockStep ==
    ASSUME PacingInv, NEW g \in Senders, Lock(g)
    PROVE  PacingInv'
<1>1. pc[g] = "lock" /\ txMu = Nobody /\ Nobody \notin Senders
  BY Numbers DEF Lock, Senders, Worker, Nobody
<1>2. CASE Done(g) /\ UNCHANGED txMu
  <2>1. PacingTypeOK'
    BY <1>1, <1>2, DoneLeaves DEF Lock, PacingInv, PacingTypeOK
  <2>2. QED
    BY <1>1, <1>2, <2>1, DoneLeaves, OutsideStep DEF Lock
<1>3. CASE pc' = [pc EXCEPT ![g] = "look"] /\ txMu' = g /\ UNCHANGED <<job, attempt>>
  <2>1. UNCHANGED <<queue, waited, slept, sinceOwn, closed>>
    BY DEF Lock
  <2>2. PacingTypeOK'
    BY <1>3, <2>1 DEF PacingInv, PacingTypeOK
  <2>3. \A h \in Senders : pc[h] \notin {"look", "sleep", "send"}
    BY <1>1 DEF PacingInv, MutexInv
  <2>4. \A h \in Senders : pc'[h] = IF h = g THEN "look" ELSE pc[h]
    BY <1>3 DEF PacingInv, PacingTypeOK
  <2>5. MutexInv' /\ SpaceInv'
    BY <1>3, <2>3, <2>4 DEF MutexInv, SpaceInv
  <2>6. WaitInv'
    BY <1>1, <1>3, <2>1, <2>3, <2>4 DEF PacingInv, WaitInv, DeferCap
  <2>7. QED
    BY <2>2, <2>5, <2>6 DEF PacingInv
<1>4. QED
  BY <1>2, <1>3 DEF Lock

\* The holder of meshcoreTxMu looks, or wakes up.
LEMMA LookStep ==
    ASSUME PacingInv, NEW g \in Senders, Look(g) \/ Wake(g)
    PROVE  PacingInv'
<1>1. pc[g] \in {"look", "sleep"} /\ UNCHANGED <<queue, job, attempt, waited, txMu, sinceOwn, closed>>
  BY DEF Look, Wake
<1>2. PICK where \in {"look", "sleep", "send"} : pc' = [pc EXCEPT ![g] = where]
  BY DEF Look, Wake
<1>3. /\ slept' = [slept EXCEPT ![g] = 0]
      /\ \A h \in Senders : slept'[h] = IF h = g THEN 0 ELSE slept[h]
  <2>1. CASE Look(g)
    <3>1. slept[g] = 0 /\ slept' = slept
      BY <2>1 DEF Look, PacingInv, WaitInv
    <3>2. QED
      BY <3>1 DEF PacingInv, PacingTypeOK
  <2>2. CASE Wake(g)
    BY <2>2 DEF Wake, PacingInv, PacingTypeOK
  <2>3. QED
    BY <2>1, <2>2
<1>4. \A h \in Senders : pc'[h] = IF h = g THEN where ELSE pc[h]
  BY <1>2 DEF PacingInv, PacingTypeOK
<1>5. PacingTypeOK'
  BY <1>1, <1>2, <1>3, Numbers DEF PacingInv, PacingTypeOK
<1>6. MutexInv'
  BY <1>1, <1>4 DEF PacingInv, MutexInv
<1>7. where = "sleep" => waited[g] < DeferCap(g)
  <2>1. CASE Look(g)
    <3>1. PICK busy \in BOOLEAN :
             IF ~BusyWait \/ waited[g] >= DeferCap(g) \/ (~busy /\ sinceOwn >= Spacing) \/ closed
             THEN pc' = [pc EXCEPT ![g] = "send"]
             ELSE pc' = [pc EXCEPT ![g] = "sleep"]
      BY <2>1 DEF Look
    <3>2. where = "sleep" => ~(waited[g] >= DeferCap(g))
      BY <1>4, <3>1 DEF PacingInv, PacingTypeOK
    <3>3. waited[g] \in Nat /\ DeferCap(g) \in Nat
      BY Numbers DEF PacingInv, PacingTypeOK, DeferCap
    <3>4. QED
      BY <3>2, <3>3
  <2>2. CASE Wake(g)
    BY <1>4, <2>2 DEF Wake, PacingInv, PacingTypeOK
  <2>3. QED
    BY <2>1, <2>2
<1>8. WaitInv'
  <2>1. \A h \in Senders : DeferCap(h)' = DeferCap(h) /\ waited'[h] = waited[h] /\ waited[h] \in Nat
    BY <1>1 DEF DeferCap, PacingInv, PacingTypeOK
  <2>2. QED
    BY <1>1, <1>3, <1>4, <1>7, <2>1 DEF PacingInv, WaitInv
<1>9. where = "send" => Free(g)
  <2>1. CASE Look(g)
    <3>1. PICK busy \in BOOLEAN :
             IF ~BusyWait \/ waited[g] >= DeferCap(g) \/ (~busy /\ sinceOwn >= Spacing) \/ closed
             THEN pc' = [pc EXCEPT ![g] = "send"]
             ELSE pc' = [pc EXCEPT ![g] = "sleep"]
      BY <2>1 DEF Look
    <3>2. QED
      BY <1>4, <3>1 DEF Free, PacingInv, PacingTypeOK
  <2>2. CASE Wake(g)
    BY <1>4, <2>2 DEF Wake, PacingInv, PacingTypeOK
  <2>3. QED
    BY <2>1, <2>2
<1>10. SpaceInv'
  <2>1. \A h \in Senders : Free(h)' = Free(h)
    BY <1>1 DEF Free, DeferCap
  <2>2. QED
    BY <1>4, <1>9, <2>1 DEF PacingInv, SpaceInv
<1>11. QED
  BY <1>5, <1>6, <1>8, <1>10 DEF PacingInv

\* Where h may be after g left.
Left(h, g) ==
    \/ pc'[h] = pc[h] /\ attempt'[h] = attempt[h] /\ h # g
    \/ pc'[h] \in {"idle", "armed"} /\ (h = g \/ pc[h] = "idle")

\* The holder of meshcoreTxMu leaves it: it may arm a timer, its own or an idle one.
LEMMA LeaveStep ==
    ASSUME PacingInv, NEW g \in Senders, Accepted(g) \/ Failed(g)
    PROVE  PacingInv'
<1>1. /\ pc[g] = "send" /\ txMu' = Nobody /\ waited' = [waited EXCEPT ![g] = 0]
      /\ queue' = queue /\ slept' = slept /\ closed' = closed
      /\ Done(g) \/ Sent(g)
  BY DEF Accepted, Failed
<1>2. sinceOwn' \in 0..Spacing
  BY Numbers DEF Accepted, Failed, PacingInv, PacingTypeOK
<1>3. /\ pc' \in [Senders -> {"idle", "armed", "lock", "look", "sleep", "send", "left"}]
      /\ job' \in [Senders -> Jobs] /\ attempt' \in [Senders -> 0..MaxRetries]
      /\ \A h \in Senders : Left(h, g)
  <2>1. CASE Done(g)
    <3>1. \A h \in Senders : pc'[h] = IF h = g THEN "idle" ELSE pc[h]
      BY <2>1, DoneLeaves DEF PacingInv, PacingTypeOK
    <3>2. pc' \in [Senders -> {"idle", "armed", "lock", "look", "sleep", "send", "left"}]
      BY <2>1, DoneLeaves DEF PacingInv, PacingTypeOK
    <3>3. \A h \in Senders : Left(h, g)
      BY <2>1, <3>1, DoneLeaves DEF Left
    <3>4. QED
      BY <2>1, <3>2, <3>3, DoneLeaves
  <2>2. CASE ~Done(g)
    <3>1. PICK t \in Timers :
             /\ attempt[g] < MaxRetries
             /\ t = g \/ pc[t] = "idle"
             /\ pc' = [pc EXCEPT ![g] = "idle", ![t] = "armed"]
             /\ job' = [job EXCEPT ![g] = "relay", ![t] = job[g]]
             /\ attempt' = [attempt EXCEPT ![g] = 0, ![t] = attempt[g] + 1]
      BY <1>1, <2>2 DEF Sent
    <3>2. t \in Senders
      BY DEF Senders
    <3>3. attempt[g] + 1 \in 0..MaxRetries /\ 0 \in 0..MaxRetries
      BY <3>1, Numbers DEF PacingInv, PacingTypeOK
    <3>4. /\ pc' \in [Senders -> {"idle", "armed", "lock", "look", "sleep", "send", "left"}]
          /\ \A h \in Senders : pc'[h] = IF h = t THEN "armed" ELSE IF h = g THEN "idle" ELSE pc[h]
      BY <3>1, <3>2 DEF PacingInv, PacingTypeOK
    <3>5. /\ attempt' \in [Senders -> 0..MaxRetries]
          /\ \A h \in Senders : h # t /\ h # g => attempt'[h] = attempt[h]
      BY <3>1, <3>2, <3>3 DEF PacingInv, PacingTypeOK
    <3>6. job' \in [Senders -> Jobs]
      BY <3>1, <3>2 DEF PacingInv, PacingTypeOK, Jobs
    <3>7. \A h \in Senders : Left(h, g)
      BY <3>1, <3>2, <3>4, <3>5 DEF Left
    <3>8. QED
      BY <3>4, <3>5, <3>6, <3>7
  <2>3. QED
    BY <2>1, <2>2
<1>4. PacingTypeOK'
  <2>1. waited' \in [Senders -> Nat]
    BY <1>1 DEF PacingInv, PacingTypeOK
  <2>2. closed' \in BOOLEAN
    BY <1>1, Zenon DEF PacingInv, PacingTypeOK
  <2>3. txMu' \in Senders \cup {Nobody}
    BY <1>1
  <2>4. /\ queue' \in Seq(Jobs) /\ Len(queue') <= QueueCap
        /\ slept' \in [Senders -> 0..MaxPoll]
    BY <1>1 DEF PacingInv, PacingTypeOK
  <2>5. QED
    BY <1>2, <1>3, <2>1, <2>2, <2>3, <2>4 DEF PacingTypeOK
<1>5. \A h \in Senders : pc'[h] \notin {"look", "sleep", "send"}
  <2>1. \A h \in Senders : h # g => pc[h] \notin {"look", "sleep", "send"}
    BY <1>1 DEF PacingInv, MutexInv
  <2>2. QED
    BY <1>3, <2>1 DEF Left
<1>6. MutexInv' /\ SpaceInv'
  BY <1>5 DEF MutexInv, SpaceInv
<1>7. WaitInv'
  <2>1. ASSUME NEW h \in Senders
        PROVE  waited'[h] = 0 /\ slept'[h] = 0
    <3>1. CASE h = g
      <4>1. slept[g] = 0 /\ waited \in [Senders -> Nat]
        BY <1>1 DEF PacingInv, PacingTypeOK, WaitInv
      <4>2. QED
        BY <1>1, <3>1, <4>1
    <3>2. CASE h # g
      <4>1. pc[h] \notin {"look", "sleep", "send"}
        BY <1>1, <3>2 DEF PacingInv, MutexInv
      <4>2. slept[h] = 0 /\ waited[h] = 0 /\ waited \in [Senders -> Nat]
        BY <4>1 DEF PacingInv, PacingTypeOK, WaitInv
      <4>3. QED
        BY <1>1, <3>2, <4>2
    <3>3. QED
      BY <3>1, <3>2
  <2>2. \A h \in Senders : DeferCap(h)' \in Nat
    BY Numbers DEF DeferCap
  <2>3. QED
    BY <1>5, <2>1, <2>2, Numbers DEF WaitInv
<1>8. QED
  BY <1>4, <1>6, <1>7 DEF PacingInv

\* Close keeps the invariant.
LEMMA CloseStep ==
    ASSUME PacingInv, Close
    PROVE  PacingInv'
<1>1. /\ pc' = [g \in Senders |-> IF pc[g] = "armed" THEN "idle" ELSE pc[g]]
      /\ job' = [g \in Senders |-> IF pc[g] = "armed" THEN "relay" ELSE job[g]]
      /\ attempt' = [g \in Senders |-> IF pc[g] = "armed" THEN 0 ELSE attempt[g]]
      /\ queue' = queue /\ waited' = waited /\ slept' = slept
      /\ txMu' = txMu /\ sinceOwn' = sinceOwn
  BY DEF Close
<1>2. closed'
  BY DEF Close
<1>3. PacingTypeOK'
  <2>1. closed' \in BOOLEAN
    BY <1>2, Zenon
  <2>2. /\ pc' \in [Senders -> {"idle", "armed", "lock", "look", "sleep", "send", "left"}]
        /\ job' \in [Senders -> Jobs] /\ attempt' \in [Senders -> 0..MaxRetries]
    BY <1>1, Numbers DEF PacingInv, PacingTypeOK, Jobs
  <2>3. /\ queue' \in Seq(Jobs) /\ Len(queue') <= QueueCap /\ waited' \in [Senders -> Nat]
        /\ slept' \in [Senders -> 0..MaxPoll] /\ txMu' \in Senders \cup {Nobody}
        /\ sinceOwn' \in 0..Spacing
    BY <1>1 DEF PacingInv, PacingTypeOK
  <2>4. QED
    BY <2>1, <2>2, <2>3 DEF PacingTypeOK
<1>4. \A g \in Senders : pc'[g] \in {"look", "sleep", "send"} \/ pc[g] \in {"look", "sleep", "send"} =>
          pc'[g] = pc[g] /\ attempt'[g] = attempt[g]
  BY <1>1
<1>5. MutexInv'
  BY <1>1, <1>4 DEF PacingInv, MutexInv
<1>6. WaitInv'
  <2> SUFFICES ASSUME NEW g \in Senders
               PROVE  /\ pc'[g] \notin {"look", "sleep", "send"} => waited'[g] = 0
                      /\ pc'[g] # "sleep" => slept'[g] = 0
                      /\ pc'[g] = "sleep" => waited'[g] - slept'[g] < DeferCap(g)'
                      /\ waited'[g] < DeferCap(g)' + MaxPoll
    BY DEF WaitInv
  <2>1. CASE pc[g] \in {"look", "sleep", "send"}
    <3>1. pc'[g] = pc[g] /\ DeferCap(g)' = DeferCap(g)
      BY <1>4, <2>1 DEF DeferCap
    <3>2. QED
      BY <1>1, <3>1 DEF PacingInv, WaitInv
  <2>2. CASE pc[g] \notin {"look", "sleep", "send"}
    <3>1. waited'[g] = 0 /\ slept'[g] = 0 /\ pc'[g] # "sleep"
      BY <1>1, <1>4, <2>2 DEF PacingInv, WaitInv
    <3>2. DeferCap(g)' \in Nat
      BY Numbers DEF DeferCap
    <3>3. QED
      BY <3>1, <3>2, Numbers
  <2>3. QED
    BY <2>1, <2>2
<1>7. SpaceInv'
  BY <1>2 DEF SpaceInv, Free
<1>8. QED
  BY <1>3, <1>5, <1>6, <1>7 DEF PacingInv

\* A step of the goroutines.
LEMMA SendStepKeeps ==
    ASSUME PacingInv, SendStep
    PROVE  PacingInv'
<1>1. CASE Relay
  BY <1>1, EnqueueStep DEF Relay, Jobs
<1>2. QED
  BY <1>1, TakeStep, CloseStep, FireStep, LockStep, LookStep, LeaveStep DEF SendStep, Turn

\* Time keeps the invariant.
LEMMA TickStep ==
    ASSUME PacingInv, Tick
    PROVE  PacingInv'
<1>1. /\ queue' = queue /\ pc' = pc /\ job' = job /\ attempt' = attempt
      /\ txMu' = txMu /\ closed' = closed
  BY DEF Tick
<1>2. /\ waited' = [g \in Senders |-> IF pc[g] = "sleep" THEN waited[g] + 1 ELSE waited[g]]
      /\ slept' = [g \in Senders |-> IF pc[g] = "sleep" THEN slept[g] + 1 ELSE slept[g]]
      /\ \A g \in Senders : pc[g] = "sleep" => slept[g] < MaxPoll
  BY DEF Tick
<1>3. sinceOwn' \in 0..Spacing /\ sinceOwn' >= sinceOwn
  BY Numbers DEF Tick, Smaller, PacingInv, PacingTypeOK
<1>4. PacingTypeOK'
  <2>1. waited' \in [Senders -> Nat]
    BY <1>2 DEF PacingInv, PacingTypeOK
  <2>2. slept' \in [Senders -> 0..MaxPoll]
    BY <1>2, Numbers DEF PacingInv, PacingTypeOK
  <2>3. closed' \in BOOLEAN
    BY <1>1, Zenon DEF PacingInv, PacingTypeOK
  <2>4. /\ queue' \in Seq(Jobs) /\ Len(queue') <= QueueCap
        /\ pc' \in [Senders -> {"idle", "armed", "lock", "look", "sleep", "send", "left"}]
        /\ job' \in [Senders -> Jobs] /\ attempt' \in [Senders -> 0..MaxRetries]
        /\ txMu' \in Senders \cup {Nobody}
    BY <1>1 DEF PacingInv, PacingTypeOK
  <2>5. QED
    BY <1>3, <2>1, <2>2, <2>3, <2>4 DEF PacingTypeOK
<1>5. MutexInv'
  BY <1>1 DEF PacingInv, MutexInv
<1>6. \A g \in Senders : DeferCap(g)' = DeferCap(g) /\ DeferCap(g) \in Nat
  BY <1>1, Numbers DEF DeferCap
<1>7. WaitInv'
  <2> SUFFICES ASSUME NEW g \in Senders
               PROVE  /\ pc'[g] \notin {"look", "sleep", "send"} => waited'[g] = 0
                      /\ pc'[g] # "sleep" => slept'[g] = 0
                      /\ pc'[g] = "sleep" => waited'[g] - slept'[g] < DeferCap(g)'
                      /\ waited'[g] < DeferCap(g)' + MaxPoll
    BY DEF WaitInv
  <2>1. CASE pc[g] = "sleep"
    <3>1. /\ waited'[g] = waited[g] + 1 /\ slept'[g] = slept[g] + 1 /\ pc'[g] = "sleep"
          /\ waited[g] \in Nat /\ slept[g] \in Nat /\ slept[g] < MaxPoll
          /\ waited[g] - slept[g] < DeferCap(g)
      BY <1>1, <1>2, <2>1, Numbers DEF PacingInv, PacingTypeOK, WaitInv
    <3>2. QED
      BY <1>6, <3>1, Numbers
  <2>2. CASE pc[g] # "sleep"
    <3>1. waited'[g] = waited[g] /\ slept'[g] = slept[g] /\ pc'[g] = pc[g]
      BY <1>1, <1>2, <2>2
    <3>2. QED
      BY <1>6, <2>2, <3>1 DEF PacingInv, WaitInv
  <2>3. QED
    BY <2>1, <2>2
<1>8. SpaceInv'
  <2> SUFFICES ASSUME NEW g \in Senders, pc'[g] = "send"
               PROVE  Free(g)'
    BY DEF SpaceInv
  <2>1. pc[g] = "send" /\ Free(g) /\ waited'[g] = waited[g]
    BY <1>1, <1>2 DEF PacingInv, SpaceInv
  <2>2. sinceOwn \in Nat /\ sinceOwn' \in Nat
    BY <1>3, Numbers DEF PacingInv, PacingTypeOK
  <2>3. QED
    BY <1>1, <1>3, <1>6, <2>1, <2>2, Numbers DEF Free
<1>9. QED
  BY <1>4, <1>5, <1>7, <1>8 DEF PacingInv

-----------------------------------------------------------------------------

\* What the times of a notice are.
LEMMA Times ==
    /\ Cooldown \in Nat /\ Gap \in Nat /\ MaxCooldown \in Nat
    /\ Gap <= Cooldown /\ Cooldown <= MaxCooldown /\ Never \notin Nat
BY NoticeAssumption, Zenon

\* A notice keeps the limit: its node's last one was long enough ago.
LEMMA NotifyStep ==
    ASSUME LimitInv, NEW n \in Nodes, Notify(n)
    PROVE  LimitInv'
<1>1. /\ noticeSent' = [noticeSent EXCEPT ![n] = 0] /\ noticeLast' = 0
      /\ told' = [told EXCEPT ![n] = 0]
  BY DEF Notify
<1>2. QED
  BY <1>1, Times DEF LimitInv

\* Sweeping forgets only notices that no longer count.
LEMMA SweepStep ==
    ASSUME LimitInv, Sweep
    PROVE  LimitInv'
<1>1. /\ noticeLast' = noticeLast /\ told' = told
      /\ noticeSent' = [n \in Nodes |->
             IF noticeSent[n] # Never /\ noticeSent[n] > MaxCooldown THEN Never ELSE noticeSent[n]]
  BY DEF Sweep
<1>2. noticeSent' \in [Nodes -> Nat \cup {Never}]
  BY <1>1 DEF LimitInv
<1>3. ASSUME NEW n \in Nodes, told'[n] < Cooldown
      PROVE  noticeSent'[n] # Never /\ noticeSent'[n] = told'[n]
  <2>1. noticeSent[n] # Never /\ noticeSent[n] = told[n] /\ told[n] < Cooldown /\ told[n] \in Nat
    BY <1>1, <1>3 DEF LimitInv
  <2>2. ~(noticeSent[n] > MaxCooldown)
    BY <2>1, Times
  <2>3. QED
    BY <1>1, <2>1, <2>2
<1>4. QED
  BY <1>1, <1>2, <1>3 DEF LimitInv

\* Time keeps the limit.
LEMMA TockStep ==
    ASSUME LimitInv, Tock
    PROVE  LimitInv'
<1>1. /\ noticeSent' = [n \in Nodes |->
             IF noticeSent[n] = Never THEN Never ELSE Smaller(noticeSent[n] + 1, MaxCooldown + 1)]
      /\ noticeLast' = Smaller(noticeLast + 1, Gap)
      /\ told' = [n \in Nodes |-> Smaller(told[n] + 1, Cooldown)]
  BY DEF Tock
<1>2. noticeLast \in Nat /\ noticeLast' \in Nat /\ noticeLast' <= noticeLast + 1
  BY <1>1, Times DEF LimitInv, Smaller
<1>3. \A n \in Nodes : told'[n] = Smaller(told[n] + 1, Cooldown) /\ told[n] \in Nat
  BY <1>1 DEF LimitInv
<1>4. told' \in [Nodes -> Nat]
  BY <1>1, Times DEF LimitInv, Smaller
<1>5. noticeSent' \in [Nodes -> Nat \cup {Never}]
  BY <1>1, Times DEF LimitInv, Smaller
<1>6. ASSUME NEW n \in Nodes, told'[n] < Cooldown
      PROVE  noticeSent'[n] # Never /\ noticeSent'[n] = told'[n]
  <2>1. told[n] < Cooldown /\ told'[n] = told[n] + 1 /\ told[n] \in Nat
    BY <1>3, <1>6, Times DEF Smaller
  <2>2. noticeSent[n] # Never /\ noticeSent[n] = told[n]
    BY <2>1 DEF LimitInv
  <2>3. noticeSent'[n] = Smaller(told[n] + 1, MaxCooldown + 1)
    BY <1>1, <2>2
  <2>4. QED
    BY <2>1, <2>3, Times DEF Smaller
<1>7. ASSUME NEW n \in Nodes, told'[n] < Gap
      PROVE  noticeLast' <= told'[n]
  <2>1. told[n] \in Nat /\ told'[n] = told[n] + 1 /\ told[n] < Gap
    BY <1>3, <1>7, Times DEF Smaller
  <2>2. noticeLast <= told[n]
    BY <2>1 DEF LimitInv
  <2>3. QED
    BY <1>2, <2>1, <2>2
<1>8. QED
  BY <1>2, <1>4, <1>5, <1>6, <1>7 DEF LimitInv

\* Every step keeps the limit.
LEMMA NoticeStep == NoticeInv /\ [Next]_vars => NoticeInv'
<1> SUFFICES ASSUME NoticeInv, [Next]_vars
             PROVE  NoticeInv'
  OBVIOUS
<1>1. CASE Send
  BY <1>1, SendStepKeeps DEF Send, NoticeInv, noticeVars, LimitInv
<1>2. CASE Tock
  BY <1>2, TickStep, TockStep DEF Tock, NoticeInv
<1>3. ASSUME UNCHANGED sendVars
      PROVE  PacingInv'
  BY <1>3 DEF NoticeInv, PacingInv, PacingTypeOK, MutexInv, WaitInv, SpaceInv, Free, DeferCap, sendVars
<1>4. CASE Sweep
  BY <1>3, <1>4, SweepStep DEF Sweep, NoticeInv
<1>5. ASSUME NEW n \in Nodes, Notify(n)
      PROVE  NoticeInv'
  BY <1>5, NotifyStep, EnqueueStep DEF Notify, NoticeInv, Jobs
<1>6. CASE UNCHANGED vars
  BY <1>3, <1>6 DEF vars, noticeVars, NoticeInv, LimitInv
<1>7. QED
  BY <1>1, <1>2, <1>4, <1>5, <1>6 DEF Next

\* No notice has been sent at first.
LEMMA NoticeInvInit == NoticeInit => NoticeInv
<1>1. ASSUME NoticeInit
      PROVE  LimitInv
  BY <1>1, Times DEF NoticeInit, LimitInv
<1>2. QED
  BY <1>1, PacingInvInit DEF NoticeInit, NoticeInv

\* The inductive invariant holds throughout.
THEOREM NoticeInvariance == Spec => []NoticeInv
BY NoticeInvInit, NoticeStep, PTL DEF Spec

\* waitForQuietAir: no send waits for quiet air longer than its cap and one sleep.
THEOREM SendsAreNotHeld == Spec => []DeferralBounded
<1>1. NoticeInv => DeferralBounded
  BY DEF NoticeInv, PacingInv, WaitInv, DeferralBounded
<1>2. QED
  BY <1>1, NoticeInvariance, PTL

\* waitForQuietAir, meshcoreTxMu: our transmissions keep minTxSpacing, unless their cap
\* is used up or hoplink shuts down.
THEOREM SendsAreSpaced == Spec => SpacedUnlessDeferred
<1>1. NoticeInv =>
        [\A g \in Senders :
            Leaves(g) => ~BusyWait \/ sinceOwn >= Spacing \/ waited[g] >= DeferCap(g) \/ closed
        ]_sendVars
  BY DEF NoticeInv, PacingInv, SpaceInv, Free, Leaves
<1>2. QED
  BY <1>1, NoticeInvariance, PTL DEF SpacedUnlessDeferred

\* maybeScopeNotice: notices keep to their two limits, whatever the sweep forgets.
THEOREM NoticesKeepLimits == Spec => NoticesLimited
<1>1. NoticeInv => [\A n \in Nodes : Notify(n) =>
                       told[n] >= Cooldown /\ \A o \in Nodes : told[o] >= Gap]_vars
  <2> SUFFICES ASSUME NoticeInv, NEW n \in Nodes, Notify(n)
               PROVE  told[n] >= Cooldown /\ \A o \in Nodes : told[o] >= Gap
    OBVIOUS
  <2>1. ~Limited(n) /\ ~Busy
    BY DEF Notify
  <2>2. told \in [Nodes -> Nat] /\ noticeLast \in Nat
    BY DEF NoticeInv, LimitInv
  <2>3. told[n] >= Cooldown
    BY <2>1, <2>2, Times DEF NoticeInv, LimitInv, Limited
  <2>4. \A o \in Nodes : told[o] >= Gap
    BY <2>1, <2>2, Times DEF NoticeInv, LimitInv, Busy
  <2>5. QED
    BY <2>3, <2>4
<1>2. QED
  BY <1>1, NoticeInvariance, PTL DEF NoticesLimited
=============================================================================
