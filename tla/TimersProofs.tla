---------------------------- MODULE TimersProofs ----------------------------
(***************************************************************************)
(* Theorems about the retries that run against the clock.  RetryTiming:    *)
(* with ShortChains, whatever the waits, the sweep spares every chunk in   *)
(* flight and each settles once.  EchoRetry: however many identical texts  *)
(* are sent, no echo stands for two of them while the waits fit into the   *)
(* TTL, and none is sent again when all were heard.                        *)
(***************************************************************************)
EXTENDS MCTimers, FiniteSetTheorems, TLAPS

-----------------------------------------------------------------------------
(* The chunk of RetryTiming.                                               *)


\* The attempts so far take no longer than all of them.
LEMMA AttemptsFit ==
    ASSUME ShortChains, NEW k \in 0..MaxRetries
    PROVE  /\ Attempt \in Nat /\ k * Attempt \in Nat
           /\ (k + 1) * Attempt = k * Attempt + Attempt
           /\ (k + 1) * Attempt <= TTL
<1>1. Attempt \in Nat /\ MaxRetries \in Nat /\ k \in Nat /\ k <= MaxRetries /\ TTL \in Nat
  BY TimingAssumption DEF Attempt
<1> HIDE DEF Attempt
<1>2. \A a, b, c \in Nat : a <= b => a * c <= b * c
  OBVIOUS
<1>3. \A a, c \in Nat : a * c \in Nat /\ (a + 1) * c = a * c + c
  OBVIOUS
<1>4. (k + 1) * Attempt <= (MaxRetries + 1) * Attempt
  BY <1>1, <1>2
<1>5. k * Attempt \in Nat /\ (k + 1) * Attempt = k * Attempt + Attempt
  BY <1>1, <1>3
<1>6. (k + 1) * Attempt <= TTL
  BY <1>1, <1>3, <1>4 DEF ShortChains
<1> QED
  BY <1>1, <1>5, <1>6

\* The bridge starts with nothing tracked.
LEMMA RetryInit == Init => RetryInv
<1> SUFFICES ASSUME Init PROVE RetryInv
  OBVIOUS
<1>1. tracked \in BOOLEAN /\ ~tracked
  BY Zenon DEF Init
<1>2. /\ deadline \in Nat /\ now <= deadline /\ now = 0 /\ firstSent = 0 /\ settled = 0
      /\ attempt = 0 /\ attempt \in 0..MaxRetries /\ phase = "queued"
  BY TimingAssumption DEF Init
<1>3. TypeOK
  BY <1>1, <1>2 DEF TypeOK
<1> QED
  BY <1>1, <1>2, <1>3 DEF RetryInv, SettlesOnce, RecordOutlivesRetries, RecordIsYoung

\* Every step keeps a record no older than its attempts, so that the sweep
\* finds none of a chunk in flight.
LEMMA RetryStep == ASSUME ShortChains PROVE RetryInv /\ [Next]_vars => RetryInv'
<1> SUFFICES ASSUME RetryInv, [Next]_vars PROVE RetryInv'
  OBVIOUS
<1> DEFINE spent == attempt * Attempt
<1>1. /\ Attempt \in Nat /\ spent \in Nat
      /\ (attempt + 1) * Attempt = spent + Attempt /\ (attempt + 1) * Attempt <= TTL
      /\ Attempt = MaxQueue + MaxSend + MaxWait
  BY AttemptsFit DEF RetryInv, TypeOK, Attempt
<1>2. /\ MaxRetries \in Nat /\ MaxQueue \in Nat /\ MaxSend \in Nat
      /\ MinWait \in Nat /\ MaxWait \in Nat /\ TTL \in Nat
  BY TimingAssumption
<1> HIDE DEF Attempt
<1> USE <1>1, <1>2 DEF RetryInv, TypeOK, SettlesOnce, RecordOutlivesRetries, RecordIsYoung
<1>3. CASE Tick
  BY <1>3 DEF Tick
<1>4. CASE Track
  BY <1>4 DEF Track
<1>5. CASE Sent
  BY <1>5 DEF Sent
<1>r. ASSUME ReportDelivery, tracked, phase # "over" PROVE RetryInv'
  <2>1. UNCHANGED <<now, deadline, attempt, tracked, firstSent>> /\ phase' = "over"
    BY <1>r DEF ReportDelivery
  <2>2. settled' = 1
    BY <1>r DEF ReportDelivery
  <2> QED
    BY <1>r, <2>1, <2>2
<1>n. CASE NotSent
  <2>1. CASE attempt = 0
    <3>a. ~(attempt > 0)
      BY <2>1
    <3>1. /\ UNCHANGED <<now, deadline, attempt, tracked, firstSent>>
          /\ phase = "queued" /\ phase' = "over" /\ settled' = settled + 1
      BY <1>n, <3>a, Zenon DEF NotSent
    <3>2. settled' = 1
      BY <3>1
    <3>3. tracked' \in BOOLEAN
      BY <3>1
    <3> QED
      BY <3>1, <3>2, <3>3
  <2>2. CASE attempt # 0
    <3>1. ReportDelivery /\ phase = "queued"
      BY <1>n, <2>2 DEF NotSent
    <3>2. attempt > 0
      BY <2>2
    <3> QED
      BY <1>r, <3>1, <3>2
  <2> QED
    BY <2>1, <2>2
<1>6. CASE SendFailed
  <2>1. CASE attempt = 0
    <3>a. ~(attempt > 0)
      BY <2>1
    <3>1. tracked' \in BOOLEAN /\ ~tracked'
      BY <1>6, <3>a, Zenon DEF SendFailed
    <3>2. /\ UNCHANGED <<now, deadline, attempt, firstSent>>
          /\ phase' = "over" /\ settled' = 1
      BY <1>6, <2>1 DEF SendFailed
    <3> QED
      BY <3>1, <3>2
  <2>2. CASE attempt # 0
    BY <1>6, <2>2, <1>r DEF SendFailed
  <2> QED
    BY <2>1, <2>2
<1>7. CASE Check
  <2>1. CASE ReportDelivery
    BY <1>7, <1>r, <2>1 DEF Check
  <2>2. CASE ~ReportDelivery
    <3>0. /\ phase = "waiting" /\ phase' = "queued" /\ now = deadline
          /\ deadline' \in now..now + MaxQueue /\ attempt' = attempt + 1
          /\ attempt < MaxRetries
          /\ UNCHANGED <<now, tracked, firstSent, settled>>
      BY <1>7, <2>2, Zenon DEF Check
    <3>1. attempt' \in 0..MaxRetries
      BY <3>0
    <3>2. firstSent + attempt' * Attempt = firstSent + spent + Attempt
      BY <3>0, AttemptsFit
    <3>3. deadline' \in Nat /\ now' <= deadline' /\ deadline' <= deadline + MaxQueue
      BY <3>0
    <3> QED
      BY <3>0, <3>1, <3>2, <3>3
  <2> QED
    BY <2>1, <2>2
<1>8. CASE Sweep
  <2>1. tracked /\ tracked' \in BOOLEAN /\ ~tracked'
    BY <1>8, Zenon DEF Sweep
  <2>2. UNCHANGED <<now, phase, deadline, attempt, firstSent, settled>> /\ now - firstSent > TTL
    BY <1>8 DEF Sweep
  <2>3. phase # "over" => deadline <= firstSent + spent + Attempt
    BY <2>1
  <2>4. phase = "over"
    BY <2>2, <2>3
  <2> QED
    BY <2>1, <2>2, <2>4
<1>9. CASE UNCHANGED vars
  BY <1>9 DEF vars
<1> QED
  BY <1>3, <1>4, <1>5, <1>n, <1>6, <1>7, <1>8, <1>9 DEF Next

\* While all attempts of a chunk fit into inboundDedupTTL, it settles its
\* receipt exactly once, whenever the sweep runs.
THEOREM ShortChainsSettle == ASSUME ShortChains PROVE Spec => []SettlesOnce
<1>1. RetryInv => SettlesOnce
  BY DEF RetryInv
<1> QED
  BY <1>1, RetryInit, RetryStep, PTL DEF Spec

\* ... and its record, with the evidence of every attempt, stays until the
\* report: the sweep keeps away from chunks in flight, as Delivery assumes
\* with ~SlowChains.
THEOREM SweepSparesRetries == ASSUME ShortChains PROVE Spec => []RecordOutlivesRetries
<1>1. RetryInv => RecordOutlivesRetries
  BY DEF RetryInv
<1> QED
  BY <1>1, RetryInit, RetryStep, PTL DEF Spec

-----------------------------------------------------------------------------
(* The texts of EchoRetry.                                                 *)

\* Sends whose packet is on its way, or waits for its check.
OnTheWay == {s \in Sends : pc[s] \in {"sending", "waiting"}}

\* Types, and which attempt goes with which place.
EchoTypes ==
    /\ clock \in Nat /\ count \in Nat /\ sentAt \in Nat /\ sentAt <= clock
    /\ pc \in [Sends -> {"new", "sending", "waiting", "resend", "offline", "over"}]
    /\ due \in [Sends -> Nat]
    /\ sendAttempt \in [Sends -> {0, 1}]
    /\ echoed \in [Sends -> SUBSET {0, 1}]
    /\ taken \in Nat /\ satisfied \subseteq Sends
    /\ \A s \in Sends : pc[s] \in {"new", "waiting"} => sendAttempt[s] = 0

\* Every send on its way has a pending echo, unless an echo took one off for
\* it, and its check is due before the sweep finds the entry too old.
PendingInv ==
    /\ EchoTypes
    /\ \A s \in OnTheWay :
          /\ clock <= due[s] /\ due[s] <= sentAt + EchoMaxSend + RetryWait
          /\ pc[s] = "sending" => due[s] <= sentAt + EchoMaxSend
    /\ Cardinality(satisfied) <= taken
    /\ Cardinality(OnTheWay) + Cardinality(satisfied) <= count + taken

\* The attempts that went out and were not heard.
Unheard == {x \in Sends \X {0, 1} : x[2] \in E!Aired(x[1]) \ echoed[x[1]]}

\* No more echoes are pending than attempts went unheard.
UnheardInv ==
    /\ EchoTypes
    /\ \A s \in Sends : echoed[s] \subseteq E!Aired(s)
    /\ count <= Cardinality(Unheard)

\* The sweep leaves an entry alone for as long as a check may wait.
LEMMA TTLCoversWait == E!EchoTTL \in Nat /\ E!EchoTTL >= RetryWait
<1> DEFINE S == {SelfEchoTTL, RetryWait}
<1>1. SelfEchoTTL \in Nat /\ RetryWait \in Nat
  BY EchoAssumption
<1>2. \E x \in S : \A y \in S : x >= y
  BY <1>1
<1>3. E!Max(S) \in S /\ \A y \in S : E!Max(S) >= y
  BY <1>2 DEF E!Max
<1> QED
  BY <1>1, <1>3 DEF E!EchoTTL

\* Sizes of the sets that are counted.
LEMMA SizeFacts ==
    ASSUME NEW S, IsFiniteSet(S), NEW R, IsFiniteSet(R)
    PROVE  /\ Cardinality(S) \in Nat /\ Cardinality(R) \in Nat
           /\ R \subseteq S => Cardinality(R) <= Cardinality(S)
           /\ \A x : R \subseteq S \cup {x} => Cardinality(R) <= Cardinality(S) + 1
           /\ \A x : x \in S /\ R = S \ {x} => Cardinality(R) = Cardinality(S) - 1
           /\ \A x : x \notin S /\ R = S \cup {x} => Cardinality(R) = Cardinality(S) + 1
<1>1. Cardinality(S) \in Nat /\ Cardinality(R) \in Nat
  BY FS_CardinalityType
<1>2. R \subseteq S => Cardinality(R) <= Cardinality(S)
  BY FS_Subset
<1>3. ASSUME NEW x, R \subseteq S \cup {x} PROVE Cardinality(R) <= Cardinality(S) + 1
  <2>1. IsFiniteSet(S \cup {x}) /\ Cardinality(S \cup {x}) \in {Cardinality(S), Cardinality(S) + 1}
    BY FS_AddElement, FS_CardinalityType
  <2>2. Cardinality(R) <= Cardinality(S \cup {x})
    BY <1>3, <2>1, FS_Subset
  <2> QED
    BY <1>1, <2>1, <2>2
<1>4. ASSUME NEW x, x \in S, R = S \ {x} PROVE Cardinality(R) = Cardinality(S) - 1
  BY <1>4, FS_RemoveElement
<1>5. ASSUME NEW x, x \notin S, R = S \cup {x} PROVE Cardinality(R) = Cardinality(S) + 1
  BY <1>5, FS_AddElement
<1> QED
  BY <1>1, <1>2, <1>3, <1>4, <1>5

\* The sets that are counted are finite.
LEMMA CountedFinite ==
    /\ IsFiniteSet(OnTheWay) /\ IsFiniteSet(OnTheWay)'
    /\ satisfied \subseteq Sends => IsFiniteSet(satisfied)
    /\ satisfied' \subseteq Sends => IsFiniteSet(satisfied')
    /\ IsFiniteSet(Unheard) /\ IsFiniteSet(Unheard)'
<1>1. IsFiniteSet(Sends)
  BY EchoAssumption
<1>2. OnTheWay \subseteq Sends /\ OnTheWay' \subseteq Sends
  BY DEF OnTheWay
<1>3. IsFiniteSet({0, 1})
  <2>1. IsFiniteSet({0})
    BY FS_Singleton
  <2>2. IsFiniteSet({0} \cup {1})
    BY <2>1, FS_AddElement
  <2>3. {0, 1} = {0} \cup {1}
    OBVIOUS
  <2> QED
    BY <2>2, <2>3
<1>4. IsFiniteSet(Sends \X {0, 1})
  BY <1>1, <1>3, FS_Product
<1>5. Unheard \subseteq Sends \X {0, 1} /\ Unheard' \subseteq Sends \X {0, 1}
  BY DEF Unheard
<1> QED
  BY <1>1, <1>2, <1>4, <1>5, FS_Subset

\* What is counted before a text is sent, and the types.
LEMMA InitEcho == E!Init => PendingInv /\ UnheardInv
<1> SUFFICES ASSUME E!Init PROVE PendingInv /\ UnheardInv
  OBVIOUS
<1>1. EchoTypes
  BY DEF E!Init, EchoTypes
<1>2. OnTheWay = {} /\ satisfied = {} /\ taken = 0 /\ count = 0
  BY DEF E!Init, OnTheWay
<1>3. PendingInv
  BY <1>1, <1>2, FS_EmptySet DEF PendingInv
<1>4. \A s \in Sends : echoed[s] \subseteq E!Aired(s)
  BY DEF E!Init
<1>5. UnheardInv
  BY <1>1, <1>2, <1>4, CountedFinite, FS_CardinalityType DEF UnheardInv
<1> QED
  BY <1>3, <1>5

\* Every step keeps the types.
LEMMA EchoTypesStep ==
    ASSUME EchoTypes, [E!Next]_echoVars
    PROVE  EchoTypes'
<1> USE DEF EchoTypes
<1>0. RetryWait \in Nat /\ EchoMaxSend \in Nat
  BY EchoAssumption
<1>c. E!OneLess \in Nat
  BY DEF E!OneLess
<1>1. CASE E!Tick
  BY <1>1 DEF E!Tick
<1>2. CASE E!Sweep
  BY <1>2 DEF E!Sweep
<1>3. ASSUME NEW s \in Sends, E!Transmit(s) PROVE EchoTypes'
  <2>1. PICK d \in 0..EchoMaxSend : due' = [due EXCEPT ![s] = clock + d]
    BY <1>3 DEF E!Transmit
  <2>2. due' \in [Sends -> Nat]
    BY <1>0, <2>1
  <2>3. /\ count' \in Nat /\ sentAt' = clock /\ clock' = clock
        /\ pc' = [pc EXCEPT ![s] = "sending"]
        /\ UNCHANGED <<sendAttempt, echoed, taken, satisfied>>
    BY <1>3 DEF E!Transmit
  <2> QED
    BY <2>2, <2>3
<1>4. ASSUME NEW s \in Sends, E!NotConnected(s) PROVE EchoTypes'
  BY <1>4 DEF E!NotConnected
<1>5. ASSUME NEW s \in Sends, E!Sent(s) PROVE EchoTypes'
  BY <1>0, <1>5 DEF E!Sent, E!MaxRepeatRetries
<1>6. ASSUME NEW s \in Sends, E!SendFailed(s) PROVE EchoTypes'
  BY <1>c, <1>6 DEF E!SendFailed
<1>7. ASSUME NEW s \in Sends, E!Echo(s) PROVE EchoTypes'
  <2>1. PICK n \in E!Aired(s) : echoed' = [echoed EXCEPT ![s] = @ \cup {n}]
    BY <1>7 DEF E!Echo
  <2>2. n \in {0, 1}
    BY <2>1 DEF E!Aired
  <2> QED
    BY <1>c, <1>7, <2>1, <2>2 DEF E!Echo
<1>8. ASSUME NEW s \in Sends, E!Check(s) PROVE EchoTypes'
  <2>1. CASE count > 0
    BY <1>c, <1>8, <2>1 DEF E!Check
  <2>2. CASE ~(count > 0)
    BY <1>c, <1>8, <2>2 DEF E!Check
  <2> QED
    BY <2>1, <2>2
<1>9. CASE UNCHANGED echoVars
  BY <1>9 DEF echoVars
<1> QED
  BY <1>1, <1>2, <1>3, <1>4, <1>5, <1>6, <1>7, <1>8, <1>9 DEF E!Next

\* While a send on its way keeps the sweep from the entry, an echo is taken
\* off for each send that is satisfied or ends.
LEMMA PendingStep ==
    ASSUME EchoMaxSend + RetryWait <= E!EchoTTL, PendingInv, [E!Next]_echoVars
    PROVE  PendingInv'
<1> USE DEF EchoTypes, OnTheWay
<1>0. RetryWait \in Nat /\ EchoMaxSend \in Nat /\ E!EchoTTL \in Nat
  BY EchoAssumption, TTLCoversWait
<1>1. EchoTypes /\ EchoTypes'
  BY EchoTypesStep DEF PendingInv
<1>2. /\ IsFiniteSet(OnTheWay) /\ IsFiniteSet(OnTheWay')
      /\ IsFiniteSet(satisfied) /\ IsFiniteSet(satisfied')
  BY <1>1, CountedFinite
<1>p. PendingInv
  OBVIOUS
<1> DEFINE W == Cardinality(OnTheWay)
           V == Cardinality(OnTheWay')
           S == Cardinality(satisfied)
           T == Cardinality(satisfied')
<1>3. /\ W \in Nat /\ V \in Nat /\ S \in Nat /\ T \in Nat
      /\ S <= taken /\ W + S <= count + taken
  BY <1>2, FS_CardinalityType DEF PendingInv
\* The deadlines of the sends on their way.
<1> DEFINE Timely ==
             \A s \in OnTheWay' :
                /\ clock' <= due'[s] /\ due'[s] <= sentAt' + EchoMaxSend + RetryWait
                /\ pc'[s] = "sending" => due'[s] <= sentAt' + EchoMaxSend
<1>4. ASSUME Timely, T <= taken', V + T <= count' + taken' PROVE PendingInv'
  BY <1>1, <1>4 DEF PendingInv
<1>5. CASE E!Tick
  <2>1. OnTheWay' = OnTheWay /\ satisfied' = satisfied
    BY <1>5 DEF E!Tick
  <2>2. Timely
    BY <1>1, <1>5, <2>1 DEF E!Tick, PendingInv
  <2> HIDE DEF Timely
  <2> QED
    BY <1>3, <1>4, <1>5, <2>1, <2>2 DEF E!Tick
<1>6. CASE E!Sweep
  <2>1. \A s \in OnTheWay : FALSE
    BY <1>0, <1>1, <1>6 DEF E!Sweep, PendingInv
  <2>2. OnTheWay = {} /\ OnTheWay' = {} /\ satisfied' = satisfied
    BY <1>6, <2>1 DEF E!Sweep
  <2>3. V = 0 /\ T = S
    BY <2>2, FS_EmptySet
  <2>4. count' = 0 /\ taken' = taken
    BY <1>6 DEF E!Sweep
  <2>5. Timely
    BY <2>2
  <2> HIDE DEF Timely, V, T, S, W
  <2> QED
    BY <1>1, <1>3, <1>4, <2>3, <2>4, <2>5
<1>7. ASSUME NEW s \in Sends, E!Transmit(s) PROVE PendingInv'
  <2>1. PICK d \in 0..EchoMaxSend : due' = [due EXCEPT ![s] = clock + d]
    BY <1>7 DEF E!Transmit
  <2>2. /\ pc' = [pc EXCEPT ![s] = "sending"] /\ s \notin OnTheWay
        /\ count' = count + 1 /\ sentAt' = clock /\ clock' = clock
        /\ taken' = taken /\ satisfied' = satisfied
    BY <1>1, <1>7 DEF E!Transmit
  <2>3. OnTheWay' = OnTheWay \cup {s}
    BY <1>1, <2>2
  <2>4. V = W + 1 /\ T = S
    BY <1>2, <2>2, <2>3, SizeFacts
  <2>5. Timely
    BY <1>0, <1>1, <2>1, <2>2, <2>3 DEF PendingInv
  <2> HIDE DEF Timely, V, T, S, W
  <2> QED
    BY <1>1, <1>3, <1>4, <2>2, <2>4, <2>5
<1>8. ASSUME NEW s \in Sends, E!NotConnected(s) PROVE PendingInv'
  <2>1. OnTheWay' = OnTheWay
    BY <1>1, <1>8 DEF E!NotConnected
  <2>2. UNCHANGED <<clock, count, sentAt, due, taken, satisfied>>
        /\ \A t \in OnTheWay : pc'[t] = pc[t]
    BY <1>1, <1>8 DEF E!NotConnected
  <2>3. Timely
    BY <2>1, <2>2 DEF PendingInv
  <2> HIDE DEF Timely
  <2> QED
    BY <1>3, <1>4, <2>1, <2>2, <2>3
<1>9. ASSUME NEW s \in Sends, E!Sent(s) PROVE PendingInv'
  <2>1. /\ s \in OnTheWay /\ pc[s] = "sending" /\ clock = due[s] /\ OnTheWay' \subseteq OnTheWay
        /\ UNCHANGED <<clock, count, sentAt, taken, satisfied>>
        /\ \A t \in OnTheWay' \ {s} : pc'[t] = pc[t] /\ due'[t] = due[t]
        /\ s \in OnTheWay' => pc'[s] = "waiting" /\ due'[s] = clock + RetryWait
    BY <1>1, <1>9 DEF E!Sent
  <2>2. V <= W
    BY <1>2, <2>1, SizeFacts
  <2>3. Timely
    BY <1>0, <1>1, <2>1 DEF PendingInv
  <2> HIDE DEF Timely, V, W
  <2> QED
    BY <1>1, <1>3, <1>4, <2>1, <2>2, <2>3
<1>10. ASSUME NEW s \in Sends, pc[s] \in {"sending", "waiting"}, count' = E!OneLess,
              UNCHANGED <<clock, sentAt, due, taken>>,
              \A t \in Sends \ {s} : pc'[t] = pc[t],
              pc'[s] \notin {"sending", "waiting"},
              \/ satisfied' = satisfied
              \/ count = 0 /\ satisfied' = satisfied \cup {s}
       PROVE  PendingInv'
  <2>1. OnTheWay' = OnTheWay \ {s} /\ s \in OnTheWay
    BY <1>1, <1>10
  <2>2. V = W - 1 /\ T <= S + 1 /\ (count > 0 => T = S)
    BY <1>2, <1>10, <2>1, SizeFacts
  <2>3. Timely
    BY <1>10, <2>1 DEF PendingInv
  <2>4. count' = IF count = 0 THEN 0 ELSE count - 1
    BY <1>10 DEF E!OneLess
  <2> HIDE DEF Timely, V, T, S, W
  <2> QED
    BY <1>1, <1>3, <1>4, <1>10, <2>2, <2>3, <2>4
<1>11. ASSUME NEW s \in Sends, E!SendFailed(s) PROVE PendingInv'
  <2>1. /\ pc[s] \in {"sending", "waiting"} /\ count' = E!OneLess
        /\ UNCHANGED <<clock, sentAt, due, taken, satisfied>>
        /\ pc' = [pc EXCEPT ![s] = "over"]
    BY <1>11 DEF E!SendFailed
  <2> QED
    BY <1>1, <1>10, <2>1
<1>12. ASSUME NEW s \in Sends, E!Check(s) PROVE PendingInv'
  <2>1. /\ pc[s] \in {"sending", "waiting"} /\ count' = E!OneLess
        /\ UNCHANGED <<clock, sentAt, due, taken>>
        /\ pc' = [pc EXCEPT ![s] = "over"] \/ pc' = [pc EXCEPT ![s] = "resend"]
        /\ satisfied' = satisfied \/ (count = 0 /\ satisfied' = satisfied \cup {s})
    BY <1>1, <1>12 DEF E!Check
  <2> QED
    BY <1>1, <1>10, <2>1
<1>13. ASSUME NEW s \in Sends, E!Echo(s) PROVE PendingInv'
  <2>1. /\ UNCHANGED <<clock, sentAt, pc, due, satisfied>> /\ OnTheWay' = OnTheWay
        /\ taken' = IF count > 0 THEN taken + 1 ELSE taken
        /\ count' = IF count = 0 THEN 0 ELSE count - 1
    BY <1>13 DEF E!Echo, E!OneLess
  <2>2. Timely
    BY <2>1 DEF PendingInv
  <2>3. V = W /\ T = S
    BY <2>1
  <2> HIDE DEF Timely, V, T, S, W
  <2> QED
    BY <1>1, <1>3, <1>4, <2>1, <2>2, <2>3
<1>14. CASE UNCHANGED echoVars
  BY <1>14 DEF echoVars, PendingInv
<1> QED
  BY <1>5, <1>6, <1>7, <1>8, <1>9, <1>11, <1>12, <1>13, <1>14 DEF E!Next

\* A pending echo goes with an attempt that went unheard.
LEMMA UnheardStep ==
    ASSUME UnheardInv, [E!Next]_echoVars
    PROVE  UnheardInv'
<1> USE DEF EchoTypes
<1>1. EchoTypes /\ EchoTypes'
  BY EchoTypesStep DEF UnheardInv
<1>2. IsFiniteSet(Unheard) /\ IsFiniteSet(Unheard')
  BY CountedFinite
<1> DEFINE U == Cardinality(Unheard)
           V == Cardinality(Unheard')
<1>3. U \in Nat /\ V \in Nat /\ count <= U
  BY <1>2, FS_CardinalityType DEF UnheardInv
<1>4. \A s \in Sends : echoed[s] \subseteq E!Aired(s)
  BY DEF UnheardInv
\* Steps that put nothing on the air and hear nothing.
<1>5. ASSUME \A s \in Sends : E!Aired(s)' = E!Aired(s) /\ echoed'[s] = echoed[s], count' <= count
      PROVE  UnheardInv'
  <2>1. Unheard' = Unheard
    BY <1>5 DEF Unheard
  <2>2. \A s \in Sends : echoed'[s] \subseteq E!Aired(s)'
    BY <1>4, <1>5
  <2>3. count' <= Cardinality(Unheard)
    BY <1>1, <1>3, <1>5
  <2> QED
    BY <1>1, <2>1, <2>2, <2>3 DEF UnheardInv
<1>6. E!OneLess <= count
  BY <1>1 DEF E!OneLess
<1>7. CASE E!Tick \/ UNCHANGED echoVars
  <2>1. UNCHANGED <<count, pc, sendAttempt, echoed>>
    BY <1>7 DEF E!Tick, echoVars
  <2> QED
    BY <1>1, <1>5, <2>1 DEF E!Aired
<1>8. CASE E!Sweep
  <2>1. UNCHANGED <<pc, sendAttempt, echoed>> /\ count' <= count
    BY <1>1, <1>8 DEF E!Sweep
  <2> QED
    BY <1>5, <2>1 DEF E!Aired
<1>9. ASSUME NEW s \in Sends, E!Transmit(s) PROVE UnheardInv'
  <2>1. /\ pc[s] \in {"new", "resend"} /\ pc' = [pc EXCEPT ![s] = "sending"]
        /\ count' = count + 1 /\ UNCHANGED <<sendAttempt, echoed>>
    BY <1>9 DEF E!Transmit
  <2> DEFINE k == sendAttempt[s]
  <2>2. /\ k \in {0, 1} /\ k \notin E!Aired(s) /\ E!Aired(s)' = E!Aired(s) \cup {k}
        /\ \A t \in Sends \ {s} : E!Aired(t)' = E!Aired(t)
    BY <1>1, <2>1 DEF E!Aired
  <2>3. k \notin echoed[s]
    BY <1>4, <2>2
  <2> HIDE DEF k
  <2>4. Unheard' = Unheard \cup {<<s, k>>} /\ <<s, k>> \notin Unheard
    BY <2>1, <2>2, <2>3 DEF Unheard
  <2>5. V = U + 1
    BY <1>2, <2>4, SizeFacts
  <2>6. \A t \in Sends : echoed'[t] \subseteq E!Aired(t)'
    BY <1>4, <2>1, <2>2
  <2>7. count' <= V
    BY <1>1, <1>3, <2>1, <2>5
  <2> QED
    BY <1>1, <2>6, <2>7 DEF UnheardInv
<1>10. ASSUME NEW s \in Sends, E!NotConnected(s) PROVE UnheardInv'
  <2>1. \A t \in Sends : E!Aired(t)' = E!Aired(t)
    BY <1>1, <1>10 DEF E!NotConnected, E!Aired
  <2>2. UNCHANGED <<count, echoed>>
    BY <1>10 DEF E!NotConnected
  <2> QED
    BY <1>1, <1>5, <2>1, <2>2
<1>11. ASSUME NEW s \in Sends, E!Sent(s) PROVE UnheardInv'
  <2>1. \A t \in Sends : E!Aired(t)' = E!Aired(t)
    BY <1>1, <1>11 DEF E!Sent, E!Aired
  <2>2. UNCHANGED <<count, echoed>>
    BY <1>11 DEF E!Sent
  <2> QED
    BY <1>1, <1>5, <2>1, <2>2
<1>12. ASSUME NEW s \in Sends, E!SendFailed(s) PROVE UnheardInv'
  <2>1. \A t \in Sends : E!Aired(t)' = E!Aired(t)
    BY <1>1, <1>12 DEF E!SendFailed, E!Aired
  <2>2. count' = E!OneLess /\ echoed' = echoed
    BY <1>12 DEF E!SendFailed
  <2> QED
    BY <1>5, <1>6, <2>1, <2>2
<1>13. ASSUME NEW s \in Sends, E!Check(s) PROVE UnheardInv'
  <2>1. \A t \in Sends : E!Aired(t)' = E!Aired(t)
    BY <1>1, <1>13 DEF E!Check, E!Aired
  <2>2. count' = E!OneLess /\ echoed' = echoed
    BY <1>13 DEF E!Check
  <2> QED
    BY <1>5, <1>6, <2>1, <2>2
<1>14. ASSUME NEW s \in Sends, E!Echo(s) PROVE UnheardInv'
  <2>1. PICK n \in E!Aired(s) : echoed' = [echoed EXCEPT ![s] = @ \cup {n}]
    BY <1>14 DEF E!Echo
  <2>2. UNCHANGED <<pc, sendAttempt>> /\ count' = IF count = 0 THEN 0 ELSE count - 1
    BY <1>14 DEF E!Echo, E!OneLess
  <2>3. \A t \in Sends : E!Aired(t)' = E!Aired(t)
    BY <2>2 DEF E!Aired
  <2>4. \A t \in Sends : echoed'[t] \subseteq E!Aired(t)'
    BY <1>1, <1>4, <2>1, <2>3
  <2>5. Unheard \subseteq Unheard' \cup {<<s, n>>}
    BY <1>1, <2>1, <2>3 DEF Unheard
  <2>6. U <= V + 1
    BY <1>2, <2>5, SizeFacts
  <2>7. count' <= V
    BY <1>1, <1>3, <2>2, <2>6
  <2> QED
    BY <1>1, <2>4, <2>7 DEF UnheardInv
<1> QED
  BY <1>7, <1>8, <1>9, <1>10, <1>11, <1>12, <1>13, <1>14 DEF E!Next

\* pendingEcho.count, effectiveSelfEchoTTL: while sending and waiting fit into
\* the time an entry is kept, no more sends of a text go without their retry
\* than echoes were heard, for any number of identical texts.
THEOREM OneEchoForEachSend ==
    ASSUME EchoMaxSend + RetryWait <= E!EchoTTL
    PROVE  E!Spec => []OneEchoOneSend
<1>1. PendingInv => OneEchoOneSend
  BY DEF PendingInv, OneEchoOneSend, E!OneEchoOneSend, E!Cardinality, Cardinality
<1>2. PendingInv /\ [E!Next]_echoVars => PendingInv'
  BY PendingStep
<1>3. echoVars = E!vars /\ echoVars' = E!vars'
  BY DEF echoVars, E!vars
<1>4. PendingInv /\ [E!Next]_E!vars => PendingInv'
  BY <1>2, <1>3
<1> QED
  BY <1>1, <1>4, InitEcho, PTL DEF E!Spec

\* transmitMeshtastic: whatever the times, a text is sent again only when some
\* packet that carried it was not heard.
THEOREM UnheardIsRetried == E!Spec => RetriedOnlyUnheard
<1> DEFINE Unechoed == \A s \in Sends : sendAttempt'[s] # sendAttempt[s] =>
                          \E t \in Sends : E!Aired(t) \ echoed[t] # {}
<1>1. echoVars = E!vars /\ echoVars' = E!vars'
  BY DEF echoVars, E!vars
<1>2. UnheardInv /\ [E!Next]_E!vars => UnheardInv'
  BY <1>1, UnheardStep
<1>3. ASSUME UnheardInv, E!Next PROVE Unechoed
  <2> SUFFICES ASSUME NEW s \in Sends, sendAttempt'[s] # sendAttempt[s]
               PROVE  \E t \in Sends : E!Aired(t) \ echoed[t] # {}
    OBVIOUS
  <2>1. \E t \in Sends : E!Check(t)
    BY <1>3 DEF E!Next, E!Tick, E!Sweep, E!Transmit, E!NotConnected, E!Sent, E!SendFailed, E!Echo
  <2>2. count > 0
    BY <2>1 DEF E!Check
  <2>3. Unheard # {}
    BY <1>3, <2>2, FS_EmptySet DEF UnheardInv, EchoTypes
  <2> QED
    BY <2>3 DEF Unheard
<1>4. UnheardInv /\ [E!Next]_E!vars => [Unechoed]_E!vars
  BY <1>3
<1> QED
  BY <1>2, <1>4, InitEcho, PTL DEF E!Spec, RetriedOnlyUnheard, E!RetriedOnlyUnheard
=============================================================================
