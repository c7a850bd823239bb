--------------------------- MODULE DeliveryProofs ---------------------------
(***************************************************************************)
(* Theorems about Delivery, for every set of messages, every chunking,     *)
(* every delivery rule and every number of retries: its types, that a      *)
(* closed bridge retransmits a chunk once more at most and is left with no *)
(* timer, that every chunk of a Discord message settles its receipt        *)
(* exactly once, that the receipts implement the verdicts of               *)
(* DeliveryReport, and that a message ends with the reaction of its        *)
(* verdict but for the requests Discord refused.                           *)
(***************************************************************************)
EXTENDS Delivery, FiniteSetTheorems, TLAPS

\* A chunk is a message and an index, and its goroutine is an actor.
LEMMA SendsFacts ==
    ASSUME NEW s \in Sends
    PROVE  /\ s[1] \in Msgs /\ s[2] \in 1..NChunks[s[1]]
           /\ s = <<s[1], s[2]>> /\ s \in ChunksOf(s[1])
           /\ s \in Actors /\ PacketOf[s] \in Packets
  BY ChunksAssumption DEF Sends, ChunksOf, Actors

\* The chunks of a message are chunks.
LEMMA ChunksOfFacts ==
    ASSUME NEW m \in Msgs, NEW i \in 1..NChunks[m]
    PROVE  <<m, i>> \in Sends
  BY DEF Sends, ChunksOf

\* The method calls made on a message's receipt are method calls.
LEMMA CallType ==
    ASSUME NEW op \in Methods, NEW m \in Msgs
    PROVE  Call(op, m) \in Seq(MethodCall)
<1>1. [op |-> op, msg |-> m] \in MethodCall
  BY DEF MethodCall
<1> QED
  BY <1>1 DEF Call

\* The method calls made on several receipts are method calls.
LEMMA CallAllType ==
    ASSUME NEW op \in Methods, NEW ms \in Seq(Msgs)
    PROVE  CallAll(op, ms) \in Seq(MethodCall)
<1>1. /\ Len(ms) \in Nat /\ DOMAIN ms = 1..Len(ms)
      /\ \A i \in 1..Len(ms) : ms[i] \in Msgs
  OBVIOUS
<1>2. CallAll(op, ms) \in [1..Len(ms) -> MethodCall]
  BY <1>1 DEF CallAll, MethodCall
<1> QED
  BY <1>1, <1>2

\* A record that has been reported is a record.
LEMMA ReportedType ==
    ASSUME NEW r \in Record, NEW late \in Seq(Msgs)
    PROVE  [r EXCEPT !.reported = TRUE, !.receipts = <<>>, !.lateReceipts = late] \in Record
<1>1. <<>> \in Seq(Msgs) /\ TRUE \in BOOLEAN
  OBVIOUS
<1> QED
  BY <1>1 DEF Record

\* A record whose late receipts have been taken is a record.
LEMMA UpgradedType ==
    ASSUME NEW r \in Record
    PROVE  [r EXCEPT !.lateReceipts = <<>>] \in Record
<1>1. <<>> \in Seq(Msgs)
  OBVIOUS
<1> QED
  BY <1>1 DEF Record

\* Requests are requests.
LEMMA RequestTypes ==
    ASSUME NEW e \in Emojis, NEW m \in Msgs
    PROVE  React(m, e) \in Request /\ Unreact(m, e) \in Request
  BY DEF React, Unreact, Request

-----------------------------------------------------------------------------
(* Type correctness.                                                       *)

\* The bridge starts with every variable of its type.
LEMMA InitTypeOK == Init => TypeOK
<1> SUFFICES ASSUME Init PROVE TypeOK
  OBVIOUS
<1>1. NewRecord \in Record /\ NoReceipt \in Receipt /\ NoEvidence \in Evidence
  BY DEF NewRecord, Record, NoReceipt, Receipt, NoEvidence, Evidence
<1>2. 0 \in 0..MaxRetries
  BY LimitsAssumption
<1>3. /\ relayQ \in Seq(Msgs) /\ fate \in [Msgs -> {"new", "queued", "taken", "dropped"}]
      /\ worker \in Sends \cup {NoSend} /\ txMu \in Sends \cup {NoSend}
      /\ pc \in [Sends -> PCs] /\ attempt \in [Sends -> 0..MaxRetries]
  BY <1>2 DEF Init, PCs
<1>4. session \in BOOLEAN /\ closed \in BOOLEAN /\ halted \in BOOLEAN
  BY Zenon DEF Init
<1>5. /\ deliveries \subseteq Packets /\ rec \in [Packets -> Record]
      /\ receipt \in [Msgs -> Receipt]
      /\ aired \subseteq Packets /\ evidence \in [Packets -> Evidence]
  BY <1>1 DEF Init
<1>6. /\ todo \in [Actors -> Seq(MethodCall)] /\ http \in [Actors -> Seq(Request)]
      /\ made \subseteq Request /\ lost \subseteq made /\ shown \in [Msgs -> SUBSET Emojis]
      /\ allowed \in [Sends -> Nat]
  BY DEF Init
<1> QED
  BY <1>3, <1>4, <1>5, <1>6, Zenon DEF TypeOK

\* Opening a receipt keeps the receipts' type.
LEMMA NewReceiptType ==
    ASSUME receipt \in [Msgs -> Receipt], NEW m \in Msgs, NEW n \in Nat
    PROVE  NewDiscordReceipt(m, n) \in [Msgs -> Receipt]
<1>1. [receipt[m] EXCEPT !.pending = n] \in Receipt
  BY DEF Receipt
<1> QED
  BY <1>1 DEF NewDiscordReceipt

\* Taking a message keeps the types.
LEMMA TakeTypeOK == TypeOK /\ Take => TypeOK'
<1> SUFFICES ASSUME TypeOK, Take PROVE TypeOK'
  OBVIOUS
<1> DEFINE m == Head(relayQ)
<1>1. m \in Msgs /\ Tail(relayQ) \in Seq(Msgs)
  BY DEF TypeOK, Take
<1>2. <<m, 1>> \in Sends /\ NChunks[m] \in Nat
  BY <1>1, ChunksOfFacts, ChunksAssumption
<1>3. receipt' \in [Msgs -> Receipt]
  BY <1>1, <1>2, NewReceiptType DEF TypeOK, Take
<1> QED
  BY <1>1, <1>2, <1>3 DEF TypeOK, Take, chainVars, recordVars, closeVars, discordVars

\* Posting a message keeps the types.
LEMMA PostTypeOK == ASSUME NEW m \in Msgs PROVE TypeOK /\ Post(m) => TypeOK'
<1> SUFFICES ASSUME TypeOK, Post(m) PROVE TypeOK'
  OBVIOUS
<1>1. receipt' \in [Msgs -> Receipt]
  BY NewReceiptType DEF TypeOK, Post
<1>2. todo' \in [Actors -> Seq(MethodCall)]
  <2>1. Call("settleFalse", m) \in Seq(MethodCall)
    BY CallType DEF Methods
  <2> QED
    BY <2>1 DEF TypeOK, Post
<1>3. relayQ' \in Seq(Msgs)
  <2>1. Append(relayQ, m) \in Seq(Msgs)
    BY DEF TypeOK
  <2> QED
    BY <2>1 DEF TypeOK, Post
<1>4. fate' \in [Msgs -> {"new", "queued", "taken", "dropped"}]
  BY DEF TypeOK, Post
<1> QED
  BY <1>1, <1>2, <1>3, <1>4 DEF TypeOK, Post, chainVars, recordVars, closeVars, discordVars

\* Sending a chunk keeps the types; a retry is made only below max_retries.
LEMMA ChainTypeOK == ASSUME NEW s \in Sends PROVE TypeOK /\ Chain(s) => TypeOK'
<1> SUFFICES ASSUME TypeOK, Chain(s) PROVE TypeOK'
  OBVIOUS
<1> DEFINE m == s[1]
<1> DEFINE p == PacketOf[s]
<1>1. m \in Msgs /\ p \in Packets /\ s \in Actors
  BY SendsFacts
<1>2. AfterChunk(s) \in Sends \cup {NoSend}
  BY <1>1, SendsFacts, ChunksOfFacts, ChunksAssumption DEF AfterChunk
<1>3. \A op \in Methods : Call(op, m) \in Seq(MethodCall)
  BY <1>1, CallType
<1>4. NewRecord \in Record
  BY DEF NewRecord, Record
<1>5. CASE StartChunk(s)
  BY <1>5 DEF StartChunk, TypeOK, PCs, queueVars, recordVars, receiptVars, closeVars
<1>6. CASE AbandonUnsent(s)
  BY <1>1, <1>3, <1>6 DEF AbandonUnsent, TypeOK, PCs, Methods, queueVars, recordVars, closeVars,
       discordVars
<1>7. CASE AbandonRetry(s)
  BY <1>7 DEF AbandonRetry, TypeOK, PCs, queueVars, recordVars, receiptVars, closeVars
<1>8. CASE AwaitAir(s)
  BY <1>8 DEF AwaitAir, TypeOK, PCs, queueVars, recordVars, receiptVars, closeVars
<1>9. CASE Track(s)
  <2> DEFINE r == IF p \in deliveries THEN rec[p] ELSE NewRecord
  <2>1. r \in Record
    BY <1>1, <1>4 DEF TypeOK
  <2>2. r.receipts \in Seq(Msgs)
    BY <2>1 DEF Record
  <2>3. AddReceipt(r.receipts, m) \in Seq(Msgs)
    BY <1>1, <2>2 DEF AddReceipt
  <2>4. [r EXCEPT !.reported = FALSE, !.receipts = AddReceipt(@, m)] \in Record
    BY <2>1, <2>3 DEF Record
  <2>5. rec' \in [Packets -> Record]
    BY <1>1, <1>9, <2>4 DEF Track, TypeOK
  <2> QED
    BY <1>1, <1>9, <2>5 DEF Track, TypeOK, PCs, queueVars, receiptVars, closeVars
<1>10. CASE SendAccepted(s)
  BY <1>1, <1>3, <1>10 DEF SendAccepted, TypeOK, PCs, Methods, queueVars, recordVars, closeVars,
       discordVars
<1>11. CASE SendFailed(s)
  <2>1. todo' \in [Actors -> Seq(MethodCall)]
    BY <1>1, <1>3, <1>11 DEF SendFailed, TypeOK, Methods
  <2>2. deliveries' \subseteq Packets
    BY <1>1, <1>11 DEF SendFailed, TypeOK
  <2>4. rec' \in [Packets -> Record]
    BY <1>1, <1>4, <1>11 DEF SendFailed, TypeOK
  <2>3. pc' \in [Sends -> PCs]
    BY <1>11 DEF SendFailed, TypeOK, PCs
  <2> QED
    BY <1>11, <2>1, <2>2, <2>3, <2>4 DEF SendFailed, TypeOK, queueVars, closeVars, discordVars
<1>12. CASE Arm(s)
  BY <1>2, <1>12 DEF Arm, Release, TypeOK, PCs, recordVars, receiptVars, closeVars
<1>13. CASE Fire(s)
  BY <1>13 DEF Fire, TypeOK, PCs, queueVars, recordVars, receiptVars, closeVars
<1>14. CASE Callback(s)
  BY <1>14 DEF Callback, TypeOK, PCs, queueVars, recordVars, receiptVars, closeVars
<1>15. CASE Check(s)
  <2>1. attempt' \in [Sends -> 0..MaxRetries]
    <3>1. attempt[s] \in 0..MaxRetries
      BY DEF TypeOK
    <3>2. attempt[s] < MaxRetries => attempt[s] + 1 \in 0..MaxRetries
      BY <3>1, LimitsAssumption
    <3>3. CASE CanRetry(s) /\ ~DeliveryConfirmed(p)
      BY <1>15, <3>2, <3>3 DEF Check, CanRetry, TypeOK
    <3>4. CASE ~(CanRetry(s) /\ ~DeliveryConfirmed(p))
      BY <1>15, <3>4 DEF Check, TypeOK
    <3> QED
      BY <3>3, <3>4
  <2> QED
    BY <1>15, <2>1 DEF Check, TypeOK, PCs, queueVars, recordVars, receiptVars, closeVars
<1>16. CASE Report(s)
  <2> DEFINE r == rec[p]
  <2>1. /\ r \in Record /\ r.receipts \in Seq(Msgs)
        /\ r.lateReceipts \in Seq(Msgs) /\ r.lateReceipts \o r.receipts \in Seq(Msgs)
    BY <1>1 DEF TypeOK, Record
  <2> HIDE DEF r
  <2>2. \A late \in Seq(Msgs) :
          [r EXCEPT !.reported = TRUE, !.receipts = <<>>, !.lateReceipts = late] \in Record
    BY <2>1, ReportedType
  <2> USE DEF r
  <2>3. rec' \in [Packets -> Record]
    BY <1>1, <1>16, <2>1, <2>2 DEF Report, TypeOK
  <2>4. \A op \in Methods : CallAll(op, r.receipts) \in Seq(MethodCall)
    BY <2>1, CallAllType
  <2>5. todo' \in [Actors -> Seq(MethodCall)]
    BY <1>1, <1>16, <2>4 DEF Report, TypeOK, Methods
  <2> QED
    BY <1>16, <2>3, <2>5 DEF Report, TypeOK, PCs, queueVars, closeVars, discordVars
<1>17. CASE Finish(s)
  BY <1>2, <1>17 DEF Finish, Release, TypeOK, PCs, recordVars, receiptVars, closeVars
<1> QED
  BY <1>5, <1>6, <1>7, <1>8, <1>9, <1>10, <1>11, <1>12, <1>13, <1>14, <1>15, <1>16, <1>17
     DEF Chain

\* A receipt keeps its type: neither counter is taken below zero.
LEMMA ReceiptStepTypeOK ==
    ASSUME NEW a \in Actors PROVE TypeOK /\ ReceiptStep(a) => TypeOK'
<1> SUFFICES ASSUME TypeOK, ReceiptStep(a) PROVE TypeOK'
  OBVIOUS
<1>1. todo[a] # <<>> => /\ Tail(todo[a]) \in Seq(MethodCall)
                         /\ Head(todo[a]).msg \in Msgs
  <2>1. todo[a] \in Seq(MethodCall)
    BY DEF TypeOK
  <2>2. \A c \in MethodCall : c.msg \in Msgs
    BY DEF MethodCall
  <2> QED
    BY <2>1, <2>2
<1>2. http[a] # <<>> => /\ Tail(http[a]) \in Seq(Request)
                         /\ Head(http[a]).msg \in Msgs
                         /\ Head(http[a]).emoji \in Emojis
  <2>1. http[a] \in Seq(Request)
    BY DEF TypeOK
  <2>2. \A q \in Request : q.msg \in Msgs /\ q.emoji \in Emojis
    BY DEF Request
  <2> QED
    BY <2>1, <2>2
<1>3. \A m \in Msgs : /\ receipt[m] \in Receipt
                      /\ receipt[m].pending \in Nat /\ receipt[m].failed \in Nat
  BY DEF TypeOK, Receipt
<1>4. CASE MarkAccepted(a)
  <2> DEFINE m == Head(todo[a]).msg
  <2>1. m \in Msgs
    BY <1>1, <1>4 DEF MarkAccepted, NextCall
  <2>2. [receipt[m] EXCEPT !.accepted = TRUE] \in Receipt
    BY <1>3, <2>1 DEF Receipt
  <2>3. receipt' \in [Msgs -> Receipt]
    BY <1>4, <2>1, <2>2 DEF MarkAccepted, TypeOK
  <2>4. <<React(m, "accepted")>> \in Seq(Request)
    BY <2>1, RequestTypes DEF Emojis
  <2>5. http' \in [Actors -> Seq(Request)]
    BY <1>4, <2>4 DEF MarkAccepted, TypeOK
  <2>6. todo' \in [Actors -> Seq(MethodCall)]
    BY <1>1, <1>4 DEF MarkAccepted, NextCall, TypeOK
  <2> QED
    BY <1>4, <2>3, <2>5, <2>6 DEF MarkAccepted, TypeOK, queueVars, chainVars, recordVars,
         closeVars, discordVars
<1>5. CASE Settle(a)
  <2> DEFINE m == Head(todo[a]).msg
  <2> DEFINE f == IF Head(todo[a]).op = "settleFalse" THEN 1 ELSE 0
  <2> DEFINE r == [receipt[m] EXCEPT !.pending = @ - 1, !.failed = @ + f]
  <2>1. m \in Msgs
    BY <1>1, <1>5 DEF Settle, NextCall
  <2>2. receipt[m].pending # 0 => r \in Receipt
    <3>1. /\ receipt[m].pending # 0 => receipt[m].pending - 1 \in Nat
          /\ receipt[m].failed + f \in Nat
      BY <1>3, <2>1
    <3> HIDE DEF f, m
    <3> QED
      BY <1>3, <2>1, <3>1 DEF Receipt
  <2>3. receipt' \in [Msgs -> Receipt]
    BY <1>5, <2>1, <2>2 DEF Settle, TypeOK
  <2>4. FinalReactions(m, r) \in Seq(Request)
    <3>1. /\ <<React(m, IF r.failed = 0 THEN "delivered" ELSE "unconfirmed")>> \in Seq(Request)
          /\ <<Unreact(m, "accepted")>> \in Seq(Request)
      BY <2>1, RequestTypes DEF Emojis
    <3>2. \A A, B \in Seq(Request) : A \o B \in Seq(Request)
      OBVIOUS
    <3> HIDE DEF r
    <3> QED
      BY <3>1, <3>2 DEF FinalReactions
  <2>5. http' \in [Actors -> Seq(Request)]
    <3> DEFINE answer == IF r.pending = 0 THEN FinalReactions(m, r) ELSE <<>>
    <3>1. http' = http \/ http' = [http EXCEPT ![a] = answer]
      BY <1>5 DEF Settle
    <3>2. answer \in Seq(Request)
      BY <2>4
    <3> HIDE DEF answer
    <3> QED
      BY <3>1, <3>2 DEF TypeOK
  <2>6. todo' \in [Actors -> Seq(MethodCall)]
    BY <1>1, <1>5 DEF Settle, NextCall, TypeOK
  <2> QED
    BY <1>5, <2>3, <2>5, <2>6 DEF Settle, TypeOK, queueVars, chainVars, recordVars, closeVars,
         discordVars
<1>6. CASE LateConfirm(a)
  <2> DEFINE m == Head(todo[a]).msg
  <2> DEFINE r == [receipt[m] EXCEPT !.failed = @ - 1]
  <2>1. m \in Msgs
    BY <1>1, <1>6 DEF LateConfirm, NextCall
  <2>2. receipt[m].failed # 0 => r \in Receipt
    BY <1>3, <2>1 DEF Receipt
  <2>3. receipt' \in [Msgs -> Receipt]
    BY <1>6, <2>1, <2>2 DEF LateConfirm, TypeOK
  <2>4. <<React(m, "delivered"), Unreact(m, "unconfirmed")>> \in Seq(Request)
    BY <2>1, RequestTypes DEF Emojis
  <2>5. http' \in [Actors -> Seq(Request)]
    <3> DEFINE swap == <<React(m, "delivered"), Unreact(m, "unconfirmed")>>
    <3> DEFINE answer == IF r.failed = 0 /\ r.pending = 0 THEN swap ELSE <<>>
    <3>1. http' = http \/ http' = [http EXCEPT ![a] = answer]
      BY <1>6 DEF LateConfirm
    <3>2. answer \in Seq(Request)
      BY <2>4
    <3> HIDE DEF answer
    <3> QED
      BY <3>1, <3>2 DEF TypeOK
  <2>6. todo' \in [Actors -> Seq(MethodCall)]
    BY <1>1, <1>6 DEF LateConfirm, NextCall, TypeOK
  <2> QED
    BY <1>6, <2>3, <2>5, <2>6 DEF LateConfirm, TypeOK, queueVars, chainVars, recordVars,
         closeVars, discordVars
<1>7. CASE MakeRequest(a)
  <2> DEFINE q == Head(http[a])
  <2>1. http[a] # <<>> /\ q \in Request
    BY <1>7 DEF MakeRequest, TypeOK
  <2>2. made' = made \cup {q} /\ lost' \in {lost, lost \cup {q}}
    BY <1>7 DEF MakeRequest
  <2>3. \/ shown' = [shown EXCEPT ![q.msg] = shown[q.msg] \cup {q.emoji}]
        \/ shown' = [shown EXCEPT ![q.msg] = shown[q.msg] \ {q.emoji}]
        \/ shown' = shown
    BY <1>7 DEF MakeRequest
  <2>4. q.msg \in Msgs /\ q.emoji \in Emojis
    BY <1>2, <2>1
  <2> HIDE DEF q
  <2>5. shown' \in [Msgs -> SUBSET Emojis]
    <3>1. shown \in [Msgs -> SUBSET Emojis] /\ shown[q.msg] \subseteq Emojis
      BY <2>4 DEF TypeOK
    <3>2. shown[q.msg] \cup {q.emoji} \subseteq Emojis /\ shown[q.msg] \ {q.emoji} \subseteq Emojis
      BY <2>4, <3>1
    <3> QED
      BY <2>3, <3>1, <3>2
  <2>6. made' \subseteq Request /\ lost' \subseteq made'
    BY <2>1, <2>2 DEF TypeOK
  <2>7. http' \in [Actors -> Seq(Request)]
    BY <1>2, <1>7 DEF MakeRequest, TypeOK
  <2> QED
    BY <1>7, <2>5, <2>6, <2>7 DEF MakeRequest, TypeOK, queueVars, chainVars, recordVars, closeVars
<1> QED
  BY <1>4, <1>5, <1>6, <1>7 DEF ReceiptStep

\* Adding evidence keeps a record a record.
LEMMA HeardType ==
    ASSUME NEW R \in SUBSET Hops, NEW O \in SUBSET Observers
    PROVE  /\ \A r \in Record : Heard(r, R, O) \in Record
           /\ \A e \in Evidence : Heard(e, R, O) \in Evidence
<1>1. \A r \in Record : Heard(r, R, O) \in Record
  BY DEF Heard, Record
<1>2. \A e \in Evidence : Heard(e, R, O) \in Evidence
  BY DEF Heard, Evidence
<1> QED
  BY <1>1, <1>2

\* Evidence, housekeeping, the session and Close keep the types.
LEMMA EnvironmentTypeOK == TypeOK /\ Environment => TypeOK'
<1> SUFFICES ASSUME TypeOK, Environment PROVE TypeOK'
  OBVIOUS
<1>1. ASSUME NEW m \in Msgs, Post(m) PROVE TypeOK'
  BY <1>1, PostTypeOK
<1>2. ASSUME NEW p \in Packets, Sweep(p) PROVE TypeOK'
  <2>1. NewRecord \in Record
    BY DEF NewRecord, Record
  <2> QED
    BY <1>2, <2>1 DEF Sweep, TypeOK, queueVars, chainVars, receiptVars, closeVars
<1>3. ASSUME NEW p \in Packets, NEW path \in SUBSET Hops, ObserveOwnCopy(p, path)
      PROVE  TypeOK'
  <2>1. Heard(rec[p], path, {}) \in Record /\ Heard(evidence[p], path, {}) \in Evidence
    BY HeardType DEF TypeOK
  <2> QED
    BY <1>3, <2>1 DEF ObserveOwnCopy, TypeOK, queueVars, chainVars, receiptVars, closeVars
<1>4. ASSUME NEW p \in Packets, NEW path \in SUBSET Hops, NEW o \in Observers,
             HandleObservation(p, o, path)
      PROVE  TypeOK'
  <2> DEFINE r == Heard(rec[p], path, {o})
  <2> DEFINE late == r.reported /\ ~Confirmed(rec[p]) /\ Confirmed(r)
  <2>1. r \in Record /\ Heard(evidence[p], path, {o}) \in Evidence
    BY HeardType DEF TypeOK
  <2>2. r.lateReceipts \in Seq(Msgs)
    BY <2>1 DEF Record
  <2>3. [r EXCEPT !.lateReceipts = <<>>] \in Record
    BY <2>1, UpgradedType
  <2>4. CoreScope \in Actors /\ CallAll("lateConfirm", r.lateReceipts) \in Seq(MethodCall)
    BY <2>2, CallAllType DEF Actors, Methods
  <2>5. rec' = [rec EXCEPT ![p] = IF late THEN [r EXCEPT !.lateReceipts = <<>>] ELSE r]
    BY <1>4 DEF HandleObservation
  <2>6. todo' = [todo EXCEPT ![CoreScope] =
                   IF late THEN CallAll("lateConfirm", r.lateReceipts) ELSE <<>>]
    BY <1>4 DEF HandleObservation
  <2> HIDE DEF late
  <2>7. rec' \in [Packets -> Record] /\ todo' \in [Actors -> Seq(MethodCall)]
    BY <2>1, <2>3, <2>4, <2>5, <2>6 DEF TypeOK
  <2>8. evidence' \in [Packets -> Evidence]
    BY <1>4, <2>1 DEF HandleObservation, TypeOK
  <2> QED
    BY <1>4, <2>7, <2>8 DEF HandleObservation, TypeOK, queueVars, chainVars, closeVars,
         discordVars
<1>5. CASE SetMeshcoreSession
  <2>1. session' \in BOOLEAN
    BY <1>5, Zenon DEF SetMeshcoreSession
  <2> QED
    BY <1>5, <2>1 DEF SetMeshcoreSession, TypeOK, queueVars, chainVars, recordVars, receiptVars,
         closeVars
<1>6. CASE Close
  <2>1. allowed' \in [Sends -> Nat]
    <3>1. \A s \in Sends : attempt[s] \in Nat
      BY LimitsAssumption DEF TypeOK
    <3> QED
      BY <1>6, <3>1 DEF Close
  <2>2. closed' \in BOOLEAN
    BY <1>6, Zenon DEF Close
  <2> QED
    BY <1>6, <2>1, <2>2 DEF Close, TypeOK, queueVars, chainVars, recordVars, receiptVars
<1>7. CASE StopTimers
  <2>1. pc' \in [Sends -> PCs]
    BY <1>7 DEF StopTimers, TypeOK, PCs
  <2>2. halted' \in BOOLEAN
    BY <1>7, Zenon DEF StopTimers
  <2> QED
    BY <1>7, <2>1, <2>2 DEF StopTimers, TypeOK, queueVars, recordVars, receiptVars
<1> QED
  BY <1>1, <1>2, <1>3, <1>4, <1>5, <1>6, <1>7 DEF Environment

\* The variables keep their types: no receipt counter becomes negative and
\* no chunk is attempted more than max_retries + 1 times.
THEOREM TypeCorrectness == Spec => []TypeOK
<1>1. Init => TypeOK
  BY InitTypeOK
<1>2. TypeOK /\ [Next]_vars => TypeOK'
  <2> SUFFICES ASSUME TypeOK, [Next]_vars PROVE TypeOK'
    OBVIOUS
  <2>1. CASE Take
    BY <2>1, TakeTypeOK
  <2>2. ASSUME NEW s \in Sends, Chain(s) PROVE TypeOK'
    BY <2>2, ChainTypeOK
  <2>3. ASSUME NEW a \in Actors, ReceiptStep(a) PROVE TypeOK'
    BY <2>3, ReceiptStepTypeOK
  <2>4. CASE Environment
    BY <2>4, EnvironmentTypeOK
  <2>5. CASE UNCHANGED vars
    BY <2>5 DEF vars, TypeOK
  <2> QED
    BY <2>1, <2>2, <2>3, <2>4, <2>5 DEF Next
<1> QED
  BY <1>1, <1>2, PTL DEF Spec

-----------------------------------------------------------------------------
(* Close.                                                                  *)

\* In a closed bridge a chunk has come no further than it may, and has an
\* attempt left if its callback is past the gate; and the timers are stopped
\* only once the bridge is closed, so that none is armed any more.
CloseInv ==
    /\ \A s \in Sends : closed =>
          attempt[s] <= allowed[s] /\ (pc[s] = "check" => attempt[s] < allowed[s])
    /\ halted => closed /\ \A s \in Sends : pc[s] # "armed"

\* A chunk's steps keep it: the gate lets no further callback through, and
\* no timer is armed.
LEMMA ChainCloses ==
    ASSUME TypeOK, CloseInv, NEW s \in Sends, Chain(s)
    PROVE  CloseInv'
<1>1. /\ closed' = closed /\ halted' = halted /\ allowed' = allowed
      /\ \A t \in Sends \ {s} : pc'[t] = pc[t] /\ attempt'[t] = attempt[t]
  BY DEF Chain, StartChunk, AbandonUnsent, AbandonRetry, AwaitAir, Track, SendAccepted,
         SendFailed, Arm, Fire, Callback, Check, Report, Finish, TypeOK, chainVars, closeVars
<1>2. attempt[s] \in Nat /\ allowed[s] \in Nat
  BY LimitsAssumption DEF TypeOK
<1>3. ASSUME closed
      PROVE  /\ pc'[s] \notin {"armed", "check"} \/ (pc[s] = "armed" /\ pc'[s] = "armed")
             /\ \/ attempt'[s] = attempt[s]
                \/ pc[s] = "check" /\ attempt'[s] = attempt[s] + 1
  <2>1. CASE Arm(s) \/ Fire(s) \/ Callback(s)
    BY <1>3, <2>1 DEF Arm, Fire, Callback, TypeOK
  <2>2. CASE Check(s)
    BY <2>2 DEF Check, TypeOK
  <2>3. CASE ~(Arm(s) \/ Fire(s) \/ Callback(s) \/ Check(s))
    BY <2>3 DEF Chain, StartChunk, AbandonUnsent, AbandonRetry, AwaitAir, Track, SendAccepted,
                SendFailed, Report, Finish, TypeOK
  <2> QED
    BY <2>1, <2>2, <2>3
<1>4. ASSUME closed PROVE attempt'[s] <= allowed[s]
  <2>1. /\ attempt[s] <= allowed[s] /\ (pc[s] = "check" => attempt[s] < allowed[s])
    BY <1>4 DEF CloseInv
  <2> QED
    BY <1>2, <1>3, <1>4, <2>1
<1>5. ASSUME halted PROVE closed /\ pc'[s] # "armed"
  BY <1>3, <1>5 DEF CloseInv
<1> QED
  BY <1>1, <1>3, <1>4, <1>5 DEF CloseInv

\* A closed bridge retransmits a chunk once more at most, and that only if its
\* callback was past the gate when Close began; and it has no timer armed once
\* Close has stopped them.
THEOREM CloseStopsRetries == Spec => []CloseStopsRetransmission
<1>1. Init => CloseInv
  BY DEF Init, CloseInv
<1>2. TypeOK /\ CloseInv /\ [Next]_vars => CloseInv'
  <2> SUFFICES ASSUME TypeOK, CloseInv, [Next]_vars PROVE CloseInv'
    OBVIOUS
  <2>1. ASSUME UNCHANGED <<closeVars, chainVars>> PROVE CloseInv'
    BY <2>1 DEF CloseInv, closeVars, chainVars
  <2>2. ASSUME NEW s \in Sends, Chain(s) PROVE CloseInv'
    BY <2>2, ChainCloses
  <2>3. CASE Take
    BY <2>1, <2>3 DEF Take
  <2>4. ASSUME NEW a \in Actors, ReceiptStep(a) PROVE CloseInv'
    BY <2>1, <2>4 DEF ReceiptStep, MarkAccepted, Settle, LateConfirm, MakeRequest
  <2>5. CASE Close
    <3>1. \A s \in Sends : attempt[s] \in Nat
      BY LimitsAssumption DEF TypeOK
    <3>2. \A s \in Sends :
            /\ pc'[s] = pc[s] /\ attempt'[s] = attempt[s]
            /\ allowed'[s] = IF pc[s] = "check" THEN attempt[s] + 1 ELSE attempt[s]
      BY <2>5 DEF Close, chainVars
    <3>3. ~halted /\ ~halted'
      BY <2>5 DEF Close, CloseInv
    <3> QED
      BY <3>1, <3>2, <3>3 DEF CloseInv
  <2>6. CASE StopTimers
    <3>1. /\ closed /\ closed' /\ allowed' = allowed /\ attempt' = attempt
          /\ \A s \in Sends : pc'[s] = IF pc[s] = "armed" THEN "stopped" ELSE pc[s]
      BY <2>6 DEF StopTimers
    <3> QED
      BY <3>1 DEF CloseInv
  <2>7. CASE Environment /\ ~Close /\ ~StopTimers
    <3>1. UNCHANGED <<closeVars, chainVars>>
      BY <2>7, Zenon DEF Environment, Post, Sweep, ObserveOwnCopy, HandleObservation,
           SetMeshcoreSession, chainVars, closeVars
    <3> QED
      BY <2>1, <3>1
  <2>8. CASE UNCHANGED vars
    BY <2>1, <2>8 DEF vars, closeVars, chainVars
  <2> QED
    BY <2>2, <2>3, <2>4, <2>5, <2>6, <2>7, <2>8 DEF Next
<1>3. CloseInv => CloseStopsRetransmission
  BY DEF CloseInv, CloseStopsRetransmission
<1>4. Spec => []TypeOK
  BY TypeCorrectness
<1> QED
  BY <1>1, <1>2, <1>3, <1>4, PTL DEF Spec

-----------------------------------------------------------------------------
(* Every chunk of a Discord message settles its receipt exactly once, for  *)
(* any number of messages, chunks and retries, provided that no two chunks *)
(* are the same packet (DistinctPackets) and that no record is swept under *)
(* a chunk whose retries still run (~SlowChains).                          *)
(*                                                                         *)
(* A step of one goroutine leaves alone what the invariant says of every   *)
(* other chunk, since chunks do not share records: so the proof follows    *)
(* one chunk through its own steps and frames the rest.                    *)

\* What a step of chunk s leaves alone.
LEMMA ChainFrame ==
    ASSUME TypeOK, NEW s \in Sends, Chain(s)
    PROVE  /\ relayQ' = relayQ /\ fate' = fate /\ receipt' = receipt
           /\ worker' \in {worker, AfterChunk(s)}
           /\ worker' # worker => pc[s] # "idle"
           /\ pc[s] = "idle" => worker = s
           /\ \A t \in Sends \ {s} : pc'[t] = pc[t] /\ attempt'[t] = attempt[t]
           /\ \A a \in Actors \ {s} : todo'[a] = todo[a]
           /\ \A p \in Packets \ {PacketOf[s]} :
                 rec'[p] = rec[p] /\ (p \in deliveries' <=> p \in deliveries)
<1> USE DEF TypeOK, queueVars, chainVars, recordVars, receiptVars
<1>1. CASE StartChunk(s)
  BY <1>1 DEF StartChunk
<1>2. CASE AbandonUnsent(s)
  BY <1>2 DEF AbandonUnsent
<1>3. CASE AbandonRetry(s)
  BY <1>3 DEF AbandonRetry
<1>4. CASE AwaitAir(s)
  BY <1>4 DEF AwaitAir
<1>5. CASE Track(s)
  BY <1>5 DEF Track
<1>6. CASE SendAccepted(s)
  BY <1>6 DEF SendAccepted
<1>7. CASE SendFailed(s)
  BY <1>7 DEF SendFailed
<1>8. CASE Arm(s)
  BY <1>8 DEF Arm, Release
<1>9. CASE Fire(s)
  BY <1>9 DEF Fire
<1>10. CASE Callback(s)
  BY <1>10 DEF Callback
<1>11. CASE Check(s)
  BY <1>11 DEF Check
<1>12. CASE Report(s)
  BY <1>12 DEF Report
<1>13. CASE Finish(s)
  BY <1>13 DEF Finish, Release
<1> QED
  BY <1>1, <1>2, <1>3, <1>4, <1>5, <1>6, <1>7, <1>8, <1>9, <1>10, <1>11, <1>12, <1>13
     DEF Chain

\* The calls on the receipts a chunk owns are the calls on its own receipt.
LEMMA OwnCalls ==
    ASSUME NEW s \in Sends, NEW op \in Methods
    PROVE  CallAll(op, OwnReceipts(s)) = Call(op, s[1])
  BY DEF CallAll, OwnReceipts, Call

\* Adding a chunk's receipt to none, or to itself, gives the receipt it owns.
LEMMA OwnAdded ==
    ASSUME NEW s \in Sends
    PROVE  /\ AddReceipt(<<>>, s[1]) = OwnReceipts(s)
           /\ AddReceipt(OwnReceipts(s), s[1]) = OwnReceipts(s)
  BY SendsFacts DEF AddReceipt, OwnReceipts

-----------------------------------------------------------------------------
(* A chunk's own steps.                                                    *)

\* Chunk s keeps its invariant through its own steps, and none of them
\* changes whether it has settled: only settle itself does.
LEMMA ChainKeepsOwn ==
    ASSUME TypeOK, NEW s \in Sends, ChunkInv(s), Chain(s),
           worker \in Sends => fate[worker[1]] = "taken"
    PROVE  ChunkInv(s)' /\ (s[1] \in WithReceipt => (HasSettled(s)' <=> HasSettled(s)))
<1> DEFINE p == PacketOf[s]
<1>0. s \in Actors /\ p \in Packets /\ s[1] \in Msgs
  BY SendsFacts
<1>a. rec[p] \in Record /\ pc[s] \in PCs /\ attempt[s] \in Nat
  BY <1>0, LimitsAssumption DEF TypeOK
<1>b. \A op \in Methods : s[1] \in WithReceipt => Call(op, s[1]) # <<>>
  BY DEF Call
<1> USE <1>0, <1>a DEF TypeOK, ChunkInv, HasSettled, Unsent, Live,
                       queueVars, chainVars, recordVars, receiptVars
<1>1. CASE StartChunk(s)
  BY <1>1 DEF StartChunk
<1>2. CASE AbandonUnsent(s)
  BY <1>2, <1>b DEF AbandonUnsent, Methods
<1>3. CASE AbandonRetry(s)
  BY <1>3 DEF AbandonRetry
<1>4. CASE AwaitAir(s)
  BY <1>4 DEF AwaitAir
<1>5. CASE Track(s)
  <2> DEFINE r == IF p \in deliveries THEN rec[p] ELSE NewRecord
  <2>1. AddReceipt(r.receipts, s[1]) = OwnReceipts(s)
    BY <1>5, OwnAdded DEF Track, NewRecord
  <2>2. /\ pc'[s] = "sending" /\ p \in deliveries' /\ todo' = todo
        /\ ~rec'[p].reported /\ rec'[p].receipts = OwnReceipts(s)
    BY <1>5, <2>1 DEF Track, Record, NewRecord
  <2> QED
    BY <1>5, <2>2 DEF Track
<1>6. CASE SendAccepted(s)
  BY <1>6 DEF SendAccepted
<1>7. CASE SendFailed(s)
  BY <1>7, <1>b DEF SendFailed, Methods
<1>8. CASE Arm(s)
  BY <1>8 DEF Arm, Returned
<1>9. CASE Fire(s)
  BY <1>9 DEF Fire
<1>10. CASE Callback(s)
  BY <1>10 DEF Callback
<1>11. CASE Check(s)
  BY <1>11, LimitsAssumption DEF Check
<1>12. CASE Report(s)
  <2>1. /\ p \in deliveries /\ ~rec[p].reported
        /\ rec[p].receipts = OwnReceipts(s) /\ pc'[s] = "settling"
    BY <1>12 DEF Report
  <2>2. \E op \in {"settleTrue", "settleFalse"} : todo'[s] = Call(op, s[1])
    <3>1. \E op \in {"settleTrue", "settleFalse"} : todo'[s] = CallAll(op, OwnReceipts(s))
      BY <1>12, <2>1 DEF Report
    <3> QED
      BY <3>1, OwnCalls DEF Methods
  <2> QED
    BY <1>12, <1>b, <2>1, <2>2 DEF Report, Methods
<1>13. CASE Finish(s)
  BY <1>13 DEF Finish, Returned
<1> QED
  BY <1>1, <1>2, <1>3, <1>4, <1>5, <1>6, <1>7, <1>8, <1>9, <1>10, <1>11, <1>12, <1>13
     DEF Chain

\* Chunk t keeps its invariant through another chunk's steps.
LEMMA ChainKeepsOthers ==
    ASSUME DistinctPackets, TypeOK, NEW s \in Sends, NEW t \in Sends \ {s},
           ChunkInv(t), Chain(s)
    PROVE  ChunkInv(t)' /\ (HasSettled(t)' <=> HasSettled(t))
<1>1. t \in Actors \ {s} /\ PacketOf[t] \in Packets \ {PacketOf[s]}
  BY SendsFacts DEF DistinctPackets
<1>2. /\ pc'[t] = pc[t] /\ attempt'[t] = attempt[t] /\ todo'[t] = todo[t]
      /\ rec'[PacketOf[t]] = rec[PacketOf[t]] /\ fate' = fate
      /\ PacketOf[t] \in deliveries' <=> PacketOf[t] \in deliveries
  BY <1>1, ChainFrame
<1> QED
  BY <1>2 DEF ChunkInv, HasSettled, Unsent, Live

\* A chunk's goroutine has at most one call to make.
LEMMA OneCall ==
    ASSUME NEW s \in Sends, ChunkInv(s), todo[s] # <<>>
    PROVE  /\ Tail(todo[s]) = <<>> /\ Head(todo[s]).msg = s[1]
           /\ s[1] \in WithReceipt /\ pc[s] \in {"sent", "settling"}
           /\ Head(todo[s]).op = "markAccepted" => pc[s] = "sent"
           /\ Head(todo[s]).op # "markAccepted" =>
                pc[s] = "settling" /\ Head(todo[s]).op \in {"settleTrue", "settleFalse"}
<1>1. PICK op \in Methods :
        /\ todo[s] = Call(op, s[1])
        /\ \/ op = "markAccepted" /\ pc[s] = "sent"
           \/ op \in {"settleTrue", "settleFalse"} /\ pc[s] = "settling"
  BY DEF ChunkInv, Methods
<1>2. s[1] \in WithReceipt /\ todo[s] = <<[op |-> op, msg |-> s[1]]>>
  BY <1>1 DEF Call
<1> QED
  BY <1>1, <1>2

\* A step on a receipt keeps the invariant of every chunk; only a settle call
\* by the chunk's own goroutine settles it.
LEMMA ReceiptStepKeeps ==
    ASSUME TypeOK, NEW a \in Actors, ReceiptStep(a), NEW t \in Sends, ChunkInv(t)
    PROVE  /\ ChunkInv(t)'
           /\ HasSettled(t) => HasSettled(t)'
           /\ HasSettled(t)' => HasSettled(t) \/ (a = t /\ Settle(a))
<1>0. t \in Actors
  BY SendsFacts
<1>1. /\ pc' = pc /\ attempt' = attempt /\ fate' = fate
      /\ rec' = rec /\ deliveries' = deliveries
  BY DEF ReceiptStep, MarkAccepted, Settle, LateConfirm, MakeRequest,
         queueVars, chainVars, recordVars
<1>2. \/ todo' = todo /\ MakeRequest(a)
      \/ /\ todo[a] # <<>> /\ todo' = [todo EXCEPT ![a] = Tail(@)]
         /\ \/ Settle(a)
            \/ MarkAccepted(a) /\ Head(todo[a]).op = "markAccepted"
            \/ LateConfirm(a) /\ Head(todo[a]).op = "lateConfirm"
  BY DEF ReceiptStep, MarkAccepted, Settle, LateConfirm, MakeRequest, NextCall
<1>3. CASE todo'[t] = todo[t]
  BY <1>1, <1>3 DEF ChunkInv, HasSettled, Unsent, Live
<1>4. CASE todo'[t] # todo[t]
  <2>1. a = t /\ todo[t] # <<>> /\ todo'[t] = Tail(todo[t])
    BY <1>0, <1>2, <1>4 DEF TypeOK
  <2>2. /\ todo'[t] = <<>> /\ pc[t] \in {"sent", "settling"}
        /\ pc[t] = "settling" => Head(todo[t]).op \in {"settleTrue", "settleFalse"}
    BY <2>1, OneCall
  <2>3. HasSettled(t)' => Settle(a)
    BY <1>1, <1>2, <2>1, <2>2 DEF HasSettled
  <2> QED
    BY <1>1, <2>1, <2>2, <2>3 DEF ChunkInv, HasSettled, Unsent, Live
<1> QED
  BY <1>3, <1>4

-----------------------------------------------------------------------------
(* The count.                                                              *)

\* A message has finitely many chunks, as many as NChunks says.
LEMMA ChunksFinite ==
    ASSUME NEW m \in Msgs
    PROVE  IsFiniteSet(ChunksOf(m)) /\ Cardinality(ChunksOf(m)) = NChunks[m]
<1>1. NChunks[m] \in Nat \ {0}
  BY ChunksAssumption
<1>2. IsFiniteSet(1..NChunks[m]) /\ Cardinality(1..NChunks[m]) = NChunks[m]
  BY <1>1, FS_Interval
<1>3. IsFiniteSet({m}) /\ Cardinality({m}) = 1
  BY FS_Singleton
<1>4. /\ IsFiniteSet({m} \X (1..NChunks[m]))
      /\ Cardinality({m} \X (1..NChunks[m])) = 1 * NChunks[m]
  BY <1>2, <1>3, FS_Product
<1> QED
  BY <1>1, <1>4 DEF ChunksOf

\* The chunks yet to settle are finitely many.
LEMMA UnsettledFinite ==
    ASSUME NEW m \in Msgs
    PROVE  IsFiniteSet(Unsettled(m)) /\ Cardinality(Unsettled(m)) \in Nat
<1>1. IsFiniteSet(Unsettled(m))
  BY ChunksFinite, FS_Subset DEF Unsettled
<1> QED
  BY <1>1, FS_CardinalityType

\* While no chunk of m settles or unsettles, the same ones are left.
LEMMA UnsettledFrame ==
    ASSUME NEW m \in Msgs, \A s \in ChunksOf(m) : HasSettled(s)' <=> HasSettled(s)
    PROVE  Unsettled(m)' = Unsettled(m)
<1>1. \A s \in ChunksOf(m) : HasSettled(s)' <=> HasSettled(s)
  OBVIOUS
<1>2. ChunksOf(m)' = ChunksOf(m)
  BY DEF ChunksOf
<1> QED
  BY <1>1, <1>2 DEF Unsettled

\* What a chunk's own steps do to the invariant.
LEMMA ChainAccounting ==
    ASSUME DistinctPackets, TypeOK, AccountingInv, NEW s \in Sends, Chain(s)
    PROVE  AccountingInv'
<1>0. s \in Actors /\ s[1] \in Msgs /\ s \notin Msgs /\ s # CoreScope /\ ChunkInv(s)
  BY SendsFacts, NamesAssumption DEF AccountingInv
<1>1. worker \in Sends => fate[worker[1]] = "taken"
  BY DEF AccountingInv, QueueInv
<1>2. \A t \in Sends : ChunkInv(t)'
  <2> TAKE t \in Sends
  <2>1. CASE t = s
    BY <1>0, <1>1, <2>1, ChainKeepsOwn
  <2>2. CASE t # s
    BY <2>2, ChainKeepsOthers DEF AccountingInv
  <2> QED
    BY <2>1, <2>2
<1>3. QueueInv'
  <2>1. /\ relayQ' = relayQ /\ fate' = fate
        /\ worker' # worker => worker' = AfterChunk(s) /\ pc[s] # "idle"
    BY ChainFrame
  <2>2. AfterChunk(s) \in Sends => AfterChunk(s)[1] = s[1]
    BY NamesAssumption DEF AfterChunk
  <2>3. pc[s] # "idle" => fate[s[1]] = "taken"
    BY <1>0 DEF ChunkInv
  <2> QED
    BY <2>1, <2>2, <2>3 DEF AccountingInv, QueueInv
<1>4. CallsInv'
  <2>1. /\ \A m \in Msgs : todo'[m] = todo[m]
        /\ todo'[CoreScope] = todo[CoreScope] /\ fate' = fate
    BY <1>0, ChainFrame DEF Actors
  <2> QED
    BY <2>1 DEF AccountingInv, CallsInv
<1>5. ReceiptAccounting'
  <2> SUFFICES ASSUME NEW m \in WithReceipt, fate'[m] = "taken"
               PROVE  receipt'[m].pending = Cardinality(Unsettled(m)')
    BY DEF ReceiptAccounting
  <2>1. m \in Msgs /\ fate' = fate /\ receipt' = receipt
    BY ChunksAssumption, ChainFrame
  <2>2. ASSUME NEW t \in ChunksOf(m) PROVE HasSettled(t)' <=> HasSettled(t)
    <3>1. t \in Sends /\ t[1] = m
      BY <2>1 DEF Sends, ChunksOf
    <3>2. CASE t = s
      BY <1>0, <1>1, <3>1, <3>2, ChainKeepsOwn
    <3>3. CASE t # s
      BY <3>1, <3>3, ChainKeepsOthers DEF AccountingInv
    <3> QED
      BY <3>2, <3>3
  <2>3. Unsettled(m)' = Unsettled(m)
    BY <2>1, <2>2, UnsettledFrame
  <2> QED
    BY <2>1, <2>3 DEF AccountingInv, ReceiptAccounting
<1> QED
  BY <1>2, <1>3, <1>4, <1>5 DEF AccountingInv

\* What a step on a receipt does to the invariant: a chunk that settles is
\* taken off the chunks left to settle, and off the receipt's counter.
LEMMA ReceiptStepAccounting ==
    ASSUME TypeOK, AccountingInv, NEW a \in Actors, ReceiptStep(a)
    PROVE  AccountingInv'
<1>1. /\ relayQ' = relayQ /\ fate' = fate /\ worker' = worker /\ pc' = pc
  BY DEF ReceiptStep, MarkAccepted, Settle, LateConfirm, MakeRequest, queueVars, chainVars
<1>2. \A t \in Sends : /\ ChunkInv(t)'
                       /\ HasSettled(t) => HasSettled(t)'
                       /\ HasSettled(t)' => HasSettled(t) \/ (a = t /\ Settle(a))
  BY ReceiptStepKeeps DEF AccountingInv
<1>3. QueueInv'
  BY <1>1 DEF AccountingInv, QueueInv
<1>4. \/ todo' = todo /\ MakeRequest(a)
      \/ todo[a] # <<>> /\ todo' = [todo EXCEPT ![a] = Tail(@)]
  BY DEF ReceiptStep, MarkAccepted, Settle, LateConfirm, MakeRequest, NextCall
<1>5. \A b \in Actors : todo'[b] = todo[b] \/ (b = a /\ todo[b] # <<>> /\ todo'[b] = Tail(todo[b]))
  BY <1>4 DEF TypeOK
<1>6. CallsInv'
  <2>1. ASSUME NEW m \in Msgs, todo'[m] # <<>>
        PROVE  fate'[m] = "dropped" /\ todo'[m] = Call("settleFalse", m)
    <3>1. todo[m] # <<>> => Tail(todo[m]) = <<>>
      <4>1. Call("settleFalse", m) \in {<<>>, <<[op |-> "settleFalse", msg |-> m]>>}
        BY DEF Call
      <4>2. todo[m] # <<>> => todo[m] = <<[op |-> "settleFalse", msg |-> m]>>
        BY <4>1 DEF AccountingInv, CallsInv
      <4>3. ASSUME NEW x PROVE Tail(<<x>>) = <<>>
        OBVIOUS
      <4> QED
        BY <4>2, <4>3, Zenon
    <3>2. todo'[m] = todo[m]
      BY <1>5, <2>1, <3>1 DEF Actors
    <3> QED
      BY <1>1, <2>1, <3>2 DEF AccountingInv, CallsInv
  <2>2. ASSUME NEW i \in 1..Len(todo'[CoreScope])
        PROVE  todo'[CoreScope][i].op = "lateConfirm"
    <3>1. CoreScope \in Actors /\ todo[CoreScope] \in Seq(MethodCall)
      BY DEF Actors, TypeOK
    <3>2. CASE todo'[CoreScope] = todo[CoreScope]
      BY <2>2, <3>2 DEF AccountingInv, CallsInv
    <3>3. CASE todo[CoreScope] # <<>> /\ todo'[CoreScope] = Tail(todo[CoreScope])
      <4>1. /\ i + 1 \in 1..Len(todo[CoreScope])
            /\ todo'[CoreScope][i] = todo[CoreScope][i + 1]
        BY <2>2, <3>1, <3>3
      <4> QED
        BY <4>1 DEF AccountingInv, CallsInv
    <3> QED
      BY <1>5, <3>1, <3>2, <3>3
  <2> QED
    BY <2>1, <2>2 DEF CallsInv
<1>7. ReceiptAccounting'
  <2> SUFFICES ASSUME NEW m \in WithReceipt, fate'[m] = "taken"
               PROVE  receipt'[m].pending = Cardinality(Unsettled(m)')
    BY DEF ReceiptAccounting
  <2>0. m \in Msgs /\ fate[m] = "taken" /\ receipt[m].pending = Cardinality(Unsettled(m))
    BY <1>1, ChunksAssumption DEF AccountingInv, ReceiptAccounting
  <2>1. CASE a \in ChunksOf(m) /\ Settle(a)
    <3>1. a \in Sends /\ a[1] = m /\ ChunkInv(a) /\ todo[a] # <<>>
      BY <2>0, <2>1 DEF Sends, ChunksOf, AccountingInv, Settle, NextCall
    <3>2. /\ Tail(todo[a]) = <<>> /\ Head(todo[a]).msg = m /\ pc[a] = "settling"
      BY <2>1, <3>1, OneCall DEF Settle, NextCall
    <3>3. ~HasSettled(a) /\ HasSettled(a)'
      BY <1>1, <2>1, <3>1, <3>2 DEF HasSettled, Settle, TypeOK
    <3>4. Unsettled(m)' = Unsettled(m) \ {a} /\ a \in Unsettled(m)
      <4>1. ChunksOf(m)' = ChunksOf(m)
        BY DEF ChunksOf
      <4>2. \A t \in ChunksOf(m) : t \in Sends
        BY <2>0 DEF Sends
      <4> QED
        BY <1>2, <2>1, <3>3, <4>1, <4>2 DEF Unsettled
    <3>5. /\ Cardinality(Unsettled(m) \ {a}) = Cardinality(Unsettled(m)) - 1
          /\ Cardinality(Unsettled(m)) # 0
      BY <2>0, <3>4, UnsettledFinite, FS_RemoveElement, FS_EmptySet
    <3>6. receipt'[m].pending = receipt[m].pending - 1
      <4> DEFINE failure == IF Head(todo[a]).op = "settleFalse" THEN 1 ELSE 0
      <4>1. receipt[m] \in Receipt /\ receipt[m].pending # 0
        BY <2>0, <3>5 DEF TypeOK
      <4>2. receipt' = [receipt EXCEPT ![m] =
              [receipt[m] EXCEPT !.pending = @ - 1, !.failed = @ + failure]]
        BY <2>1, <3>2, <4>1 DEF Settle
      <4> HIDE DEF failure
      <4>3. receipt'[m] = [receipt[m] EXCEPT !.pending = @ - 1, !.failed = @ + failure]
        BY <2>0, <4>2 DEF TypeOK
      <4> QED
        BY <4>1, <4>3 DEF Receipt
    <3> QED
      BY <2>0, <3>4, <3>5, <3>6
  <2>2. CASE ~(a \in ChunksOf(m) /\ Settle(a))
    <3>1. Unsettled(m)' = Unsettled(m)
      <4>1. \A t \in ChunksOf(m) : t \in Sends
        BY <2>0 DEF Sends
      <4> QED
        BY <1>2, <2>0, <2>2, <4>1, UnsettledFrame
    <3>2. receipt'[m].pending = receipt[m].pending
      <4>1. receipt[m] \in Receipt /\ receipt[m].pending \in Nat
        BY <2>0 DEF TypeOK, Receipt
      <4>2. CASE MarkAccepted(a)
        BY <2>0, <4>1, <4>2 DEF MarkAccepted, TypeOK, Receipt
      <4>3. CASE LateConfirm(a)
        <5> DEFINE n == Head(todo[a]).msg
        <5>1. \/ receipt' = receipt
              \/ receipt' = [receipt EXCEPT ![n] = [receipt[n] EXCEPT !.failed = @ - 1]]
          BY <4>3 DEF LateConfirm
        <5> HIDE DEF n
        <5>2. \/ receipt'[m] = receipt[m]
              \/ receipt'[m] = [receipt[m] EXCEPT !.failed = @ - 1]
          BY <2>0, <5>1 DEF TypeOK
        <5> QED
          BY <4>1, <5>2 DEF Receipt
      <4>4. CASE MakeRequest(a)
        BY <4>4 DEF MakeRequest
      <4>5. CASE Settle(a)
        <5>1. Head(todo[a]).msg # m
          <6>1. CASE a \in Sends
            <7>1. Head(todo[a]).msg = a[1] /\ a \in ChunksOf(a[1])
              BY <4>5, <6>1, OneCall, SendsFacts DEF AccountingInv, Settle, NextCall
            <7> QED
              BY <2>2, <4>5, <7>1
          <6>2. CASE a \in Msgs
            <7>1. fate[a] = "dropped" /\ todo[a] = Call("settleFalse", a) /\ todo[a] # <<>>
              BY <4>5, <6>2 DEF AccountingInv, CallsInv, Settle, NextCall
            <7>2. Head(todo[a]).msg = a
              BY <7>1 DEF Call
            <7> QED
              BY <2>0, <7>1, <7>2
          <6>3. CASE a = CoreScope
            <7>1. todo[a] \in Seq(MethodCall) /\ todo[a] # <<>>
              BY <4>5 DEF TypeOK, Settle, NextCall
            <7>2. Head(todo[a]).op = "lateConfirm"
              BY <6>3, <7>1 DEF AccountingInv, CallsInv
            <7> QED
              BY <4>5, <7>2 DEF Settle, NextCall
          <6> QED
            BY <6>1, <6>2, <6>3 DEF Actors
        <5> QED
          BY <2>0, <4>5, <5>1 DEF Settle, TypeOK
      <4> QED
        BY <4>2, <4>3, <4>4, <4>5 DEF ReceiptStep
    <3> QED
      BY <2>0, <3>1, <3>2
  <2> QED
    BY <2>1, <2>2
<1> QED
  BY <1>2, <1>3, <1>6, <1>7 DEF AccountingInv

\* What taking a message does to the invariant: none of its chunks has
\* started, so the receipt opens with the number of chunks left to settle.
LEMMA TakeAccounting ==
    ASSUME TypeOK, AccountingInv, Take
    PROVE  AccountingInv'
<1> DEFINE m == Head(relayQ)
<1>0. /\ relayQ \in Seq(Msgs) /\ relayQ # <<>> /\ m \in Msgs /\ m = relayQ[1]
      /\ Len(relayQ) \in Nat \ {0}
      /\ relayQ' = Tail(relayQ)
      /\ \A i \in 1..Len(relayQ') : i + 1 \in 1..Len(relayQ) /\ relayQ'[i] = relayQ[i + 1]
  BY DEF TypeOK, Take
<1>1. fate[m] = "queued" /\ fate' = [fate EXCEPT ![m] = "taken"] /\ worker' = <<m, 1>>
  BY <1>0 DEF AccountingInv, QueueInv, Take
<1>2. /\ todo' = todo /\ pc' = pc /\ attempt' = attempt /\ rec' = rec /\ deliveries' = deliveries
      /\ receipt' = NewDiscordReceipt(m, NChunks[m])
  BY DEF Take, chainVars, recordVars
<1>3. QueueInv'
  <2>1. ASSUME NEW i \in 1..Len(relayQ') PROVE fate'[relayQ'[i]] = "queued"
    <3>1. relayQ[i + 1] # m /\ fate[relayQ[i + 1]] = "queued" /\ relayQ[i + 1] \in Msgs
      BY <1>0, <2>1 DEF AccountingInv, QueueInv
    <3> QED
      BY <1>0, <1>1, <2>1, <3>1 DEF TypeOK
  <2>2. ASSUME NEW i \in 1..Len(relayQ'), NEW j \in 1..Len(relayQ'), relayQ'[i] = relayQ'[j]
        PROVE  i = j
    <3>1. i + 1 = j + 1
      BY <1>0, <2>2 DEF AccountingInv, QueueInv
    <3> QED
      BY <3>1
  <2>3. fate'[worker'[1]] = "taken"
    BY <1>0, <1>1 DEF TypeOK
  <2> QED
    BY <2>1, <2>2, <2>3 DEF QueueInv
<1>4. CallsInv'
  <2>1. \A n \in Msgs : fate[n] = "dropped" => fate'[n] = "dropped"
    BY <1>0, <1>1 DEF TypeOK
  <2> QED
    BY <1>2, <2>1 DEF AccountingInv, CallsInv
<1>5. \A n \in Msgs : fate'[n] # "taken" => fate[n] # "taken"
  BY <1>0, <1>1 DEF TypeOK
<1>6. \A t \in Sends : ChunkInv(t)'
  BY <1>2, <1>5, SendsFacts DEF AccountingInv, ChunkInv, Unsent, Live
<1>7. ReceiptAccounting'
  <2> SUFFICES ASSUME NEW n \in WithReceipt, fate'[n] = "taken"
               PROVE  receipt'[n].pending = Cardinality(Unsettled(n)')
    BY DEF ReceiptAccounting
  <2>0. n \in Msgs
    BY ChunksAssumption
  <2>1. Unsettled(n)' = Unsettled(n)
    BY <1>2, <2>0, UnsettledFrame DEF HasSettled
  <2>2. CASE n = m
    <3>1. ASSUME NEW t \in ChunksOf(m) PROVE ~HasSettled(t)
      <4>1. t \in Sends /\ t[1] = m
        BY <1>0, <3>1 DEF Sends, ChunksOf
      <4> QED
        BY <1>1, <4>1 DEF AccountingInv, ChunkInv, HasSettled
    <3>2. Unsettled(m) = ChunksOf(m)
      BY <3>1 DEF Unsettled
    <3>3. receipt'[m].pending = NChunks[m]
      BY <1>0, <1>2, <2>2 DEF NewDiscordReceipt, TypeOK, Receipt
    <3> QED
      BY <1>0, <2>1, <2>2, <3>2, <3>3, ChunksFinite
  <2>3. CASE n # m
    <3>1. fate[n] = "taken" /\ receipt'[n] = receipt[n]
      BY <1>0, <1>1, <1>2, <2>0, <2>3 DEF NewDiscordReceipt, TypeOK
    <3> QED
      BY <2>1, <3>1 DEF AccountingInv, ReceiptAccounting
  <2> QED
    BY <2>2, <2>3
<1> QED
  BY <1>3, <1>4, <1>6, <1>7 DEF AccountingInv

\* What posting a message does to the invariant: a message that was never
\* seen joins the queue, or is dropped with a receipt of its own.
LEMMA PostAccounting ==
    ASSUME TypeOK, AccountingInv, NEW m \in Msgs, Post(m)
    PROVE  AccountingInv'
<1>1. /\ fate[m] = "new" /\ fate'[m] \in {"queued", "dropped"}
      /\ \A n \in Msgs \ {m} : fate'[n] = fate[n] /\ receipt'[n] = receipt[n]
      /\ \A a \in Actors \ {m} : todo'[a] = todo[a]
      /\ todo'[m] # todo[m] => fate'[m] = "dropped" /\ todo'[m] = Call("settleFalse", m)
  BY DEF Post, TypeOK, NewDiscordReceipt, Actors
<1>2. /\ pc' = pc /\ attempt' = attempt /\ rec' = rec /\ deliveries' = deliveries
      /\ worker' = worker
  BY DEF Post, chainVars, recordVars
<1>3. \A s \in Sends : todo'[s] = todo[s] /\ s[1] \in Msgs
  BY <1>1, SendsFacts, NamesAssumption
<1>4. todo'[CoreScope] = todo[CoreScope]
  BY <1>1, NamesAssumption DEF Actors
<1>5. QueueInv'
  <2>1. worker' \in Sends => fate'[worker'[1]] = "taken"
    BY <1>1, <1>2, <1>3 DEF AccountingInv, QueueInv
  <2>2. \A i \in 1..Len(relayQ) : relayQ[i] \in Msgs /\ relayQ[i] # m
    BY <1>1 DEF AccountingInv, QueueInv, TypeOK
  <2>3. CASE relayQ' = relayQ
    BY <1>1, <2>1, <2>2, <2>3 DEF AccountingInv, QueueInv
  <2>4. CASE relayQ' = Append(relayQ, m) /\ fate'[m] = "queued"
    <3>1. /\ relayQ \in Seq(Msgs) /\ Len(relayQ) \in Nat
          /\ Len(relayQ') = Len(relayQ) + 1 /\ relayQ'[Len(relayQ) + 1] = m
          /\ \A i \in 1..Len(relayQ) : relayQ'[i] = relayQ[i]
      BY <2>4 DEF TypeOK
    <3>2. ASSUME NEW i \in 1..Len(relayQ') PROVE fate'[relayQ'[i]] = "queued"
      BY <1>1, <2>2, <2>4, <3>1 DEF AccountingInv, QueueInv
    <3>3. ASSUME NEW i \in 1..Len(relayQ'), NEW j \in 1..Len(relayQ'), relayQ'[i] = relayQ'[j]
          PROVE  i = j
      BY <2>2, <3>1, <3>3 DEF AccountingInv, QueueInv
    <3> QED
      BY <2>1, <3>2, <3>3 DEF QueueInv
  <2> QED
    BY <2>3, <2>4 DEF Post, TypeOK
<1>6. CallsInv'
  <2>1. ASSUME NEW n \in Msgs, todo'[n] # <<>>
        PROVE  fate'[n] = "dropped" /\ todo'[n] = Call("settleFalse", n)
    <3>1. CASE todo'[n] = todo[n]
      BY <1>1, <2>1, <3>1 DEF AccountingInv, CallsInv
    <3>2. CASE todo'[n] # todo[n]
      BY <1>1, <3>2 DEF Actors
    <3> QED
      BY <3>1, <3>2
  <2> QED
    BY <1>4, <2>1 DEF AccountingInv, CallsInv
<1>7. \A n \in Msgs : fate'[n] # "taken" <=> fate[n] # "taken"
  BY <1>1
<1>8. \A t \in Sends : ChunkInv(t)'
  BY <1>2, <1>3, <1>7 DEF AccountingInv, ChunkInv, Unsent, Live
<1>9. ReceiptAccounting'
  <2> SUFFICES ASSUME NEW n \in WithReceipt, fate'[n] = "taken"
               PROVE  receipt'[n].pending = Cardinality(Unsettled(n)')
    BY DEF ReceiptAccounting
  <2>1. n \in Msgs /\ n # m /\ fate[n] = "taken" /\ receipt'[n] = receipt[n]
    BY <1>1, ChunksAssumption
  <2>2. \A t \in ChunksOf(n) : t \in Sends
    BY <2>1 DEF Sends
  <2>3. Unsettled(n)' = Unsettled(n)
    BY <1>2, <1>3, <2>1, <2>2, UnsettledFrame DEF HasSettled
  <2> QED
    BY <2>1, <2>3 DEF AccountingInv, ReceiptAccounting
<1> QED
  BY <1>5, <1>6, <1>8, <1>9 DEF AccountingInv

\* A step that leaves queue, receipts and settled chunks alone keeps the
\* invariant if it keeps every chunk's and the pending calls'.
LEMMA OtherAccounting ==
    ASSUME TypeOK, AccountingInv,
           relayQ' = relayQ, fate' = fate, worker' = worker, receipt' = receipt,
           CallsInv',
           \A t \in Sends : ChunkInv(t)' /\ (HasSettled(t)' <=> HasSettled(t))
    PROVE  AccountingInv'
<1>1. QueueInv'
  BY DEF AccountingInv, QueueInv
<1>2. ReceiptAccounting'
  <2> SUFFICES ASSUME NEW n \in WithReceipt, fate'[n] = "taken"
               PROVE  receipt'[n].pending = Cardinality(Unsettled(n)')
    BY DEF ReceiptAccounting
  <2>1. n \in Msgs
    BY ChunksAssumption
  <2>2. \A t \in ChunksOf(n) : t \in Sends
    BY <2>1 DEF Sends
  <2>3. Unsettled(n)' = Unsettled(n)
    BY <2>1, <2>2, UnsettledFrame
  <2> QED
    BY <2>3 DEF AccountingInv, ReceiptAccounting
<1> QED
  BY <1>1, <1>2 DEF AccountingInv

\* What evidence, housekeeping, the session and Close do to the invariant.
LEMMA EnvironmentAccounting ==
    ASSUME ~SlowChains, TypeOK, AccountingInv, Environment
    PROVE  AccountingInv'
<1>0. \A t \in Sends : ChunkInv(t) /\ PacketOf[t] \in Packets /\ t \in Actors /\ t # CoreScope
  BY SendsFacts, NamesAssumption DEF AccountingInv
<1>c. CallsInv
  BY DEF AccountingInv
<1>1. ASSUME NEW m \in Msgs, Post(m) PROVE AccountingInv'
  BY <1>1, PostAccounting
<1>2. ASSUME NEW p \in Packets, Sweep(p) PROVE AccountingInv'
  <2>1. /\ UNCHANGED <<queueVars, chainVars, receiptVars>>
        /\ deliveries' = deliveries \ {p} /\ rec' = [rec EXCEPT ![p] = NewRecord]
        /\ \A t \in Sends : PacketOf[t] = p => pc[t] \in {"idle", "done", "stopped"}
    BY <1>2 DEF Sweep
  <2>2. \A t \in Sends : ChunkInv(t)' /\ (HasSettled(t)' <=> HasSettled(t))
    BY <1>0, <2>1 DEF ChunkInv, HasSettled, Unsent, Live, TypeOK, queueVars, chainVars,
         receiptVars
  <2> QED
    BY <1>c, <2>1, <2>2, OtherAccounting DEF CallsInv, queueVars, receiptVars
<1>3. ASSUME NEW p \in Packets, NEW path \in SUBSET Hops, ObserveOwnCopy(p, path)
      PROVE  AccountingInv'
  <2>1. /\ UNCHANGED <<queueVars, chainVars, deliveries, receiptVars>>
        /\ rec' = [rec EXCEPT ![p] = Heard(rec[p], path, {})]
    BY <1>3 DEF ObserveOwnCopy
  <2>2. /\ Heard(rec[p], path, {}).receipts = rec[p].receipts
        /\ Heard(rec[p], path, {}).reported = rec[p].reported
    BY DEF Heard, TypeOK, Record
  <2>3. \A t \in Sends : ChunkInv(t)' /\ (HasSettled(t)' <=> HasSettled(t))
    BY <1>0, <2>1, <2>2 DEF ChunkInv, HasSettled, Unsent, Live, TypeOK,
                            queueVars, chainVars, receiptVars
  <2> QED
    BY <1>c, <2>1, <2>3, OtherAccounting DEF CallsInv, queueVars, receiptVars
<1>4. ASSUME NEW p \in Packets, NEW path \in SUBSET Hops, NEW o \in Observers,
             HandleObservation(p, o, path)
      PROVE  AccountingInv'
  <2> DEFINE r == Heard(rec[p], path, {o})
  <2> DEFINE late == r.reported /\ ~Confirmed(rec[p]) /\ Confirmed(r)
  <2>1. /\ UNCHANGED <<queueVars, chainVars, deliveries, receipt>>
        /\ rec' = [rec EXCEPT ![p] = IF late THEN [r EXCEPT !.lateReceipts = <<>>] ELSE r]
        /\ todo' = [todo EXCEPT ![CoreScope] =
               IF late THEN CallAll("lateConfirm", r.lateReceipts) ELSE <<>>]
    BY <1>4 DEF HandleObservation
  <2>2. /\ r \in Record /\ r.receipts = rec[p].receipts /\ r.reported = rec[p].reported
        /\ r.lateReceipts \in Seq(Msgs)
    BY DEF Heard, TypeOK, Record
  <2> HIDE DEF r, late
  <2>3. /\ rec'[p].receipts = rec[p].receipts /\ rec'[p].reported = rec[p].reported
        /\ \A q \in Packets \ {p} : rec'[q] = rec[q]
    BY <2>1, <2>2 DEF TypeOK, Record
  <2>4. \A a \in Actors \ {CoreScope} : todo'[a] = todo[a]
    BY <2>1 DEF TypeOK
  <2>5. \A t \in Sends : ChunkInv(t)' /\ (HasSettled(t)' <=> HasSettled(t))
    BY <1>0, <2>1, <2>3, <2>4 DEF ChunkInv, HasSettled, Unsent, Live, queueVars, chainVars
  <2>6. CallsInv'
    <3>1. \A m \in Msgs : todo'[m] = todo[m] /\ fate'[m] = fate[m]
      BY <2>1, <2>4, NamesAssumption DEF Actors, queueVars
    <3>2. \/ todo'[CoreScope] = CallAll("lateConfirm", r.lateReceipts)
          \/ todo'[CoreScope] = <<>>
      BY <2>1 DEF TypeOK, Actors
    <3>3. ASSUME NEW i \in 1..Len(todo'[CoreScope])
          PROVE  todo'[CoreScope][i].op = "lateConfirm"
      <4>1. CASE todo'[CoreScope] = <<>>
        BY <3>3, <4>1
      <4>2. CASE todo'[CoreScope] = CallAll("lateConfirm", r.lateReceipts)
        <5>1. DOMAIN r.lateReceipts = 1..Len(r.lateReceipts) /\ Len(r.lateReceipts) \in Nat
          BY <2>2
        <5>2. Len(CallAll("lateConfirm", r.lateReceipts)) = Len(r.lateReceipts)
          BY <5>1 DEF CallAll
        <5> QED
          BY <3>3, <4>2, <5>1, <5>2 DEF CallAll
      <4> QED
        BY <3>2, <4>1, <4>2
    <3> QED
      BY <1>c, <3>1, <3>3 DEF CallsInv
  <2> QED
    BY <2>1, <2>5, <2>6, OtherAccounting DEF queueVars
<1>5. CASE SetMeshcoreSession
  <2>1. UNCHANGED <<queueVars, chainVars, recordVars, receiptVars>>
    BY <1>5 DEF SetMeshcoreSession
  <2>2. \A t \in Sends : ChunkInv(t)' /\ (HasSettled(t)' <=> HasSettled(t))
    BY <1>0, <2>1 DEF ChunkInv, HasSettled, Unsent, Live,
                      queueVars, chainVars, recordVars, receiptVars
  <2> QED
    BY <1>c, <2>1, <2>2, OtherAccounting DEF CallsInv, queueVars, receiptVars
<1>6. CASE Close \/ StopTimers
  <2>1. /\ UNCHANGED <<queueVars, attempt, recordVars, receiptVars>>
        /\ \A s \in Sends : pc'[s] = pc[s] \/ (pc[s] = "armed" /\ pc'[s] = "stopped")
    BY <1>6 DEF Close, StopTimers, chainVars
  <2>2. \A t \in Sends : ChunkInv(t)' /\ (HasSettled(t)' <=> HasSettled(t))
    BY <1>0, <2>1 DEF ChunkInv, HasSettled, Unsent, Live, queueVars, recordVars, receiptVars
  <2> QED
    BY <1>c, <2>1, <2>2, OtherAccounting DEF CallsInv, queueVars, receiptVars
<1> QED
  BY <1>1, <1>2, <1>3, <1>4, <1>5, <1>6 DEF Environment

-----------------------------------------------------------------------------
(* The theorem.                                                            *)

\* Nothing is queued, pending or tracked at first.
LEMMA InitAccounting == Init => AccountingInv
<1> SUFFICES ASSUME Init PROVE AccountingInv
  OBVIOUS
<1>1. \A a \in Actors : todo[a] = <<>>
  BY DEF Init
<1>2. \A s \in Sends : ChunkInv(s)
  BY <1>1, SendsFacts DEF Init, ChunkInv, Unsent, Live
<1>3. CallsInv
  BY <1>1 DEF CallsInv, Actors
<1>4. QueueInv /\ ReceiptAccounting
  BY ChunksAssumption, NamesAssumption DEF Init, QueueInv, ReceiptAccounting
<1> QED
  BY <1>2, <1>3, <1>4 DEF AccountingInv

\* The inductive invariant holds throughout: whatever order sends, timers,
\* reconnects, reports, evidence, sweeps and Close come in, every chunk in
\* flight has a record that still holds its receipt.
THEOREM AccountingInvariance ==
    ASSUME DistinctPackets, ~SlowChains
    PROVE  Spec => []AccountingInv
<1>1. Init => AccountingInv
  BY InitAccounting
<1>2. TypeOK /\ AccountingInv /\ [Next]_vars => AccountingInv'
  <2> SUFFICES ASSUME TypeOK, AccountingInv, [Next]_vars PROVE AccountingInv'
    OBVIOUS
  <2>1. CASE Take
    BY <2>1, TakeAccounting
  <2>2. ASSUME NEW s \in Sends, Chain(s) PROVE AccountingInv'
    BY <2>2, ChainAccounting
  <2>3. ASSUME NEW a \in Actors, ReceiptStep(a) PROVE AccountingInv'
    BY <2>3, ReceiptStepAccounting
  <2>4. CASE Environment
    BY <2>4, EnvironmentAccounting
  <2>5. CASE UNCHANGED vars
    <3>1. CallsInv'
      BY <2>5 DEF AccountingInv, CallsInv, vars
    <3>2. \A t \in Sends : ChunkInv(t)' /\ (HasSettled(t)' <=> HasSettled(t))
      BY <2>5 DEF AccountingInv, ChunkInv, HasSettled, Unsent, Live, vars
    <3> QED
      BY <2>5, <3>1, <3>2, OtherAccounting DEF vars
  <2> QED
    BY <2>1, <2>2, <2>3, <2>4, <2>5 DEF Next
<1>3. Spec => []TypeOK
  BY TypeCorrectness
<1> QED
  BY <1>1, <1>2, <1>3, PTL DEF Spec

\* "Every chunk settles rc exactly once": the receipt of a message being sent
\* counts exactly the chunks that have not settled yet, for any number of
\* messages, chunks, repeaters, observers and retries.
THEOREM ReceiptsSettleOnce ==
    ASSUME DistinctPackets, ~SlowChains
    PROVE  Spec => []ReceiptAccounting
<1>1. AccountingInv => ReceiptAccounting
  BY DEF AccountingInv
<1>2. Spec => []AccountingInv
  BY AccountingInvariance
<1> QED
  BY <1>1, <1>2, PTL

-----------------------------------------------------------------------------
(* The receipts keep the promise of DeliveryReport, under the same         *)
(* conditions: no verdict "delivered" without proof of every chunk.        *)

\* The record of chunk s holds all the evidence there is for it, and its
\* receipt for later only if its goroutine reported it as failed.
EvidenceInv(s) ==
    LET p == PacketOf[s] IN
    /\ p \in deliveries => /\ rec[p].repeaters = evidence[p].repeaters
                           /\ rec[p].observers = evidence[p].observers
    /\ Unsent(s) => evidence[p] = NoEvidence
    /\ rec[p].lateReceipts \in {<<>>, OwnReceipts(s)}
    /\ pc[s] \notin {"settling", "done"} => rec[p].lateReceipts = <<>>
    /\ todo[s] # <<>> /\ Head(todo[s]).op = "settleTrue" => s \in ProvenChunks

\* The CoreScope client upgrades one receipt at a time, of a message being sent.
UpgradeInv ==
    todo[CoreScope] # <<>> =>
        \E m \in WithReceipt : fate[m] = "taken" /\ todo[CoreScope] = Call("lateConfirm", m)

\* Chunks that ended without proof; those whose failure is still to be
\* settled; and the upgrade still to be made.
Failing(m) == {s \in ChunksOf(m) : pc[s] \in {"settling", "done"} /\ s \notin ProvenChunks}
ToFail(m) == {s \in ChunksOf(m) : todo[s] # <<>> /\ Head(todo[s]).op = "settleFalse"}
Upgrades(m) == IF todo[CoreScope] # <<>> /\ Head(todo[CoreScope]).msg = m THEN 1 ELSE 0

\* Every chunk that ended without proof is counted as failed, or is going to be.
FailureOf(m) ==
    /\ fate[m] = "taken" =>
         Cardinality(Failing(m)) + Upgrades(m)
            <= receipt[m].failed + Cardinality(ToFail(m))
    /\ fate[m] = "dropped" /\ receipt[m].pending = 0 => receipt[m].failed > 0
FailureInv == \A m \in WithReceipt : FailureOf(m)

PromiseInv ==
    /\ deliveries \subseteq {PacketOf[s] : s \in Sends}
    /\ \A s \in Sends : EvidenceInv(s)
    /\ UpgradeInv /\ FailureInv

\* A finite set has subsets of every size up to its own.
LEMMA SubsetOfSize ==
    ASSUME NEW S, IsFiniteSet(S), NEW n \in Nat, n <= Cardinality(S)
    PROVE  \E R \in SUBSET S : Cardinality(R) = n
<1> DEFINE c == Cardinality(S)
<1>1. c \in Nat /\ ExistsBijection(1..c, S)
  BY FS_CardinalityType
<1>2. PICK f \in Bijection(1..c, S) : TRUE
  BY <1>1 DEF ExistsBijection
<1> DEFINE R == {f[i] : i \in 1..n}
           g == [i \in 1..n |-> f[i]]
<1>3. 1..n \subseteq 1..c
  BY <1>1
<1>4. R \in SUBSET S
  BY <1>2, <1>3 DEF Bijection, Injection, Surjection
<1>5. g \in Bijection(1..n, R)
  <2>1. g \in [1..n -> R]
    OBVIOUS
  <2>2. \A i, j \in 1..n : g[i] = g[j] => i = j
    BY <1>2, <1>3 DEF Bijection, Injection, IsInjective
  <2>3. \A x \in R : \E i \in 1..n : g[i] = x
    OBVIOUS
  <2> HIDE DEF g, R
  <2>4. g \in Injection(1..n, R)
    BY <2>1, <2>2 DEF Injection, IsInjective
  <2>5. g \in Surjection(1..n, R)
    BY <2>1, <2>3 DEF Surjection
  <2> QED
    BY <2>4, <2>5 DEF Bijection
<1>6. ExistsBijection(1..n, R)
  BY <1>5 DEF ExistsBijection
<1>7. IsFiniteSet(1..n) /\ Cardinality(1..n) = n
  BY FS_Interval
<1> HIDE DEF R
<1>8. Cardinality(R) = n
  BY <1>6, <1>7, FS_Bijection
<1> QED
  BY <1>4, <1>8

\* The code's rule on a record is the documented one on the same evidence.
LEMMA RuleConfirmed ==
    ASSUME NEW r \in Record, NEW e \in Evidence,
           r.repeaters = e.repeaters, r.observers = e.observers
    PROVE  Confirmed(r) <=> RuleMet(e)
<1> DEFINE P == e.repeaters \ Ignored
<1>1. Proven(r) = P /\ P \in SUBSET Hops
  BY DEF Proven, Evidence
<1>2. IsFiniteSet(P) /\ Cardinality(P) \in Nat
  <2>1. IsFiniteSet(P)
    BY <1>1, RuleAssumption, FS_Subset
  <2> QED
    BY <2>1, FS_CardinalityType
<1>3. Cardinality(P) >= MinRepeaters <=> \E R \in SUBSET P : Cardinality(R) = MinRepeaters
  <2>1. ASSUME Cardinality(P) >= MinRepeaters
        PROVE  \E R \in SUBSET P : Cardinality(R) = MinRepeaters
    <3>1. MinRepeaters \in Nat /\ MinRepeaters <= Cardinality(P)
      BY <2>1, <1>2, LimitsAssumption
    <3> HIDE DEF P
    <3> QED
      BY <3>1, <1>2, SubsetOfSize
  <2>2. ASSUME NEW R \in SUBSET P, Cardinality(R) = MinRepeaters
        PROVE  Cardinality(P) >= MinRepeaters
    <3>1. Cardinality(R) <= Cardinality(P)
      BY <1>2, FS_Subset
    <3> QED
      BY <3>1, <2>2, <1>2, LimitsAssumption
  <2> QED
    BY <2>1, <2>2
<1>4. r.observers \cap SuccessObservers # {} <=> \E o \in SuccessObservers : o \in e.observers
  OBVIOUS
<1>5. P \cap SuccessRepeaters # {} <=> \E h \in SuccessRepeaters : h \in P
  OBVIOUS
<1> HIDE DEF P
<1>6. Confirmed(r) <=> \/ \E o \in SuccessObservers : o \in e.observers
                       \/ /\ Cardinality(P) >= MinRepeaters
                          /\ SuccessRepeaters = {} \/ \E h \in SuccessRepeaters : h \in P
  BY <1>1, <1>4, <1>5 DEF Confirmed
<1>7. RuleMet(e) <=> \/ \E o \in SuccessObservers : o \in e.observers
                     \/ /\ \E R \in SUBSET P : Cardinality(R) = MinRepeaters
                        /\ SuccessRepeaters = {} \/ \E h \in SuccessRepeaters : h \in P
  BY DEF RuleMet, P
<1> QED
  BY <1>3, <1>6, <1>7

\* More evidence proves no less.
LEMMA RuleGrows ==
    ASSUME NEW e, NEW f, RuleMet(e), e.repeaters \subseteq f.repeaters,
           e.observers \subseteq f.observers
    PROVE  RuleMet(f)
<1>1. CASE \E o \in SuccessObservers : o \in e.observers
  BY <1>1 DEF RuleMet
<1>2. CASE \E R \in SUBSET (e.repeaters \ Ignored) :
              /\ Cardinality(R) = MinRepeaters
              /\ SuccessRepeaters = {} \/ \E h \in SuccessRepeaters : h \in e.repeaters \ Ignored
  BY <1>2 DEF RuleMet
<1> QED
  BY <1>1, <1>2 DEF RuleMet

\* Without evidence nothing is proven: min_repeaters is at least one.
LEMMA NothingProven == ~RuleMet(NoEvidence)
<1>1. \A R \in SUBSET {} : Cardinality(R) # MinRepeaters
  BY LimitsAssumption, FS_EmptySet
<1> QED
  BY <1>1 DEF RuleMet, NoEvidence

\* Nothing has been sent or heard at first.
LEMMA InitPromise == Init => PromiseInv
<1> SUFFICES ASSUME Init PROVE PromiseInv
  OBVIOUS
<1>1. \A a \in Actors : todo[a] = <<>>
  BY DEF Init
<1>2. \A s \in Sends : EvidenceInv(s)
  BY <1>1, SendsFacts DEF Init, EvidenceInv, NewRecord
<1>3. UpgradeInv
  BY <1>1 DEF UpgradeInv, Actors
<1>4. FailureInv
  BY ChunksAssumption DEF Init, FailureInv, FailureOf
<1> QED
  BY <1>2, <1>3, <1>4 DEF Init, PromiseInv

-----------------------------------------------------------------------------
(* Evidence.                                                               *)

\* What is said of chunk t's evidence depends on its own state alone.
LEMMA EvidenceFrame ==
    ASSUME NEW t \in Sends, EvidenceInv(t),
           pc'[t] = pc[t], attempt'[t] = attempt[t],
           todo'[t] = todo[t] \/ todo'[t] = <<>>,
           rec'[PacketOf[t]] = rec[PacketOf[t]],
           evidence'[PacketOf[t]] = evidence[PacketOf[t]],
           PacketOf[t] \in deliveries' <=> PacketOf[t] \in deliveries
    PROVE  EvidenceInv(t)'
BY DEF EvidenceInv, Unsent, ProvenChunks

\* Sending a chunk brings no evidence, and tracks no other packet.
LEMMA ChainEvidence ==
    ASSUME TypeOK, NEW s \in Sends, Chain(s)
    PROVE  evidence' = evidence /\ deliveries' \subseteq deliveries \cup {PacketOf[s]}
BY DEF Chain, StartChunk, AbandonUnsent, AbandonRetry, AwaitAir, Track, SendAccepted, SendFailed,
       Arm, Fire, Callback, Check, Report, Finish, recordVars

\* Through its own steps a chunk's record keeps all the evidence there is.
LEMMA ChainKeepsEvidence ==
    ASSUME TypeOK, AccountingInv, NEW s \in Sends, EvidenceInv(s), Chain(s)
    PROVE  EvidenceInv(s)'
<1> DEFINE p == PacketOf[s]
<1>0. s \in Actors /\ p \in Packets /\ s[1] \in Msgs /\ ChunkInv(s)
  BY SendsFacts DEF AccountingInv
<1>a. rec[p] \in Record /\ pc[s] \in PCs /\ attempt[s] \in Nat /\ evidence[p] \in Evidence
  BY <1>0, LimitsAssumption DEF TypeOK
<1>b. evidence' = evidence
  BY ChainEvidence
<1>c. pc[s] \notin {"sent", "settling"} => todo[s] = <<>>
  BY <1>0 DEF ChunkInv
<1>d. ProvenChunks' = ProvenChunks
  BY <1>b DEF ProvenChunks
<1> USE <1>0, <1>a, <1>b, <1>d
    DEF TypeOK, EvidenceInv, Unsent, chainVars, recordVars, receiptVars
<1>1. CASE StartChunk(s)
  BY <1>1 DEF StartChunk
<1>2. CASE AbandonUnsent(s)
  BY <1>2 DEF AbandonUnsent, Call
<1>3. CASE AbandonRetry(s)
  BY <1>3 DEF AbandonRetry
<1>4. CASE AwaitAir(s)
  BY <1>4 DEF AwaitAir
<1>5. CASE Track(s)
  <2> DEFINE r == IF p \in deliveries THEN rec[p] ELSE NewRecord
  <2>1. /\ pc'[s] = "sending" /\ p \in deliveries' /\ todo' = todo
        /\ rec'[p].repeaters = r.repeaters /\ rec'[p].observers = r.observers
        /\ rec'[p].lateReceipts = r.lateReceipts
    BY <1>5 DEF Track, Record, NewRecord
  <2>2. r.lateReceipts = <<>>
    BY <1>5 DEF Track, NewRecord
  <2>3. r.repeaters = evidence[p].repeaters /\ r.observers = evidence[p].observers
    <3>1. CASE p \in deliveries
      BY <3>1
    <3>2. CASE p \notin deliveries
      <4>1. evidence[p] = NoEvidence
        BY <1>5, <3>2 DEF Track, ChunkInv, Live
      <4> QED
        BY <3>2, <4>1 DEF NewRecord, NoEvidence
    <3> QED
      BY <3>1, <3>2
  <2> QED
    BY <1>5, <1>c, <2>1, <2>2, <2>3 DEF Track
<1>6. CASE SendAccepted(s)
  BY <1>6 DEF SendAccepted, Call
<1>7. CASE SendFailed(s)
  BY <1>7, <1>c DEF SendFailed, NewRecord, Call
<1>8. CASE Arm(s)
  BY <1>8 DEF Arm, Returned
<1>9. CASE Fire(s)
  BY <1>9 DEF Fire
<1>10. CASE Callback(s)
  BY <1>10 DEF Callback
<1>11. CASE Check(s)
  BY <1>11, LimitsAssumption DEF Check
<1>12. CASE Report(s)
  <2>1. /\ pc[s] = "report" /\ p \in deliveries /\ ~rec[p].reported
        /\ rec[p].receipts = OwnReceipts(s) /\ pc'[s] = "settling"
        /\ rec[p].lateReceipts = <<>>
    BY <1>12 DEF Report, ChunkInv, Live
  <2>2. /\ rec'[p].repeaters = rec[p].repeaters /\ rec'[p].observers = rec[p].observers
        /\ rec'[p].lateReceipts = IF Confirmed(rec[p]) THEN <<>> ELSE <<>> \o OwnReceipts(s)
        /\ deliveries' = deliveries
        /\ todo'[s] = CallAll(IF Confirmed(rec[p]) THEN "settleTrue" ELSE "settleFalse",
                              OwnReceipts(s))
    BY <1>12, <2>1 DEF Report, Record
  <2>3. <<>> \o OwnReceipts(s) = OwnReceipts(s)
    BY DEF OwnReceipts
  <2>4. Confirmed(rec[p]) => s \in ProvenChunks
    BY <2>1, RuleConfirmed DEF ProvenChunks
  <2>5. ~Confirmed(rec[p]) => todo'[s] = Call("settleFalse", s[1])
    BY <2>2, OwnCalls DEF Methods
  <2>6. todo'[s] # <<>> /\ Head(todo'[s]).op = "settleTrue" => s \in ProvenChunks
    BY <2>4, <2>5 DEF Call
  <2> QED
    BY <2>1, <2>2, <2>3, <2>6
<1>13. CASE Finish(s)
  BY <1>13 DEF Finish, Returned
<1> QED
  BY <1>1, <1>2, <1>3, <1>4, <1>5, <1>6, <1>7, <1>8, <1>9, <1>10, <1>11, <1>12, <1>13
     DEF Chain

-----------------------------------------------------------------------------
(* Counting.                                                               *)

\* A part of a finite set is no larger, and one that leaves out an element,
\* or goes beyond the set by one, is smaller, or larger by at most one.
LEMMA PartsCount ==
    ASSUME NEW F, IsFiniteSet(F), NEW G, IsFiniteSet(G)
    PROVE  /\ Cardinality(F) \in Nat /\ Cardinality(G) \in Nat
           /\ G \subseteq F => Cardinality(G) <= Cardinality(F)
           /\ \A x : G \subseteq F \cup {x} => Cardinality(G) <= Cardinality(F) + 1
           /\ \A x : x \notin G /\ G \cup {x} \subseteq F =>
                       Cardinality(G) + 1 <= Cardinality(F)
<1>1. Cardinality(F) \in Nat /\ Cardinality(G) \in Nat
  BY FS_CardinalityType
<1>2. G \subseteq F => Cardinality(G) <= Cardinality(F)
  BY FS_Subset
<1>3. ASSUME NEW x, G \subseteq F \cup {x} PROVE Cardinality(G) <= Cardinality(F) + 1
  <2>1. /\ IsFiniteSet(F \cup {x})
        /\ Cardinality(F \cup {x}) = IF x \in F THEN Cardinality(F) ELSE Cardinality(F) + 1
    BY FS_AddElement
  <2>2. Cardinality(G) <= Cardinality(F \cup {x})
    BY <1>3, <2>1, FS_Subset
  <2> QED
    BY <1>1, <2>1, <2>2
<1>4. ASSUME NEW x, x \notin G, G \cup {x} \subseteq F PROVE Cardinality(G) + 1 <= Cardinality(F)
  <2>1. /\ IsFiniteSet(G \cup {x})
        /\ Cardinality(G \cup {x}) = Cardinality(G) + 1
    BY <1>4, FS_AddElement
  <2>2. Cardinality(G \cup {x}) <= Cardinality(F)
    BY <1>4, FS_Subset
  <2> QED
    BY <2>1, <2>2
<1> QED
  BY <1>1, <1>2, <1>3, <1>4

\* The sets FailureInv counts are finite.
LEMMA FailingFinite ==
    ASSUME NEW m \in Msgs
    PROVE  /\ IsFiniteSet(Failing(m)) /\ IsFiniteSet(ToFail(m))
           /\ IsFiniteSet(Failing(m)') /\ IsFiniteSet(ToFail(m)')
<1>1. IsFiniteSet(ChunksOf(m))
  BY ChunksFinite
<1>2. /\ Failing(m) \subseteq ChunksOf(m) /\ ToFail(m) \subseteq ChunksOf(m)
      /\ Failing(m)' \subseteq ChunksOf(m) /\ ToFail(m)' \subseteq ChunksOf(m)
  BY DEF Failing, ToFail, ChunksOf
<1> QED
  BY <1>1, <1>2, FS_Subset

\* While no chunk of m starts to fail, and no failure is forgotten, the count
\* of m's failures stays large enough.
LEMMA FailureFrame ==
    ASSUME NEW m \in Msgs, FailureOf(m), receipt[m] \in Receipt, fate'[m] = fate[m],
           receipt'[m].failed = receipt[m].failed,
           receipt'[m].pending = receipt[m].pending \/ fate[m] = "taken",
           Failing(m)' \subseteq Failing(m), ToFail(m) \subseteq ToFail(m)',
           Upgrades(m)' = Upgrades(m)
    PROVE  FailureOf(m)'
<1> DEFINE F == Cardinality(Failing(m))
           G == Cardinality(Failing(m)')
           T == Cardinality(ToFail(m))
           U == Cardinality(ToFail(m)')
           u == Upgrades(m)
<1>1. F \in Nat /\ G \in Nat /\ T \in Nat /\ U \in Nat /\ G <= F /\ T <= U
  BY FailingFinite, PartsCount
<1>2. u \in Nat /\ receipt[m].failed \in Nat
  BY DEF Upgrades, Receipt
<1>3. /\ FailureOf(m)' <=>
           /\ fate[m] = "taken" => G + u <= receipt[m].failed + U
           /\ fate[m] = "dropped" /\ receipt[m].pending = 0 => receipt[m].failed > 0
      /\ fate[m] = "taken" => F + u <= receipt[m].failed + T
      /\ fate[m] = "dropped" /\ receipt[m].pending = 0 => receipt[m].failed > 0
  BY DEF FailureOf
<1> HIDE DEF F, G, T, U, u
<1> QED
  BY <1>1, <1>2, <1>3

\* When nothing of message m changes, neither does what is counted.
LEMMA CountFrame ==
    ASSUME NEW m \in Msgs, \A s \in ChunksOf(m) : pc'[s] = pc[s] /\ todo'[s] = todo[s],
           ProvenChunks \subseteq ProvenChunks'
    PROVE  Failing(m)' \subseteq Failing(m) /\ ToFail(m)' = ToFail(m)
<1>1. ChunksOf(m)' = ChunksOf(m)
  BY DEF ChunksOf
<1> QED
  BY <1>1 DEF Failing, ToFail

\* A chunk that ends unproven has its failure to settle.
LEMMA ChainFails ==
    ASSUME TypeOK, AccountingInv, NEW s \in Sends, EvidenceInv(s), Chain(s),
           s[1] \in WithReceipt
    PROVE  LET toFail == todo[s] # <<>> /\ Head(todo[s]).op = "settleFalse" IN
           /\ toFail => toFail'
           /\ pc'[s] \in {"settling", "done"} =>
                \/ pc[s] \in {"settling", "done"}
                \/ s \in ProvenChunks
                \/ ~toFail /\ toFail'
<1> DEFINE p == PacketOf[s]
<1>0. s \in Actors /\ p \in Packets /\ s[1] \in Msgs /\ ChunkInv(s)
  BY SendsFacts DEF AccountingInv
<1>a. rec[p] \in Record /\ pc[s] \in PCs /\ evidence[p] \in Evidence
  BY <1>0 DEF TypeOK
<1>b. pc[s] \notin {"sent", "settling"} => todo[s] = <<>>
  BY <1>0 DEF ChunkInv
<1>c. \A op \in Methods : /\ Call(op, s[1]) # <<>> /\ Head(Call(op, s[1])).op = op
  BY DEF Call
<1>d. todo[s] # <<>> /\ Head(todo[s]).op = "settleFalse" => pc[s] = "settling"
  BY <1>0, <1>c DEF ChunkInv, Methods
<1> USE <1>0, <1>a, <1>b, <1>d DEF TypeOK, chainVars, recordVars, receiptVars
<1>1. CASE StartChunk(s)
  BY <1>1 DEF StartChunk
<1>2. CASE AbandonUnsent(s)
  BY <1>2, <1>c DEF AbandonUnsent, Methods
<1>3. CASE AbandonRetry(s)
  BY <1>3 DEF AbandonRetry
<1>4. CASE AwaitAir(s)
  BY <1>4 DEF AwaitAir
<1>5. CASE Track(s)
  BY <1>5 DEF Track
<1>6. CASE SendAccepted(s)
  BY <1>6 DEF SendAccepted
<1>7. CASE SendFailed(s)
  BY <1>7, <1>c DEF SendFailed, Methods
<1>8. CASE Arm(s)
  BY <1>8 DEF Arm
<1>9. CASE Fire(s)
  BY <1>9 DEF Fire
<1>10. CASE Callback(s)
  BY <1>10 DEF Callback
<1>11. CASE Check(s)
  BY <1>11 DEF Check
<1>12. CASE Report(s)
  <2>1. /\ pc[s] = "report" /\ p \in deliveries /\ ~rec[p].reported
        /\ rec[p].receipts = OwnReceipts(s) /\ pc'[s] = "settling"
    BY <1>12 DEF Report, ChunkInv, Live
  <2>2. Confirmed(rec[p]) => s \in ProvenChunks
    BY <2>1, RuleConfirmed DEF ProvenChunks, EvidenceInv
  <2>3. ~Confirmed(rec[p]) => todo'[s] = CallAll("settleFalse", OwnReceipts(s))
    BY <1>12, <2>1 DEF Report
  <2>4. ~Confirmed(rec[p]) => todo'[s] = Call("settleFalse", s[1])
    BY <2>3, OwnCalls DEF Methods
  <2> QED
    BY <1>c, <2>1, <2>2, <2>4 DEF Methods
<1>13. CASE Finish(s)
  BY <1>13 DEF Finish, Returned
<1> QED
  BY <1>1, <1>2, <1>3, <1>4, <1>5, <1>6, <1>7, <1>8, <1>9, <1>10, <1>11, <1>12, <1>13
     DEF Chain

\* A chunk's own steps keep the count.
LEMMA ChainFailure ==
    ASSUME TypeOK, AccountingInv, NEW s \in Sends, EvidenceInv(s), Chain(s),
           NEW m \in WithReceipt, FailureOf(m)
    PROVE  FailureOf(m)'
<1>0. m \in Msgs /\ s \in Actors /\ s # CoreScope /\ CoreScope \in Actors /\ s \in ChunksOf(s[1])
  BY ChunksAssumption, SendsFacts, NamesAssumption DEF Actors
<1>1. /\ fate' = fate /\ receipt' = receipt
      /\ \A t \in Sends \ {s} : pc'[t] = pc[t] /\ todo'[t] = todo[t]
      /\ todo'[CoreScope] = todo[CoreScope]
  BY <1>0, ChainFrame, SendsFacts
<1>2. ProvenChunks' = ProvenChunks /\ Upgrades(m)' = Upgrades(m)
  BY <1>1, ChainEvidence DEF ProvenChunks, Upgrades
<1>3. receipt[m] \in Receipt /\ \A t \in ChunksOf(m) : t \in Sends /\ t[1] = m
  BY <1>0 DEF TypeOK, Sends, ChunksOf
<1>4. ChunksOf(m)' = ChunksOf(m)
  BY DEF ChunksOf
<1>5. CASE s[1] # m
  BY <1>0, <1>1, <1>2, <1>3, <1>5, CountFrame, FailureFrame
<1>6. CASE s[1] = m
  <2> DEFINE toFail == todo[s] # <<>> /\ Head(todo[s]).op = "settleFalse"
  <2>1. /\ toFail => toFail'
        /\ pc'[s] \in {"settling", "done"} =>
             pc[s] \in {"settling", "done"} \/ s \in ProvenChunks \/ (~toFail /\ toFail')
    BY <1>6, ChainFails
  <2>2. ToFail(m) \subseteq ToFail(m)' /\ (~toFail => s \notin ToFail(m))
    BY <1>1, <1>3, <1>4, <2>1 DEF ToFail
  <2>3. CASE Failing(m)' \subseteq Failing(m)
    BY <1>0, <1>1, <1>2, <1>3, <2>2, <2>3, FailureFrame
  <2>4. CASE ~(Failing(m)' \subseteq Failing(m))
    <3>1. ~toFail /\ toFail'
      BY <1>1, <1>2, <1>3, <1>4, <2>1, <2>4 DEF Failing
    <3>2. /\ Failing(m)' \subseteq Failing(m) \cup {s}
          /\ s \notin ToFail(m) /\ ToFail(m) \cup {s} \subseteq ToFail(m)'
      BY <1>0, <1>1, <1>2, <1>3, <1>4, <1>6, <2>2, <3>1 DEF Failing, ToFail
    <3> DEFINE F == Cardinality(Failing(m))
               G == Cardinality(Failing(m)')
               T == Cardinality(ToFail(m))
               U == Cardinality(ToFail(m)')
               u == Upgrades(m)
    <3>3. F \in Nat /\ G \in Nat /\ T \in Nat /\ U \in Nat /\ G <= F + 1 /\ T + 1 <= U
      BY <1>0, <3>2, FailingFinite, PartsCount
    <3>4. u \in Nat /\ receipt[m].failed \in Nat
      BY <1>3 DEF Upgrades, Receipt
    <3>5. /\ FailureOf(m)' <=>
               /\ fate[m] = "taken" => G + u <= receipt[m].failed + U
               /\ fate[m] = "dropped" /\ receipt[m].pending = 0 => receipt[m].failed > 0
          /\ fate[m] = "taken" => F + u <= receipt[m].failed + T
          /\ fate[m] = "dropped" /\ receipt[m].pending = 0 => receipt[m].failed > 0
      BY <1>1, <1>2 DEF FailureOf
    <3> HIDE DEF F, G, T, U, u
    <3> QED
      BY <3>3, <3>4, <3>5
  <2> QED
    BY <2>3, <2>4
<1> QED
  BY <1>5, <1>6

\* Who is in the middle of which call on a receipt.
LEMMA Callers ==
    ASSUME TypeOK, AccountingInv, UpgradeInv, NEW a \in Actors, todo[a] # <<>>
    PROVE  LET m == Head(todo[a]).msg
               op == Head(todo[a]).op
           IN /\ m \in WithReceipt /\ m \in Msgs /\ Tail(todo[a]) = <<>>
              /\ \/ /\ a \in Sends /\ m = a[1] /\ fate[m] = "taken"
                    /\ \/ op = "markAccepted" /\ pc[a] = "sent"
                       \/ op \in {"settleTrue", "settleFalse"} /\ pc[a] = "settling"
                 \/ a \in Msgs /\ m = a /\ fate[m] = "dropped" /\ op = "settleFalse"
                 \/ a = CoreScope /\ fate[m] = "taken" /\ op = "lateConfirm"
<1>1. CASE a \in Sends
  <2>1. ChunkInv(a) /\ a[1] \in Msgs
    BY <1>1, SendsFacts DEF AccountingInv
  <2>2. PICK op \in Methods :
          /\ todo[a] = Call(op, a[1])
          /\ \/ op = "markAccepted" /\ pc[a] = "sent"
             \/ op \in {"settleTrue", "settleFalse"} /\ pc[a] = "settling"
    BY <2>1 DEF ChunkInv, Methods
  <2>3. a[1] \in WithReceipt /\ todo[a] = <<[op |-> op, msg |-> a[1]]>>
    BY <2>2 DEF Call
  <2>4. fate[a[1]] = "taken"
    BY <2>1, <2>2 DEF ChunkInv
  <2> QED
    BY <1>1, <2>1, <2>2, <2>3, <2>4
<1>2. CASE a \in Msgs
  <2>1. fate[a] = "dropped" /\ todo[a] = Call("settleFalse", a)
    BY <1>2 DEF AccountingInv, CallsInv
  <2>2. a \in WithReceipt /\ todo[a] = <<[op |-> "settleFalse", msg |-> a]>>
    BY <2>1 DEF Call
  <2>3. /\ Head(todo[a]) = [op |-> "settleFalse", msg |-> a]
        /\ Tail(todo[a]) = <<>>
    BY <2>2
  <2> QED
    BY <1>2, <2>1, <2>2, <2>3
<1>3. CASE a = CoreScope
  <2>1. PICK m \in WithReceipt : fate[m] = "taken" /\ todo[a] = Call("lateConfirm", m)
    BY <1>3 DEF UpgradeInv
  <2>2. m \in Msgs /\ todo[a] = <<[op |-> "lateConfirm", msg |-> m]>>
    BY <2>1, ChunksAssumption DEF Call
  <2>3. /\ Head(todo[a]) = [op |-> "lateConfirm", msg |-> m]
        /\ Tail(todo[a]) = <<>>
    BY <2>2
  <2> QED
    BY <1>3, <2>1, <2>2, <2>3
<1> QED
  BY <1>1, <1>2, <1>3 DEF Actors

\* What a step on a receipt leaves alone, and the receipt it is about.
LEMMA ReceiptStepFrame ==
    ASSUME TypeOK, NEW a \in Actors, ReceiptStep(a)
    PROVE  /\ UNCHANGED <<queueVars, chainVars, recordVars>>
           /\ \A b \in Actors \ {a} : todo'[b] = todo[b]
           /\ \/ MakeRequest(a) /\ todo' = todo /\ receipt' = receipt
              \/ /\ todo[a] # <<>> /\ todo'[a] = Tail(todo[a])
                 /\ \A n \in Msgs \ {Head(todo[a]).msg} : receipt'[n] = receipt[n]
<1> USE DEF TypeOK
<1>1. CASE MarkAccepted(a)
  BY <1>1 DEF MarkAccepted, NextCall
<1>2. CASE Settle(a)
  <2> DEFINE m == Head(todo[a]).msg
             failure == IF Head(todo[a]).op = "settleFalse" THEN 1 ELSE 0
             r == [receipt[m] EXCEPT !.pending = @ - 1, !.failed = @ + failure]
  <2>1. receipt' = receipt \/ receipt' = [receipt EXCEPT ![m] = r]
    BY <1>2 DEF Settle
  <2> HIDE DEF r
  <2> QED
    BY <1>2, <2>1 DEF Settle, NextCall
<1>3. CASE LateConfirm(a)
  <2> DEFINE m == Head(todo[a]).msg
             r == [receipt[m] EXCEPT !.failed = @ - 1]
  <2>1. receipt' = receipt \/ receipt' = [receipt EXCEPT ![m] = r]
    BY <1>3 DEF LateConfirm
  <2> HIDE DEF r
  <2> QED
    BY <1>3, <2>1 DEF LateConfirm, NextCall
<1>4. CASE MakeRequest(a)
  BY <1>4 DEF MakeRequest
<1> QED
  BY <1>1, <1>2, <1>3, <1>4 DEF ReceiptStep

\* What the methods do to the receipt's counters.
LEMMA Counters ==
    ASSUME TypeOK, NEW a \in Actors, todo[a] # <<>>, NEW m \in Msgs, m = Head(todo[a]).msg
    PROVE  /\ receipt[m].pending \in Nat /\ receipt[m].failed \in Nat
           /\ MarkAccepted(a) =>
                receipt'[m].pending = receipt[m].pending /\ receipt'[m].failed = receipt[m].failed
           /\ Settle(a) /\ receipt[m].pending = 0 => receipt'[m] = receipt[m]
           /\ Settle(a) /\ receipt[m].pending # 0 =>
                /\ receipt'[m].pending = receipt[m].pending - 1
                /\ receipt'[m].failed = IF Head(todo[a]).op = "settleFalse"
                                        THEN receipt[m].failed + 1 ELSE receipt[m].failed
           /\ LateConfirm(a) =>
                /\ receipt'[m].pending = receipt[m].pending
                /\ receipt'[m].failed = IF receipt[m].failed = 0 THEN 0
                                        ELSE receipt[m].failed - 1
<1>0. receipt[m] \in Receipt /\ receipt[m].pending \in Nat /\ receipt[m].failed \in Nat
  BY DEF TypeOK, Receipt
<1>1. ASSUME MarkAccepted(a)
      PROVE  receipt'[m].pending = receipt[m].pending /\ receipt'[m].failed = receipt[m].failed
  BY <1>0, <1>1 DEF MarkAccepted, TypeOK, Receipt
<1>2. ASSUME Settle(a), receipt[m].pending = 0 PROVE receipt'[m] = receipt[m]
  BY <1>2 DEF Settle
<1>3. ASSUME Settle(a), receipt[m].pending # 0
      PROVE  /\ receipt'[m].pending = receipt[m].pending - 1
             /\ receipt'[m].failed = IF Head(todo[a]).op = "settleFalse"
                                     THEN receipt[m].failed + 1 ELSE receipt[m].failed
  <2> DEFINE failure == IF Head(todo[a]).op = "settleFalse" THEN 1 ELSE 0
             r == [receipt[m] EXCEPT !.pending = @ - 1, !.failed = @ + failure]
  <2>1. receipt' = [receipt EXCEPT ![m] = r]
    BY <1>3 DEF Settle
  <2>2. r.pending = receipt[m].pending - 1 /\ r.failed = receipt[m].failed + failure
    BY <1>0 DEF Receipt
  <2> HIDE DEF r
  <2>3. receipt'[m] = r
    BY <2>1 DEF TypeOK
  <2> QED
    BY <1>0, <2>2, <2>3
<1>4. ASSUME LateConfirm(a)
      PROVE  /\ receipt'[m].pending = receipt[m].pending
             /\ receipt'[m].failed = IF receipt[m].failed = 0 THEN 0
                                     ELSE receipt[m].failed - 1
  <2> DEFINE r == [receipt[m] EXCEPT !.failed = @ - 1]
  <2>1. IF receipt[m].failed = 0 THEN receipt' = receipt
                                 ELSE receipt' = [receipt EXCEPT ![m] = r]
    BY <1>4 DEF LateConfirm
  <2>2. r.pending = receipt[m].pending /\ r.failed = receipt[m].failed - 1
    BY <1>0 DEF Receipt
  <2> HIDE DEF r
  <2> QED
    BY <1>0, <2>1, <2>2 DEF TypeOK
<1> QED
  BY <1>0, <1>1, <1>2, <1>3, <1>4

\* A chunk about to settle is one the receipt still waits for.
LEMMA SettlesPending ==
    ASSUME TypeOK, AccountingInv, NEW s \in Sends, s[1] \in WithReceipt,
           fate[s[1]] = "taken", ~HasSettled(s)
    PROVE  receipt[s[1]].pending # 0
<1>1. s[1] \in Msgs /\ s \in Unsettled(s[1])
  BY SendsFacts DEF Unsettled
<1>2. Cardinality(Unsettled(s[1])) # 0
  BY <1>1, UnsettledFinite, FS_EmptySet
<1> QED
  BY <1>2 DEF AccountingInv, ReceiptAccounting

\* The receipt's methods keep the count: a settle that reports a failure
\* counts it, and an upgrade takes off the one it is for.
LEMMA ReceiptFailure ==
    ASSUME TypeOK, AccountingInv, UpgradeInv, NEW a \in Actors, ReceiptStep(a),
           NEW m \in WithReceipt, FailureOf(m)
    PROVE  FailureOf(m)'
<1>0. /\ m \in Msgs /\ receipt[m] \in Receipt /\ CoreScope \in Actors
      /\ receipt[m].failed \in Nat
      /\ \A t \in ChunksOf(m) : t \in Sends /\ t[1] = m /\ t \in Actors /\ t # CoreScope
  BY ChunksAssumption, NamesAssumption DEF TypeOK, Receipt, Actors, Sends, ChunksOf
<1>1. /\ fate' = fate /\ pc' = pc /\ ProvenChunks' = ProvenChunks
      /\ \A b \in Actors \ {a} : todo'[b] = todo[b]
  BY ReceiptStepFrame DEF queueVars, chainVars, recordVars, ProvenChunks
<1>2. ChunksOf(m)' = ChunksOf(m) /\ Failing(m)' = Failing(m)
  BY <1>1 DEF ChunksOf, Failing
<1>3. CASE todo' = todo /\ receipt' = receipt
  BY <1>0, <1>1, <1>2, <1>3, FailureFrame DEF ToFail, Upgrades
<1>4. CASE todo[a] # <<>> /\ todo'[a] = Tail(todo[a])
  <2> DEFINE k == Head(todo[a]).msg
             op == Head(todo[a]).op
  <2>1. /\ k \in WithReceipt /\ k \in Msgs /\ todo'[a] = <<>>
        /\ \/ /\ a \in Sends /\ k = a[1] /\ fate[k] = "taken"
              /\ \/ op = "markAccepted" /\ pc[a] = "sent"
                 \/ op \in {"settleTrue", "settleFalse"} /\ pc[a] = "settling"
           \/ a \in Msgs /\ k = a /\ fate[k] = "dropped" /\ op = "settleFalse"
           \/ a = CoreScope /\ fate[k] = "taken" /\ op = "lateConfirm"
    BY <1>4, Callers
  <2>2. \A n \in Msgs \ {k} : receipt'[n] = receipt[n]
    BY <1>4, ReceiptStepFrame
  <2> HIDE DEF k
  <2>3. CASE k # m
    <3>1. \A t \in ChunksOf(m) : t # a /\ todo'[t] = todo[t]
      BY <1>0, <1>1, <2>1, <2>3, NamesAssumption
    <3>2. ToFail(m)' = ToFail(m)
      BY <1>2, <3>1 DEF ToFail
    <3>3. Upgrades(m)' = Upgrades(m)
      BY <1>0, <1>1, <2>1, <2>3 DEF Upgrades, k
    <3> QED
      BY <1>0, <1>1, <1>2, <2>2, <2>3, <3>2, <3>3, FailureFrame
  <2>4. CASE k = m /\ a \in Sends /\ op # "settleFalse"
    <3>1. ToFail(m) \subseteq ToFail(m)'
      BY <1>0, <1>1, <1>2, <2>4 DEF ToFail
    <3>2. Upgrades(m)' = Upgrades(m) /\ fate[m] = "taken"
      BY <1>0, <1>1, <2>1, <2>4, NamesAssumption DEF Upgrades
    <3>3. MarkAccepted(a) \/ Settle(a)
      BY <1>4, <2>1, <2>4, NamesAssumption DEF ReceiptStep, LateConfirm, MakeRequest, NextCall
    <3>4. receipt'[m].failed = receipt[m].failed
      BY <1>0, <1>4, <2>4, <3>3, Counters DEF k
    <3> QED
      BY <1>0, <1>1, <1>2, <3>1, <3>2, <3>4, FailureFrame
  <2>5. CASE k = m /\ a \in Sends /\ op = "settleFalse"
    <3>1. Settle(a) /\ fate[m] = "taken" /\ a[1] = m /\ ~HasSettled(a)
      BY <1>4, <2>1, <2>5, NamesAssumption
         DEF ReceiptStep, MarkAccepted, LateConfirm, MakeRequest, NextCall, HasSettled
    <3>2. receipt'[m].failed = receipt[m].failed + 1
      BY <1>0, <1>4, <2>5, <3>1, SettlesPending, Counters DEF k
    <3>3. ToFail(m) \subseteq ToFail(m)' \cup {a}
      BY <1>0, <1>1, <1>2 DEF ToFail
    <3>4. Upgrades(m)' = Upgrades(m) /\ Upgrades(m) \in Nat
      BY <1>0, <1>1, <2>5, NamesAssumption DEF Upgrades
    <3> DEFINE F == Cardinality(Failing(m))
               T == Cardinality(ToFail(m))
               U == Cardinality(ToFail(m)')
               u == Upgrades(m)
    <3>5. F \in Nat /\ T \in Nat /\ U \in Nat /\ T <= U + 1
      BY <1>0, <3>3, FailingFinite, PartsCount
    <3>6. /\ FailureOf(m)' <=> F + u <= receipt'[m].failed + U
          /\ F + u <= receipt[m].failed + T
      BY <1>1, <1>2, <3>1, <3>4 DEF FailureOf
    <3> HIDE DEF F, T, U, u
    <3> QED
      BY <1>0, <3>2, <3>4, <3>5, <3>6 DEF u
  <2>6. CASE k = m /\ a \in Msgs
    <3>1. fate[m] = "dropped" /\ op = "settleFalse" /\ Settle(a)
      BY <1>4, <2>1, <2>6, NamesAssumption
         DEF ReceiptStep, MarkAccepted, LateConfirm, MakeRequest, NextCall
    <3>2. receipt[m].pending = 0 => receipt'[m] = receipt[m]
      BY <1>0, <1>4, <2>6, <3>1, Counters DEF k
    <3>3. receipt[m].pending # 0 => receipt'[m].failed = receipt[m].failed + 1
      BY <1>0, <1>4, <2>6, <3>1, Counters DEF k
    <3> QED
      BY <1>0, <1>1, <3>1, <3>2, <3>3 DEF FailureOf
  <2>7. CASE k = m /\ a = CoreScope
    <3>1. fate[m] = "taken" /\ LateConfirm(a)
      BY <1>4, <2>1, <2>7, NamesAssumption
         DEF ReceiptStep, MarkAccepted, Settle, MakeRequest, NextCall
    <3>2. receipt'[m].failed = IF receipt[m].failed = 0 THEN 0 ELSE receipt[m].failed - 1
      BY <1>0, <1>4, <2>7, <3>1, Counters DEF k
    <3>3. ToFail(m)' = ToFail(m)
      BY <1>0, <1>1, <1>2, <2>7 DEF ToFail
    <3>4. Upgrades(m)' = 0 /\ Upgrades(m) = 1
      BY <1>4, <2>1, <2>7 DEF Upgrades, k
    <3> DEFINE F == Cardinality(Failing(m))
               T == Cardinality(ToFail(m))
    <3>5. F \in Nat /\ T \in Nat
      BY <1>0, FailingFinite, PartsCount
    <3>6. /\ FailureOf(m)' <=> F + 0 <= receipt'[m].failed + T
          /\ F + 1 <= receipt[m].failed + T
      BY <1>1, <1>2, <3>1, <3>3, <3>4 DEF FailureOf
    <3> HIDE DEF F, T
    <3> QED
      BY <1>0, <3>2, <3>5, <3>6
  <2> QED
    BY <2>1, <2>3, <2>4, <2>5, <2>6, <2>7
<1> QED
  BY <1>3, <1>4, ReceiptStepFrame

-----------------------------------------------------------------------------
(* The other steps.                                                        *)

\* Evidence is only added to.
LEMMA ProvenGrows ==
    ASSUME \A p \in Packets : /\ evidence[p].repeaters \subseteq evidence'[p].repeaters
                              /\ evidence[p].observers \subseteq evidence'[p].observers
    PROVE  ProvenChunks \subseteq ProvenChunks'
<1> SUFFICES ASSUME NEW s \in Sends, RuleMet(evidence[PacketOf[s]])
             PROVE  RuleMet(evidence'[PacketOf[s]])
  <2>1. ProvenChunks' = {s \in Sends : RuleMet(evidence'[PacketOf[s]])}
    BY DEF ProvenChunks, RuleMet
  <2> QED
    BY <2>1 DEF ProvenChunks
<1>1. PacketOf[s] \in Packets
  BY SendsFacts
<1> QED
  BY <1>1, RuleGrows

\* What hearing a copy adds to a record.
LEMMA HeardRecord ==
    ASSUME NEW r \in Record, NEW R, NEW O
    PROVE  /\ Heard(r, R, O).repeaters = r.repeaters \cup R
           /\ Heard(r, R, O).observers = r.observers \cup O
           /\ Heard(r, R, O).lateReceipts = r.lateReceipts
  BY DEF Heard, Record

\* What hearing a copy adds to the evidence.
LEMMA HeardMore ==
    ASSUME NEW e \in Evidence, NEW R, NEW O
    PROVE  /\ Heard(e, R, O).repeaters = e.repeaters \cup R
           /\ Heard(e, R, O).observers = e.observers \cup O
  BY DEF Heard, Evidence

\* A copy heard of packet p adds to the evidence, and so proves no less.
LEMMA HeardGrows ==
    ASSUME TypeOK, NEW p \in Packets, NEW R, NEW O,
           evidence' = [evidence EXCEPT ![p] = Heard(@, R, O)]
    PROVE  ProvenChunks \subseteq ProvenChunks'
<1>1. evidence'[p] = Heard(evidence[p], R, O) /\ evidence[p] \in Evidence
  BY DEF TypeOK
<1>2. /\ evidence'[p].repeaters = evidence[p].repeaters \cup R
      /\ evidence'[p].observers = evidence[p].observers \cup O
  BY <1>1, HeardMore
<1>3. \A q \in Packets \ {p} : evidence'[q] = evidence[q]
  BY DEF TypeOK
<1> QED
  BY <1>2, <1>3, ProvenGrows

\* Receipt steps keep what is said of the evidence.
LEMMA ReceiptStepPromise ==
    ASSUME TypeOK, AccountingInv, PromiseInv, NEW a \in Actors, ReceiptStep(a)
    PROVE  PromiseInv'
<1>1. /\ fate' = fate /\ pc' = pc /\ attempt' = attempt
      /\ rec' = rec /\ deliveries' = deliveries /\ evidence' = evidence
      /\ \A b \in Actors \ {a} : todo'[b] = todo[b]
      /\ \/ todo'[a] = todo[a]
         \/ todo[a] # <<>> /\ todo'[a] = Tail(todo[a])
  BY ReceiptStepFrame DEF queueVars, chainVars, recordVars
<1>2. \A b \in Actors : todo'[b] = todo[b] \/ todo'[b] = <<>>
  BY <1>1, Callers DEF PromiseInv
<1>3. \A t \in Sends : EvidenceInv(t)'
  BY <1>1, <1>2, SendsFacts, EvidenceFrame DEF PromiseInv
<1>4. UpgradeInv'
  BY <1>1, <1>2 DEF PromiseInv, UpgradeInv, Actors
<1>5. FailureInv'
  BY ReceiptFailure DEF PromiseInv, FailureInv
<1> QED
  BY <1>1, <1>3, <1>4, <1>5 DEF PromiseInv

\* A chunk's own steps keep the invariant.
LEMMA ChainPromise ==
    ASSUME DistinctPackets, TypeOK, AccountingInv, PromiseInv, NEW s \in Sends, Chain(s)
    PROVE  PromiseInv'
<1>0. s \in Actors /\ s # CoreScope /\ CoreScope \in Actors /\ EvidenceInv(s)
  BY SendsFacts, NamesAssumption DEF PromiseInv, Actors
<1>1. evidence' = evidence /\ deliveries' \subseteq deliveries \cup {PacketOf[s]}
  BY ChainEvidence
<1>2. \A t \in Sends : EvidenceInv(t)'
  <2> TAKE t \in Sends
  <2>1. CASE t = s
    BY <1>0, <2>1, ChainKeepsEvidence
  <2>2. CASE t # s
    <3>1. /\ t \in Actors \ {s} /\ PacketOf[t] \in Packets \ {PacketOf[s]}
          /\ EvidenceInv(t)
      BY <2>2, SendsFacts DEF DistinctPackets, PromiseInv
    <3>2. /\ pc'[t] = pc[t] /\ attempt'[t] = attempt[t] /\ todo'[t] = todo[t]
          /\ rec'[PacketOf[t]] = rec[PacketOf[t]]
          /\ PacketOf[t] \in deliveries' <=> PacketOf[t] \in deliveries
      BY <2>2, <3>1, ChainFrame
    <3> QED
      BY <1>1, <3>1, <3>2, EvidenceFrame
  <2> QED
    BY <2>1, <2>2
<1>3. UpgradeInv'
  BY <1>0, ChainFrame DEF PromiseInv, UpgradeInv
<1>4. FailureInv'
  BY <1>0, ChainFailure DEF PromiseInv, FailureInv
<1> QED
  BY <1>1, <1>2, <1>3, <1>4 DEF PromiseInv

\* Taking a message keeps the invariant: none of its chunks has ended, and no
\* upgrade can be under way for it.
LEMMA TakePromise ==
    ASSUME TypeOK, AccountingInv, PromiseInv, Take
    PROVE  PromiseInv'
<1> DEFINE m == Head(relayQ)
<1>0. m \in Msgs /\ m = relayQ[1] /\ Len(relayQ) \in Nat \ {0}
  BY DEF TypeOK, Take
<1>1. fate[m] = "queued" /\ fate' = [fate EXCEPT ![m] = "taken"]
  BY <1>0 DEF AccountingInv, QueueInv, Take
<1>2. /\ todo' = todo /\ pc' = pc /\ attempt' = attempt
      /\ rec' = rec /\ deliveries' = deliveries /\ evidence' = evidence
      /\ receipt' = NewDiscordReceipt(m, NChunks[m])
  BY DEF Take, chainVars, recordVars
<1> HIDE DEF m
<1>3. \A t \in Sends : EvidenceInv(t)'
  BY <1>2, EvidenceFrame DEF PromiseInv
<1>4. \A n \in Msgs : fate[n] = "taken" => fate'[n] = "taken" /\ n # m
  BY <1>0, <1>1 DEF TypeOK
<1>5. UpgradeInv'
  BY <1>2, <1>4, ChunksAssumption DEF PromiseInv, UpgradeInv
<1>6. ASSUME NEW n \in WithReceipt PROVE FailureOf(n)'
  <2>0. n \in Msgs /\ FailureOf(n) /\ receipt[n] \in Receipt
    BY <1>6, ChunksAssumption DEF PromiseInv, FailureInv, TypeOK
  <2>1. /\ Failing(n)' = Failing(n) /\ ToFail(n)' = ToFail(n)
        /\ Upgrades(n)' = Upgrades(n)
    BY <1>2 DEF Failing, ToFail, Upgrades, ChunksOf, ProvenChunks
  <2>2. CASE n # m
    <3>1. fate'[n] = fate[n] /\ receipt'[n] = receipt[n]
      BY <1>0, <1>1, <1>2, <2>0, <2>2 DEF TypeOK, NewDiscordReceipt
    <3> QED
      BY <2>0, <2>1, <3>1, FailureFrame
  <2>3. CASE n = m
    <3>1. Failing(n) = {}
      <4>1. \A t \in ChunksOf(n) : t \in Sends /\ t[1] = n
        BY <2>0 DEF Sends, ChunksOf
      <4> QED
        BY <1>1, <2>3, <4>1 DEF AccountingInv, ChunkInv, Failing
    <3>2. Upgrades(n) = 0
      <4>1. SUFFICES ASSUME todo[CoreScope] # <<>> PROVE Head(todo[CoreScope]).msg # n
        BY DEF Upgrades
      <4>2. PICK k \in WithReceipt : fate[k] = "taken" /\ todo[CoreScope] = Call("lateConfirm", k)
        BY <4>1 DEF PromiseInv, UpgradeInv
      <4>3. k # n /\ Head(todo[CoreScope]) = [op |-> "lateConfirm", msg |-> k]
        BY <1>1, <2>3, <4>2 DEF Call
      <4> QED
        BY <4>3
    <3>3. receipt'[n].failed \in Nat /\ fate'[n] = "taken"
      <4>1. receipt'[n] = [receipt[n] EXCEPT !.pending = NChunks[n]]
        BY <1>0, <1>2, <1>6, <2>3 DEF NewDiscordReceipt, TypeOK
      <4> QED
        BY <1>0, <1>1, <2>0, <2>3, <4>1 DEF Receipt, TypeOK
    <3>4. Cardinality(ToFail(n)) \in Nat /\ Cardinality(Failing(n)) = 0
      BY <2>0, <3>1, FailingFinite, PartsCount, FS_EmptySet
    <3> QED
      BY <2>1, <3>2, <3>3, <3>4 DEF FailureOf
  <2> QED
    BY <2>2, <2>3
<1> QED
  BY <1>2, <1>3, <1>5, <1>6 DEF PromiseInv, FailureInv

\* Posting a message keeps the invariant: a dropped one waits for its settle.
LEMMA PostPromise ==
    ASSUME TypeOK, AccountingInv, PromiseInv, NEW m \in Msgs, Post(m)
    PROVE  PromiseInv'
<1>1. /\ fate[m] = "new" /\ fate'[m] \in {"queued", "dropped"}
      /\ \A n \in Msgs \ {m} : fate'[n] = fate[n] /\ receipt'[n] = receipt[n]
      /\ \A a \in Actors \ {m} : todo'[a] = todo[a]
      /\ fate'[m] = "dropped" => receipt' = NewDiscordReceipt(m, 1)
  BY DEF Post, TypeOK, NewDiscordReceipt, Actors
<1>2. /\ pc' = pc /\ attempt' = attempt
      /\ rec' = rec /\ deliveries' = deliveries /\ evidence' = evidence
  BY DEF Post, chainVars, recordVars
<1>3. \A s \in Sends : todo'[s] = todo[s]
  BY <1>1, SendsFacts, NamesAssumption
<1>4. todo'[CoreScope] = todo[CoreScope]
  BY <1>1, NamesAssumption DEF Actors
<1>5. \A t \in Sends : EvidenceInv(t)'
  BY <1>2, <1>3, EvidenceFrame DEF PromiseInv
<1>6. UpgradeInv'
  BY <1>1, <1>4, ChunksAssumption DEF PromiseInv, UpgradeInv
<1>7. ASSUME NEW n \in WithReceipt PROVE FailureOf(n)'
  <2>0. n \in Msgs /\ FailureOf(n) /\ receipt[n] \in Receipt
    BY <1>7, ChunksAssumption DEF PromiseInv, FailureInv, TypeOK
  <2>1. CASE n # m
    <3>1. \A t \in ChunksOf(n) : pc'[t] = pc[t] /\ todo'[t] = todo[t]
      BY <1>2, <1>3, <2>0 DEF Sends
    <3>2. ProvenChunks' = ProvenChunks /\ Upgrades(n)' = Upgrades(n)
      BY <1>2, <1>4 DEF ProvenChunks, Upgrades
    <3> QED
      BY <1>1, <2>0, <2>1, <3>1, <3>2, CountFrame, FailureFrame
  <2>2. CASE n = m
    <3>1. fate'[m] = "dropped" => receipt'[m].pending = 1
      BY <1>1, <1>7, <2>0, <2>2 DEF NewDiscordReceipt, TypeOK, Receipt
    <3> QED
      BY <1>1, <2>2, <3>1 DEF FailureOf
  <2> QED
    BY <2>1, <2>2
<1> QED
  BY <1>2, <1>5, <1>6, <1>7 DEF PromiseInv, FailureInv

\* A step that leaves the receipts, and the calls on them, alone, ends no
\* chunk and adds nothing but evidence, keeps the count.
LEMMA OtherFailure ==
    ASSUME TypeOK, FailureInv, fate' = fate, receipt' = receipt,
           \A t \in Sends : /\ todo'[t] = todo[t]
                            /\ pc'[t] \in {"settling", "done"} => pc'[t] = pc[t],
           ProvenChunks \subseteq ProvenChunks',
           \A m \in WithReceipt : Upgrades(m)' = Upgrades(m)
    PROVE  FailureInv'
<1> SUFFICES ASSUME NEW m \in WithReceipt PROVE FailureOf(m)'
  BY DEF FailureInv
<1>1. m \in Msgs /\ FailureOf(m) /\ receipt[m] \in Receipt
  BY ChunksAssumption DEF FailureInv, TypeOK
<1>2. ChunksOf(m)' = ChunksOf(m) /\ \A t \in ChunksOf(m) : t \in Sends
  BY <1>1 DEF ChunksOf, Sends
<1>3. Failing(m)' \subseteq Failing(m) /\ ToFail(m)' = ToFail(m)
  BY <1>2 DEF Failing, ToFail
<1> QED
  BY <1>1, <1>3, FailureFrame

\* Sweeping a record keeps the invariant: its chunk has ended, or not begun.
LEMMA SweepPromise ==
    ASSUME ~SlowChains, TypeOK, AccountingInv, PromiseInv, NEW p \in Packets, Sweep(p)
    PROVE  PromiseInv'
<1>1. /\ fate' = fate /\ receipt' = receipt /\ todo' = todo
      /\ pc' = pc /\ attempt' = attempt /\ evidence' = evidence
      /\ deliveries' = deliveries \ {p} /\ rec' = [rec EXCEPT ![p] = NewRecord]
  BY DEF Sweep, queueVars, chainVars, receiptVars
<1>2. \A t \in Sends : EvidenceInv(t)'
  <2> TAKE t \in Sends
  <2>1. PacketOf[t] \in Packets /\ EvidenceInv(t)
    BY SendsFacts DEF PromiseInv
  <2>2. CASE PacketOf[t] = p
    <3>1. rec'[PacketOf[t]].lateReceipts = <<>> /\ PacketOf[t] \notin deliveries'
      BY <1>1, <2>1, <2>2 DEF TypeOK, NewRecord
    <3> QED
      BY <1>1, <2>1, <3>1 DEF EvidenceInv, Unsent, ProvenChunks
  <2>3. CASE PacketOf[t] # p
    <3>1. rec'[PacketOf[t]] = rec[PacketOf[t]]
      BY <1>1, <2>1, <2>3 DEF TypeOK
    <3> QED
      BY <1>1, <2>1, <2>3, <3>1, EvidenceFrame
  <2> QED
    BY <2>2, <2>3
<1>3. UpgradeInv'
  BY <1>1 DEF PromiseInv, UpgradeInv
<1>4. FailureInv'
  <2>1. ProvenChunks' = ProvenChunks /\ \A m \in WithReceipt : Upgrades(m)' = Upgrades(m)
    BY <1>1 DEF ProvenChunks, Upgrades
  <2> QED
    BY <1>1, <2>1, OtherFailure DEF PromiseInv
<1> QED
  BY <1>1, <1>2, <1>3, <1>4 DEF PromiseInv

\* A copy heard of chunk s, which is on the air, adds to its record what it
\* adds to the evidence.
LEMMA HeardEvidence ==
    ASSUME TypeOK, AccountingInv, NEW s \in Sends, PacketOf[s] \in deliveries, EvidenceInv(s),
           ProvenChunks \subseteq ProvenChunks',
           NEW R, NEW O,
           pc' = pc, attempt' = attempt, todo'[s] = todo[s],
           evidence' = [evidence EXCEPT ![PacketOf[s]] = Heard(@, R, O)],
           rec'[PacketOf[s]].repeaters = Heard(rec[PacketOf[s]], R, O).repeaters,
           rec'[PacketOf[s]].observers = Heard(rec[PacketOf[s]], R, O).observers,
           rec'[PacketOf[s]].lateReceipts \in {<<>>, rec[PacketOf[s]].lateReceipts}
    PROVE  EvidenceInv(s)'
<1> DEFINE p == PacketOf[s]
<1>1. p \in Packets /\ rec[p] \in Record /\ evidence[p] \in Evidence
  BY SendsFacts DEF TypeOK
<1>2. ~Unsent(s)
  BY DEF AccountingInv, ChunkInv
<1>3. /\ rec'[p].repeaters = evidence'[p].repeaters
      /\ rec'[p].observers = evidence'[p].observers
  <2>1. evidence'[p] = Heard(evidence[p], R, O)
    BY <1>1 DEF TypeOK
  <2>2. /\ evidence'[p].repeaters = evidence[p].repeaters \cup R
        /\ evidence'[p].observers = evidence[p].observers \cup O
    BY <1>1, <2>1, HeardMore
  <2>3. /\ rec'[p].repeaters = rec[p].repeaters \cup R
        /\ rec'[p].observers = rec[p].observers \cup O
    BY <1>1, HeardRecord
  <2> QED
    BY <2>2, <2>3 DEF EvidenceInv
<1>4. ~Unsent(s)'
  BY <1>2 DEF Unsent
<1>5. todo'[s] # <<>> /\ Head(todo'[s]).op = "settleTrue" => s \in ProvenChunks'
  BY DEF EvidenceInv
<1>6. /\ rec'[p].lateReceipts \in {<<>>, OwnReceipts(s)}
      /\ pc'[s] \notin {"settling", "done"} => rec'[p].lateReceipts = <<>>
  BY DEF EvidenceInv
<1> QED
  BY <1>3, <1>4, <1>5, <1>6 DEF EvidenceInv, OwnReceipts

\* A copy heard by our own radio keeps the invariant.
LEMMA OwnCopyPromise ==
    ASSUME DistinctPackets, TypeOK, AccountingInv, PromiseInv,
           NEW p \in Packets, NEW path \in SUBSET Hops, ObserveOwnCopy(p, path)
    PROVE  PromiseInv' /\ ProvenChunks \subseteq ProvenChunks'
<1>1. /\ fate' = fate /\ receipt' = receipt /\ todo' = todo
      /\ pc' = pc /\ attempt' = attempt /\ deliveries' = deliveries /\ p \in deliveries
      /\ rec' = [rec EXCEPT ![p] = Heard(@, path, {})]
      /\ evidence' = [evidence EXCEPT ![p] = Heard(@, path, {})]
  BY DEF ObserveOwnCopy, queueVars, chainVars, receiptVars
<1>2. rec[p] \in Record /\ evidence[p] \in Evidence
  BY DEF TypeOK
<1>3. ProvenChunks \subseteq ProvenChunks'
  BY <1>1, HeardGrows
<1>4. \A t \in Sends : EvidenceInv(t)'
  <2> TAKE t \in Sends
  <2>1. PacketOf[t] \in Packets /\ EvidenceInv(t)
    BY SendsFacts DEF PromiseInv
  <2>2. CASE PacketOf[t] = p
    <3>1. rec'[p] = Heard(rec[p], path, {})
      BY <1>1 DEF TypeOK
    <3>2. rec'[p].lateReceipts = rec[p].lateReceipts
      BY <1>2, <3>1, HeardRecord
    <3> QED
      BY <1>1, <1>3, <2>1, <2>2, <3>1, <3>2, HeardEvidence
  <2>3. CASE PacketOf[t] # p
    <3>1. rec'[PacketOf[t]] = rec[PacketOf[t]] /\ evidence'[PacketOf[t]] = evidence[PacketOf[t]]
      BY <1>1, <2>1, <2>3 DEF TypeOK
    <3> QED
      BY <1>1, <2>1, <3>1, EvidenceFrame
  <2> QED
    BY <2>2, <2>3
<1>5. UpgradeInv'
  BY <1>1 DEF PromiseInv, UpgradeInv
<1>6. FailureInv'
  <2>1. \A m \in WithReceipt : Upgrades(m)' = Upgrades(m)
    BY <1>1 DEF Upgrades
  <2> QED
    BY <1>1, <1>3, <2>1, OtherFailure DEF PromiseInv
<1> QED
  BY <1>1, <1>3, <1>4, <1>5, <1>6 DEF PromiseInv

\* An observation of CoreScope keeps the invariant: when it proves a chunk
\* that was reported as failed, the upgrade it leaves to be made makes up for
\* the failure that no longer is one.
LEMMA ObservationPromise ==
    ASSUME DistinctPackets, TypeOK, AccountingInv, PromiseInv,
           NEW p \in Packets, NEW path \in SUBSET Hops, NEW o \in Observers,
           HandleObservation(p, o, path)
    PROVE  PromiseInv' /\ ProvenChunks \subseteq ProvenChunks'
<1> DEFINE r == Heard(rec[p], path, {o})
           late == r.reported /\ ~Confirmed(rec[p]) /\ Confirmed(r)
<1>1. /\ fate' = fate /\ receipt' = receipt /\ pc' = pc /\ attempt' = attempt
      /\ deliveries' = deliveries /\ p \in deliveries /\ todo[CoreScope] = <<>>
      /\ rec' = [rec EXCEPT ![p] = IF late THEN [r EXCEPT !.lateReceipts = <<>>] ELSE r]
      /\ todo' = [todo EXCEPT ![CoreScope] =
             IF late THEN CallAll("lateConfirm", r.lateReceipts) ELSE <<>>]
      /\ evidence' = [evidence EXCEPT ![p] = Heard(@, path, {o})]
  BY DEF HandleObservation, Returned, queueVars, chainVars
<1>2. rec[p] \in Record /\ evidence[p] \in Evidence /\ r \in Record
  <2>1. path \in SUBSET Hops /\ {o} \in SUBSET Observers /\ rec[p] \in Record
    BY DEF TypeOK
  <2> QED
    BY <2>1, HeardType DEF TypeOK
<1>3. /\ r.repeaters = rec[p].repeaters \cup path /\ r.observers = rec[p].observers \cup {o}
      /\ r.lateReceipts = rec[p].lateReceipts
  BY <1>2, HeardRecord DEF r
<1> HIDE DEF r, late
<1>4. /\ rec'[p].repeaters = r.repeaters /\ rec'[p].observers = r.observers
      /\ rec'[p].lateReceipts \in {<<>>, rec[p].lateReceipts}
  BY <1>1, <1>2, <1>3 DEF TypeOK, Record
<1>5. ProvenChunks \subseteq ProvenChunks'
  BY <1>1, HeardGrows
<1>6. CoreScope \in Actors /\ \A t \in Sends : t \in Actors /\ todo'[t] = todo[t]
  BY <1>1, SendsFacts, NamesAssumption DEF TypeOK, Actors
<1>7. \A t \in Sends : EvidenceInv(t)'
  <2> TAKE t \in Sends
  <2>1. PacketOf[t] \in Packets /\ EvidenceInv(t)
    BY SendsFacts DEF PromiseInv
  <2>2. CASE PacketOf[t] = p
    BY <1>1, <1>4, <1>5, <1>6, <2>1, <2>2, HeardEvidence DEF r
  <2>3. CASE PacketOf[t] # p
    <3>1. rec'[PacketOf[t]] = rec[PacketOf[t]] /\ evidence'[PacketOf[t]] = evidence[PacketOf[t]]
      BY <1>1, <2>1, <2>3 DEF TypeOK
    <3> QED
      BY <1>1, <1>6, <2>1, <3>1, EvidenceFrame
  <2> QED
    BY <2>2, <2>3
<1>8. \A m \in WithReceipt : Upgrades(m) = 0
  BY <1>1 DEF Upgrades
<1>9. CASE late /\ rec[p].lateReceipts # <<>>
  <2>1. PICK s \in Sends : PacketOf[s] = p
    BY <1>1 DEF PromiseInv
  <2>2. EvidenceInv(s) /\ ChunkInv(s) /\ s[1] \in Msgs /\ s \in ChunksOf(s[1])
    BY SendsFacts DEF PromiseInv, AccountingInv
  <2>3. /\ r.lateReceipts = OwnReceipts(s) /\ s[1] \in WithReceipt
        /\ pc[s] \in {"settling", "done"} /\ fate[s[1]] = "taken"
    BY <1>3, <1>9, <2>1, <2>2 DEF EvidenceInv, ChunkInv, OwnReceipts
  <2>4. s \notin ProvenChunks
    BY <1>1, <1>2, <1>9, <2>1, <2>2, RuleConfirmed DEF EvidenceInv, ProvenChunks, late
  <2>5. s \in ProvenChunks'
    <3>1. EvidenceInv(s)' /\ p \in deliveries'
      BY <1>1, <1>7
    <3>2. evidence'[p] \in Evidence /\ r.repeaters = evidence'[p].repeaters
          /\ r.observers = evidence'[p].observers
      <4>1. evidence'[p] = Heard(evidence[p], path, {o})
        BY <1>1 DEF TypeOK
      <4>2. path \in SUBSET Hops /\ {o} \in SUBSET Observers
        OBVIOUS
      <4>3. evidence'[p] \in Evidence
        BY <1>2, <4>1, <4>2, HeardType
      <4>4. /\ evidence'[p].repeaters = evidence[p].repeaters \cup path
            /\ evidence'[p].observers = evidence[p].observers \cup {o}
        BY <1>2, <4>1, HeardMore
      <4> QED
        BY <1>1, <1>3, <2>1, <2>2, <4>3, <4>4 DEF EvidenceInv
    <3>3. RuleMet(evidence'[p])
      BY <1>2, <1>9, <3>2, RuleConfirmed DEF late
    <3> QED
      BY <2>1, <3>3 DEF ProvenChunks, RuleMet
  <2>6. todo'[CoreScope] = Call("lateConfirm", s[1])
    <3>1. todo'[CoreScope] = CallAll("lateConfirm", OwnReceipts(s))
      BY <1>1, <1>6, <1>9, <2>3 DEF TypeOK
    <3> QED
      BY <3>1, OwnCalls DEF Methods
  <2>7. UpgradeInv'
    BY <1>1, <2>3, <2>6 DEF UpgradeInv, Call
  <2>8. ASSUME NEW m \in WithReceipt PROVE FailureOf(m)'
    <3>1. m \in Msgs /\ FailureOf(m) /\ receipt[m] \in Receipt /\ receipt[m].failed \in Nat
      BY ChunksAssumption DEF PromiseInv, FailureInv, TypeOK, Receipt
    <3>2. ChunksOf(m)' = ChunksOf(m) /\ \A t \in ChunksOf(m) : t \in Sends
      BY <3>1 DEF ChunksOf, Sends
    <3>3. Failing(m)' \subseteq Failing(m) /\ ToFail(m)' = ToFail(m)
      BY <1>1, <1>5, <1>6, <3>2 DEF Failing, ToFail
    <3>4. Head(todo'[CoreScope]).msg = s[1] /\ todo'[CoreScope] # <<>>
      BY <2>3, <2>6 DEF Call
    <3>5. CASE m # s[1]
      <4>1. Upgrades(m)' = Upgrades(m)
        BY <1>8, <3>4, <3>5 DEF Upgrades
      <4> QED
        BY <1>1, <3>1, <3>3, <4>1, FailureFrame
    <3>6. CASE m = s[1]
      <4>1. Upgrades(m)' = 1 /\ Upgrades(m) = 0
        BY <1>8, <3>4, <3>6 DEF Upgrades
      <4>2. s \in Failing(m) /\ s \notin Failing(m)'
        BY <2>2, <2>3, <2>4, <2>5, <3>6 DEF Failing
      <4>3. s \notin Failing(m)' /\ Failing(m)' \cup {s} \subseteq Failing(m)
        BY <3>3, <4>2
      <4> DEFINE F == Cardinality(Failing(m))
                 G == Cardinality(Failing(m)')
                 T == Cardinality(ToFail(m))
      <4>4. F \in Nat /\ G \in Nat /\ T \in Nat /\ G + 1 <= F
        BY <3>1, <4>3, FailingFinite, PartsCount
      <4>5. /\ FailureOf(m)' <=> G + 1 <= receipt[m].failed + T
            /\ F + 0 <= receipt[m].failed + T
        BY <1>1, <2>3, <3>1, <3>3, <3>6, <4>1 DEF FailureOf
      <4> HIDE DEF F, G, T
      <4> QED
        BY <3>1, <4>4, <4>5
    <3> QED
      BY <3>5, <3>6
  <2> QED
    BY <1>1, <1>5, <1>7, <2>7, <2>8 DEF PromiseInv, FailureInv
<1>10. CASE ~(late /\ rec[p].lateReceipts # <<>>)
  <2>1. todo'[CoreScope] = <<>>
    BY <1>1, <1>3, <1>6, <1>10 DEF TypeOK, CallAll
  <2>2. UpgradeInv'
    BY <2>1 DEF UpgradeInv
  <2>3. \A m \in WithReceipt : Upgrades(m)' = Upgrades(m)
    BY <1>8, <2>1 DEF Upgrades
  <2>4. FailureInv'
    BY <1>1, <1>5, <1>6, <2>3, OtherFailure DEF PromiseInv
  <2> QED
    BY <1>1, <1>5, <1>7, <2>2, <2>4 DEF PromiseInv
<1> QED
  BY <1>9, <1>10

\* Losing or regaining the session, and Close, keep the invariant.
LEMMA ClosePromise ==
    ASSUME TypeOK, PromiseInv, SetMeshcoreSession \/ Close \/ StopTimers
    PROVE  PromiseInv'
<1>1. /\ fate' = fate /\ receipt' = receipt /\ todo' = todo /\ attempt' = attempt
      /\ rec' = rec /\ deliveries' = deliveries /\ evidence' = evidence
  BY DEF SetMeshcoreSession, Close, StopTimers, queueVars, chainVars, recordVars, receiptVars
<1>2. \A t \in Sends : pc'[t] = pc[t] \/ (pc[t] = "armed" /\ pc'[t] = "stopped")
  BY DEF SetMeshcoreSession, Close, StopTimers, chainVars
<1>3. ProvenChunks' = ProvenChunks /\ \A m \in WithReceipt : Upgrades(m)' = Upgrades(m)
  BY <1>1 DEF ProvenChunks, Upgrades
<1>4. \A t \in Sends : EvidenceInv(t)'
  BY <1>1, <1>2, <1>3 DEF PromiseInv, EvidenceInv, Unsent
<1>5. UpgradeInv'
  BY <1>1 DEF PromiseInv, UpgradeInv
<1>6. FailureInv'
  BY <1>1, <1>2, <1>3, OtherFailure DEF PromiseInv
<1> QED
  BY <1>1, <1>4, <1>5, <1>6 DEF PromiseInv

-----------------------------------------------------------------------------
(* The refinement.                                                         *)

\* Every chunk that ended without proof has been, or will be, counted as
\* failed, and no failure is forgotten before it is upgraded.
THEOREM PromiseInvariance ==
    ASSUME DistinctPackets, ~SlowChains
    PROVE  Spec => []PromiseInv
<1>1. Init => PromiseInv
  BY InitPromise
<1>2. TypeOK /\ AccountingInv /\ PromiseInv /\ [Next]_vars => PromiseInv'
  <2> SUFFICES ASSUME TypeOK, AccountingInv, PromiseInv, [Next]_vars PROVE PromiseInv'
    OBVIOUS
  <2>1. CASE Take
    BY <2>1, TakePromise
  <2>2. ASSUME NEW s \in Sends, Chain(s) PROVE PromiseInv'
    BY <2>2, ChainPromise
  <2>3. ASSUME NEW a \in Actors, ReceiptStep(a) PROVE PromiseInv'
    BY <2>3, ReceiptStepPromise
  <2>4. CASE Environment
    BY <2>4, PostPromise, SweepPromise, OwnCopyPromise, ObservationPromise, ClosePromise
       DEF Environment
  <2>5. CASE UNCHANGED vars
    <3>1. \A t \in Sends : EvidenceInv(t)'
      BY <2>5, EvidenceFrame DEF PromiseInv, vars
    <3>2. ProvenChunks' = ProvenChunks /\ \A m \in WithReceipt : Upgrades(m)' = Upgrades(m)
      BY <2>5 DEF ProvenChunks, Upgrades, vars
    <3>3. FailureInv'
      BY <2>5, <3>2, OtherFailure DEF PromiseInv, vars
    <3> QED
      BY <2>5, <3>1, <3>3 DEF PromiseInv, UpgradeInv, vars
  <2> QED
    BY <2>1, <2>2, <2>3, <2>4, <2>5 DEF Next
<1>3. Spec => []TypeOK
  BY TypeCorrectness
<1>4. Spec => []AccountingInv
  BY AccountingInvariance
<1> QED
  BY <1>1, <1>2, <1>3, <1>4, PTL DEF Spec

\* No message bears the verdict "delivered" before all its chunks are proven.
DeliveredProven ==
    \A m \in Msgs : Verdict(m) = "delivered" => ChunksOf(m) \subseteq ProvenChunks

\* With all chunks settled and none counted as failed, none ended unproven.
LEMMA DeliveredIsProven == TypeOK /\ AccountingInv /\ PromiseInv => DeliveredProven
<1> SUFFICES ASSUME TypeOK, AccountingInv, PromiseInv, NEW m \in Msgs,
                    Verdict(m) = "delivered", NEW s \in ChunksOf(m)
             PROVE  s \in ProvenChunks
  BY DEF DeliveredProven
<1>0. s \in Sends /\ s[1] = m /\ receipt[m] \in Receipt /\ receipt[m].pending \in Nat
  BY DEF Sends, ChunksOf, TypeOK, Receipt
<1>1. /\ m \in WithReceipt /\ fate[m] \in {"taken", "dropped"}
      /\ receipt[m].pending = 0 /\ receipt[m].failed = 0
  BY <1>0 DEF Verdict
<1>2. FailureOf(m) /\ fate[m] = "taken"
  BY <1>1 DEF PromiseInv, FailureInv, FailureOf
<1>3. \A t \in ChunksOf(m) : HasSettled(t)
  <2>1. Cardinality(Unsettled(m)) = 0
    BY <1>1, <1>2 DEF AccountingInv, ReceiptAccounting
  <2>2. Unsettled(m) = {}
    BY <2>1, UnsettledFinite, FS_EmptySet
  <2> QED
    BY <2>2 DEF Unsettled
<1>4. \A t \in ChunksOf(m) : todo[t] = <<>> /\ pc[t] \in {"settling", "done"}
  <2>1. \A t \in ChunksOf(m) : t \in Sends
    BY DEF Sends
  <2> QED
    BY <1>3, <2>1 DEF HasSettled, AccountingInv, ChunkInv
<1>5. ToFail(m) = {}
  BY <1>4 DEF ToFail
<1>6. Cardinality(Failing(m)) = 0
  <2> DEFINE F == Cardinality(Failing(m))
             u == Upgrades(m)
  <2>1. F \in Nat /\ u \in Nat /\ Cardinality(ToFail(m)) = 0
    BY <1>5, FailingFinite, PartsCount, FS_EmptySet DEF Upgrades
  <2>2. F + u <= 0 + 0
    BY <1>1, <1>2, <2>1 DEF FailureOf
  <2> HIDE DEF F, u
  <2>3. F = 0
    BY <2>1, <2>2
  <2> QED
    BY <2>3 DEF F
<1>7. Failing(m) = {}
  BY <1>6, FailingFinite, FS_EmptySet
<1> QED
  BY <1>0, <1>4, <1>7 DEF Failing

\* Steps that leave messages and counters alone leave the verdicts alone.
LEMMA VerdictFrame ==
    ASSUME NEW m \in Msgs, fate'[m] = fate[m],
           receipt'[m].pending = receipt[m].pending, receipt'[m].failed = receipt[m].failed
    PROVE  Verdict(m)' = Verdict(m)
BY DEF Verdict

\* How the methods of a receipt move the verdict on its message.
LEMMA VerdictMoves ==
    ASSUME TypeOK, AccountingInv, PromiseInv, NEW a \in Actors, ReceiptStep(a)
    PROVE  \/ \A n \in Msgs : Verdict(n)' = Verdict(n)
           \/ \E m \in Msgs :
                /\ \A n \in Msgs \ {m} : Verdict(n)' = Verdict(n)
                /\ \/ Verdict(m) = "none" /\ Verdict(m)' \in {"delivered", "unconfirmed"}
                   \/ Verdict(m) = "unconfirmed" /\ Verdict(m)' = "delivered"
<1>1. fate' = fate
  BY ReceiptStepFrame DEF queueVars
<1>2. CASE MakeRequest(a) /\ receipt' = receipt
  BY <1>1, <1>2, VerdictFrame
<1>3. CASE /\ todo[a] # <<>> /\ todo'[a] = Tail(todo[a])
           /\ \A n \in Msgs \ {Head(todo[a]).msg} : receipt'[n] = receipt[n]
  <2>1. PICK m \in Msgs : m = Head(todo[a]).msg
    BY <1>3, Callers DEF PromiseInv
  <2>2. \A n \in Msgs \ {m} : Verdict(n)' = Verdict(n)
    <3>1. \A n \in Msgs \ {m} : receipt'[n] = receipt[n] /\ fate'[n] = fate[n]
      BY <1>1, <1>3, <2>1
    <3> QED
      BY <3>1, VerdictFrame
  <2>3. receipt[m].pending \in Nat /\ receipt[m].failed \in Nat
    BY <1>3, <2>1, Counters
  <2>4. CASE MarkAccepted(a)
    <3>1. receipt'[m].pending = receipt[m].pending /\ receipt'[m].failed = receipt[m].failed
      BY <1>3, <2>1, <2>4, Counters
    <3> QED
      BY <1>1, <2>1, <2>2, <3>1, VerdictFrame
  <2>5. CASE Settle(a) /\ receipt[m].pending = 0
    <3>1. receipt'[m] = receipt[m]
      BY <1>3, <2>1, <2>5, Counters
    <3> QED
      BY <1>1, <2>1, <2>2, <3>1, VerdictFrame
  <2>6. CASE Settle(a) /\ receipt[m].pending # 0
    <3>1. Verdict(m) = "none"
      BY <2>3, <2>6 DEF Verdict
    <3>2. Verdict(m)' \in {"none", "delivered", "unconfirmed"}
      BY DEF Verdict
    <3> QED
      BY <2>1, <2>2, <3>1, <3>2
  <2>7. CASE LateConfirm(a)
    <3>1. /\ receipt'[m].pending = receipt[m].pending
          /\ receipt'[m].failed = IF receipt[m].failed = 0 THEN 0 ELSE receipt[m].failed - 1
      BY <1>3, <2>1, <2>7, Counters
    <3>2. CASE receipt[m].failed = 0
      BY <1>1, <2>1, <2>2, <3>1, <3>2, VerdictFrame
    <3>3. CASE receipt[m].failed # 0
      <4>1. \/ Verdict(m) = "none" /\ Verdict(m)' = "none"
            \/ Verdict(m) = "unconfirmed" /\ Verdict(m)' \in {"unconfirmed", "delivered"}
        BY <1>1, <2>3, <3>1, <3>3 DEF Verdict
      <4> QED
        BY <2>1, <2>2, <4>1
    <3> QED
      BY <3>2, <3>3
  <2>8. CASE MakeRequest(a)
    <3>1. receipt' = receipt
      BY <2>8 DEF MakeRequest
    <3> QED
      BY <1>1, <3>1, VerdictFrame
  <2> QED
    BY <2>4, <2>5, <2>6, <2>7, <2>8 DEF ReceiptStep
<1> QED
  BY <1>2, <1>3, ReceiptStepFrame

\* Queueing, taking and dropping a message give no verdict on it, and
\* neither does anything else but the methods of its receipt.
LEMMA VerdictStays ==
    ASSUME TypeOK, AccountingInv, NEW m \in Msgs, Take \/ Environment
    PROVE  Verdict(m)' = Verdict(m)
<1>0. receipt[m] \in Receipt
  BY DEF TypeOK
<1>1. CASE Take
  <2> DEFINE k == Head(relayQ)
  <2>1. /\ k \in Msgs /\ k = relayQ[1] /\ Len(relayQ) \in Nat \ {0}
        /\ fate' = [fate EXCEPT ![k] = "taken"] /\ receipt' = NewDiscordReceipt(k, NChunks[k])
    BY <1>1 DEF TypeOK, Take
  <2>2. fate[k] = "queued" /\ NChunks[k] \in Nat \ {0}
    BY <2>1, ChunksAssumption DEF AccountingInv, QueueInv
  <2> HIDE DEF k
  <2>3. CASE m # k
    BY <2>1, <2>3, VerdictFrame DEF TypeOK, NewDiscordReceipt
  <2>4. CASE m = k /\ m \in WithReceipt
    <3>1. receipt'[m] = [receipt[m] EXCEPT !.pending = NChunks[m]]
      BY <2>1, <2>4 DEF TypeOK, NewDiscordReceipt
    <3>2. receipt'[m].pending > 0
      BY <1>0, <2>2, <2>4, <3>1 DEF Receipt
    <3> QED
      BY <2>2, <2>4, <3>2 DEF Verdict
  <2>5. CASE m = k /\ m \notin WithReceipt
    BY <2>5 DEF Verdict
  <2> QED
    BY <2>3, <2>4, <2>5
<1>2. ASSUME NEW k \in Msgs, Post(k) PROVE Verdict(m)' = Verdict(m)
  <2>1. /\ fate[k] = "new" /\ fate'[k] \in {"queued", "dropped"}
        /\ \A n \in Msgs \ {k} : fate'[n] = fate[n] /\ receipt'[n] = receipt[n]
        /\ fate'[k] = "dropped" => receipt' = NewDiscordReceipt(k, 1)
    BY <1>2 DEF Post, TypeOK, NewDiscordReceipt
  <2>2. CASE m # k
    BY <2>1, <2>2, VerdictFrame
  <2>3. CASE m = k /\ m \in WithReceipt
    <3>1. fate'[m] = "dropped" => receipt'[m].pending = 1
      BY <1>0, <2>1, <2>3 DEF NewDiscordReceipt, TypeOK, Receipt
    <3> QED
      BY <2>1, <2>3, <3>1 DEF Verdict
  <2>4. CASE m = k /\ m \notin WithReceipt
    BY <2>4 DEF Verdict
  <2> QED
    BY <2>2, <2>3, <2>4
<1>3. CASE fate' = fate /\ receipt' = receipt
  BY <1>3, VerdictFrame
<1> QED
  BY <1>1, <1>2, <1>3
     DEF Environment, Sweep, ObserveOwnCopy, HandleObservation, SetMeshcoreSession, Close,
          StopTimers,
         queueVars, receiptVars

\* A step of the environment proves no chunk less.
LEMMA EnvironmentProves ==
    ASSUME DistinctPackets, TypeOK, AccountingInv, PromiseInv, Take \/ Environment
    PROVE  ProvenChunks \subseteq ProvenChunks'
<1>1. CASE evidence' = evidence
  BY <1>1 DEF ProvenChunks
<1>2. ASSUME NEW p \in Packets, NEW path \in SUBSET Hops, ObserveOwnCopy(p, path)
      PROVE  ProvenChunks \subseteq ProvenChunks'
  BY <1>2, OwnCopyPromise
<1>3. ASSUME NEW p \in Packets, NEW path \in SUBSET Hops, NEW o \in Observers,
             HandleObservation(p, o, path)
      PROVE  ProvenChunks \subseteq ProvenChunks'
  BY <1>3, ObservationPromise
<1> QED
  BY <1>1, <1>2, <1>3
     DEF Environment, Take, Post, Sweep, SetMeshcoreSession, Close, StopTimers, recordVars

\* The receipts implement the verdicts that delivery reactions promise: for
\* every message, chunking, delivery rule and number of retries, "delivered"
\* is given only once every chunk has been proven to be heard and is never
\* taken back, and "unconfirmed" gives way to nothing but "delivered".
THEOREM ReceiptsKeepPromise ==
    ASSUME DistinctPackets, ~SlowChains
    PROVE  Spec => KeepsPromise
<1>1. Init => Promise!Init
  <2> SUFFICES ASSUME Init PROVE Promise!Init
    OBVIOUS
  <2>1. \A s \in Sends : evidence[PacketOf[s]] = NoEvidence
    BY SendsFacts DEF Init
  <2>2. {s \in Sends : RuleMet(evidence[PacketOf[s]])} = {}
    BY <2>1, NothingProven
  <2>3. \A m \in Msgs : Verdict(m) = "none"
    BY DEF Init, Verdict
  <2> QED
    BY <2>2, <2>3 DEF Promise!Init, ProvenChunks
<1>2. /\ TypeOK /\ AccountingInv /\ PromiseInv /\ DeliveredProven /\ DeliveredProven'
      /\ [Next]_vars
      => [Promise!Next]_(Promise!vars)
  <2> SUFFICES ASSUME TypeOK, AccountingInv, PromiseInv, DeliveredProven', [Next]_vars
               PROVE  [Promise!Next]_(Promise!vars)
    OBVIOUS
  <2> DEFINE verdict == [m \in Msgs |-> Verdict(m)]
  <2>1. CASE ProvenChunks' = ProvenChunks /\ \A m \in Msgs : Verdict(m)' = Verdict(m)
    BY <2>1 DEF Promise!vars, ProvenChunks
  <2>2. CASE Take \/ Environment
    <3>1. /\ ProvenChunks \subseteq ProvenChunks' /\ ProvenChunks' \subseteq Sends
          /\ verdict' = verdict
      BY <2>2, VerdictStays, EnvironmentProves DEF ProvenChunks
    <3>2. Promise!Prove
      BY <3>1 DEF Promise!Prove, ProvenChunks, Sends
    <3> QED
      BY <3>2 DEF Promise!Next
  <2>3. ASSUME NEW s \in Sends, Chain(s)
        PROVE  ProvenChunks' = ProvenChunks /\ \A m \in Msgs : Verdict(m)' = Verdict(m)
    BY <2>3, ChainFrame, ChainEvidence, VerdictFrame DEF ProvenChunks
  <2>4. ASSUME NEW a \in Actors, ReceiptStep(a)
        PROVE  [Promise!Next]_(Promise!vars)
    <3>1. ProvenChunks' = ProvenChunks
      BY <2>4, ReceiptStepFrame DEF recordVars, ProvenChunks
    <3>2. CASE \A n \in Msgs : Verdict(n)' = Verdict(n)
      BY <2>1, <3>1, <3>2
    <3>3. ASSUME NEW m \in Msgs,
                 \A n \in Msgs \ {m} : Verdict(n)' = Verdict(n),
                 \/ Verdict(m) = "none" /\ Verdict(m)' \in {"delivered", "unconfirmed"}
                 \/ Verdict(m) = "unconfirmed" /\ Verdict(m)' = "delivered"
          PROVE  Promise!Next
      <4>1. /\ verdict' = [verdict EXCEPT ![m] = Verdict(m)'] /\ verdict[m] = Verdict(m)
        BY <3>3
      <4>2. Verdict(m)' = "delivered" => ChunksOf(m) \subseteq ProvenChunks
        <5>1. ChunksOf(m)' = ChunksOf(m)
          BY DEF ChunksOf
        <5> QED
          BY <3>1, <5>1 DEF DeliveredProven
      <4>3. Promise!Deliver(m) \/ Promise!GiveUp(m)
        BY <3>1, <3>3, <4>1, <4>2 DEF Promise!Deliver, Promise!GiveUp, ProvenChunks
      <4> QED
        BY <4>3 DEF Promise!Next
    <3> QED
      BY <2>4, <3>2, <3>3, VerdictMoves
  <2>5. CASE UNCHANGED vars
    <3>1. ProvenChunks' = ProvenChunks /\ \A m \in Msgs : Verdict(m)' = Verdict(m)
      BY <2>5, VerdictFrame DEF vars, ProvenChunks
    <3> QED
      BY <2>1, <3>1
  <2> QED
    BY <2>1, <2>2, <2>3, <2>4, <2>5 DEF Next
<1>3. TypeOK /\ AccountingInv /\ PromiseInv => DeliveredProven
  BY DeliveredIsProven
<1>4. Spec => []TypeOK
  BY TypeCorrectness
<1>5. Spec => []AccountingInv
  BY AccountingInvariance
<1>6. Spec => []PromiseInv
  BY PromiseInvariance
<1> QED
  BY <1>1, <1>2, <1>3, <1>4, <1>5, <1>6, PTL DEF Spec, KeepsPromise, Promise!Spec

-----------------------------------------------------------------------------
(* The final reaction.  A request may fail, and those of two goroutines    *)
(* may overtake each other: so the invariant says of each reaction what    *)
(* has to have been asked of Discord before it can stand, or be missing.   *)

\* The requests goroutine a has yet to make, and whether anyone has q to make.
Requested(rs) == {rs[i] : i \in DOMAIN rs}
Asks(a) == Requested(http[a])
Asked(q) == \E a \in Actors : q \in Asks(a)

\* A dropped message is settled once its handler has nothing left to call.
DroppedInv ==
    \A m \in WithReceipt : fate[m] = "dropped" =>
        receipt[m].pending = IF todo[m] = <<>> THEN 0 ELSE 1

\* The accepted reaction is asked for by a chunk just sent and remembered by
\* the receipt, so that a verdict comes with the request that removes it.
AcceptedInv(m) ==
    /\ \A a \in Actors : React(m, "accepted") \in Asks(a) =>
          a \in ChunksOf(m) /\ pc[a] = "sent" /\ receipt[m].accepted
    /\ "accepted" \in shown[m] =>
          /\ receipt[m].accepted
          /\ \/ Verdict(m) = "none"
             \/ Asked(Unreact(m, "accepted"))
             \/ Unreact(m, "accepted") \in lost

\* "delivered" is asked for, and "unconfirmed" taken back, on that verdict
\* alone; and nobody takes "delivered" back.
DeliveredInv(m) ==
    /\ \/ "delivered" \in shown[m]
       \/ Asked(React(m, "delivered"))
       \/ Asked(Unreact(m, "unconfirmed"))
       => Verdict(m) = "delivered"
    /\ ~Asked(Unreact(m, "delivered"))

\* "unconfirmed" outlives its verdict only with its removal asked for.
UnconfirmedInv(m) ==
    "unconfirmed" \in shown[m] \/ Asked(React(m, "unconfirmed")) =>
        \/ Verdict(m) = "unconfirmed"
        \/ /\ Verdict(m) = "delivered"
           /\ Asked(Unreact(m, "unconfirmed")) \/ Unreact(m, "unconfirmed") \in made

\* A verdict is shown, or about to be, or Discord refused to show it.
VerdictInv(m) ==
    \A v \in {"delivered", "unconfirmed"} : Verdict(m) = v =>
        v \in shown[m] \/ Asked(React(m, v)) \/ React(m, v) \in lost

ReactionOf(m) ==
    AcceptedInv(m) /\ DeliveredInv(m) /\ UnconfirmedInv(m) /\ VerdictInv(m)
ReactionInv == DroppedInv /\ \A m \in WithReceipt : ReactionOf(m)

\* The first request of a sequence, and the others.
LEMMA RequestedFacts ==
    /\ Requested(<<>>) = {}
    /\ \A rs \in Seq(Request) : rs # <<>> => Requested(rs) = {Head(rs)} \cup Requested(Tail(rs))
    /\ \A x, y \in Request : Requested(<<x>>) = {x} /\ Requested(<<x, y>>) = {x, y}
               /\ <<x>> \o <<y>> = <<x, y>> /\ <<x>> \o <<>> = <<x>>
<1>1. Requested(<<>>) = {}
  BY DEF Requested
<1>2. ASSUME NEW rs \in Seq(Request), rs # <<>>
      PROVE  Requested(rs) = {Head(rs)} \cup Requested(Tail(rs))
  <2>1. /\ Len(rs) \in Nat \ {0} /\ DOMAIN rs = 1..Len(rs) /\ Head(rs) = rs[1]
        /\ DOMAIN Tail(rs) = 1..(Len(rs) - 1)
        /\ \A i \in 1..(Len(rs) - 1) : Tail(rs)[i] = rs[i + 1]
    BY <1>2
  <2>2. ASSUME NEW i \in 1..Len(rs) PROVE rs[i] \in {Head(rs)} \cup Requested(Tail(rs))
    <3>1. CASE i = 1
      BY <2>1, <3>1
    <3>2. CASE i # 1
      <4>1. i - 1 \in 1..(Len(rs) - 1) /\ rs[i] = Tail(rs)[i - 1]
        BY <2>1, <2>2, <3>2
      <4> QED
        BY <2>1, <4>1 DEF Requested
    <3> QED
      BY <3>1, <3>2
  <2>3. ASSUME NEW i \in 1..(Len(rs) - 1) PROVE Tail(rs)[i] \in Requested(rs)
    <3>1. i + 1 \in 1..Len(rs)
      BY <2>1, <2>3
    <3> QED
      BY <2>1, <2>3, <3>1 DEF Requested
  <2>4. Head(rs) \in Requested(rs)
    BY <2>1 DEF Requested
  <2> QED
    BY <2>1, <2>2, <2>3, <2>4 DEF Requested
<1>3. ASSUME NEW x \in Request, NEW y \in Request
      PROVE  Requested(<<x>>) = {x} /\ Requested(<<x, y>>) = {x, y}
  BY DEF Requested
<1>4. ASSUME NEW x \in Request, NEW y \in Request
      PROVE  <<x>> \o <<y>> = <<x, y>> /\ <<x>> \o <<>> = <<x>>
  <2> DEFINE s == <<x>> \o <<y>>
  <2>1. s \in Seq(Request) /\ Len(s) = 2 /\ s[1] = x /\ s[2] = y
    OBVIOUS
  <2> HIDE DEF s
  <2>2. s = <<x, y>>
    BY <2>1
  <2> QED
    BY <2>2 DEF s
<1> QED
  BY <1>1, <1>2, <1>3, <1>4

\* Requests about different messages, reactions or directions differ.
LEMMA RequestsDiffer ==
    ASSUME NEW m \in Msgs, NEW n \in Msgs, NEW d \in Emojis, NEW e \in Emojis
    PROVE  /\ React(m, d) = React(n, e) <=> m = n /\ d = e
           /\ Unreact(m, d) = Unreact(n, e) <=> m = n /\ d = e
           /\ React(m, d) # Unreact(n, e)
           /\ React(m, d).msg = m /\ Unreact(m, d).msg = m
  BY DEF React, Unreact

\* What the last settle asks for.
LEMMA FinalRequests ==
    ASSUME NEW m \in Msgs, NEW r \in Receipt
    PROVE  LET v == IF r.failed = 0 THEN "delivered" ELSE "unconfirmed"
           IN Requested(FinalReactions(m, r)) =
                {React(m, v)} \cup IF r.accepted THEN {Unreact(m, "accepted")} ELSE {}
<1> DEFINE v == IF r.failed = 0 THEN "delivered" ELSE "unconfirmed"
<1>1. v \in Emojis /\ "accepted" \in Emojis
  BY DEF Emojis
<1>2. FinalReactions(m, r) = <<React(m, v)>> \o IF r.accepted THEN <<Unreact(m, "accepted")>>
                                                               ELSE <<>>
  BY DEF FinalReactions
<1> HIDE DEF v
<1>3. React(m, v) \in Request /\ Unreact(m, "accepted") \in Request
  BY <1>1, RequestTypes
<1>4. CASE r.accepted
  <2>1. FinalReactions(m, r) = <<React(m, v), Unreact(m, "accepted")>>
    BY <1>2, <1>3, <1>4, RequestedFacts
  <2>2. Requested(FinalReactions(m, r)) = {React(m, v), Unreact(m, "accepted")}
    BY <1>3, <2>1, RequestedFacts
  <2> QED
    BY <1>4, <2>2 DEF v
<1>5. CASE ~r.accepted
  <2>1. FinalReactions(m, r) = <<React(m, v)>>
    BY <1>2, <1>3, <1>5, RequestedFacts
  <2>2. Requested(FinalReactions(m, r)) = {React(m, v)}
    BY <1>3, <2>1, RequestedFacts
  <2> QED
    BY <1>5, <2>2 DEF v
<1> QED
  BY <1>4, <1>5

\* A message with a chunk that was just sent has no verdict yet.
LEMMA SentOpen ==
    ASSUME TypeOK, AccountingInv, NEW m \in WithReceipt, NEW b \in ChunksOf(m), pc[b] = "sent"
    PROVE  Verdict(m) = "none"
<1>1. m \in Msgs /\ b \in Sends /\ b[1] = m /\ receipt[m] \in Receipt
  BY ChunksAssumption DEF Sends, ChunksOf, TypeOK
<1>2. fate[m] = "taken" /\ ~HasSettled(b)
  BY <1>1 DEF AccountingInv, ChunkInv, HasSettled
<1>3. receipt[m].pending # 0
  BY <1>1, <1>2, SettlesPending
<1> QED
  BY <1>1, <1>3 DEF Verdict, Receipt

\* Steps that leave a message's verdict, reactions and requests alone keep
\* what is said of them, unless a chunk moves on with a request to make.
LEMMA ReactionFrame ==
    ASSUME NEW m \in Msgs, ReactionOf(m), Verdict(m)' = Verdict(m), shown'[m] = shown[m],
           receipt'[m].accepted = receipt[m].accepted, lost \subseteq lost', made \subseteq made',
           \A a \in Actors : \A e \in Emojis :
                /\ React(m, e) \in Asks(a)' <=> React(m, e) \in Asks(a)
                /\ Unreact(m, e) \in Asks(a)' <=> Unreact(m, e) \in Asks(a),
           \A a \in ChunksOf(m) : Asks(a) # {} /\ pc[a] = "sent" => pc'[a] = "sent"
    PROVE  ReactionOf(m)'
<1>1. ChunksOf(m)' = ChunksOf(m) /\ \A e : React(m, e)' = React(m, e) /\ Unreact(m, e)' = Unreact(m, e)
  BY DEF ChunksOf, React, Unreact
<1>2. \A e \in Emojis : /\ Asked(React(m, e))' <=> Asked(React(m, e))
                        /\ Asked(Unreact(m, e))' <=> Asked(Unreact(m, e))
  BY DEF Asked, React, Unreact
<1>3. "accepted" \in Emojis /\ "delivered" \in Emojis /\ "unconfirmed" \in Emojis
  BY DEF Emojis
<1>4. AcceptedInv(m)'
  BY <1>1, <1>2, <1>3 DEF ReactionOf, AcceptedInv
<1>5. DeliveredInv(m)'
  BY <1>2, <1>3 DEF ReactionOf, DeliveredInv
<1>6. UnconfirmedInv(m)'
  BY <1>1, <1>2, <1>3 DEF ReactionOf, UnconfirmedInv
<1>7. VerdictInv(m)'
  BY <1>1, <1>2, <1>3 DEF ReactionOf, VerdictInv
<1> QED
  BY <1>4, <1>5, <1>6, <1>7 DEF ReactionOf

\* Nothing is asked of Discord at first.
LEMMA InitReaction == Init => ReactionInv
<1> SUFFICES ASSUME Init PROVE ReactionInv
  OBVIOUS
<1>1. \A q : ~Asked(q)
  BY RequestedFacts DEF Init, Asked, Asks
<1>2. DroppedInv
  BY ChunksAssumption DEF Init, DroppedInv
<1>3. ASSUME NEW m \in WithReceipt PROVE ReactionOf(m)
  <2>1. m \in Msgs
    BY <1>3, ChunksAssumption
  <2>2. Verdict(m) = "none" /\ shown[m] = {}
    BY <2>1 DEF Init, Verdict
  <2>3. AcceptedInv(m)
    BY <1>1, <2>2 DEF AcceptedInv, Asked
  <2> QED
    BY <1>1, <2>2, <2>3 DEF ReactionOf, DeliveredInv, UnconfirmedInv, VerdictInv
<1> QED
  BY <1>2, <1>3 DEF ReactionInv

-----------------------------------------------------------------------------
(* The steps.                                                              *)

\* The steps of a chunk, of the queue and of the environment make no request,
\* and a chunk does not move on before its own are made.
LEMMA OtherReaction ==
    ASSUME TypeOK, AccountingInv, ReactionInv,
           Take \/ Environment \/ \E s \in Sends : Chain(s)
    PROVE  ReactionInv'
<1>1. http' = http /\ shown' = shown /\ lost' = lost /\ made' = made
  BY DEF Take, Environment, Post, Sweep, ObserveOwnCopy, HandleObservation, SetMeshcoreSession,
         Close, StopTimers, Chain, StartChunk, AbandonUnsent, AbandonRetry, AwaitAir, Track,
         SendAccepted, SendFailed, Arm, Fire, Callback, Check, Report, Finish, receiptVars,
         discordVars
<1>2. \A a \in Sends : Asks(a) # {} /\ pc[a] = "sent" => pc'[a] = "sent"
  <2>1. CASE Take \/ Environment
    BY <2>1 DEF Take, Environment, Post, Sweep, ObserveOwnCopy, HandleObservation,
                SetMeshcoreSession, Close, StopTimers, chainVars
  <2>2. ASSUME NEW s \in Sends, Chain(s), NEW a \in Sends, Asks(a) # {}, pc[a] = "sent"
        PROVE  pc'[a] = "sent"
    <3>1. CASE a # s
      BY <2>2, <3>1, ChainFrame
    <3>2. CASE a = s
      <4>1. http[s] # <<>>
        BY <2>2, <3>2, RequestedFacts DEF Asks
      <4> QED
        BY <2>2, <3>2, <4>1 DEF Chain, StartChunk, AbandonUnsent, AbandonRetry, AwaitAir, Track,
           SendAccepted, SendFailed, Arm, Fire, Callback, Check, Report, Finish, Returned
    <3> QED
      BY <3>1, <3>2
  <2> QED
    BY <2>1, <2>2
<1>3. \A m \in Msgs : Verdict(m)' = Verdict(m) /\ receipt'[m].accepted = receipt[m].accepted
  <2> TAKE m \in Msgs
  <2>0. receipt[m] \in Receipt
    BY DEF TypeOK
  <2>1. CASE Take \/ Environment
    <3>1. Verdict(m)' = Verdict(m)
      BY <2>1, VerdictStays
    <3>2. \/ receipt' = receipt
          \/ \E k \in Msgs, n \in Nat : receipt' = NewDiscordReceipt(k, n)
      <4>1. CASE Take
        <5> DEFINE k == Head(relayQ)
        <5>1. k \in Msgs /\ receipt' = NewDiscordReceipt(k, NChunks[k])
          BY <4>1 DEF TypeOK, Take
        <5>2. NChunks[k] \in Nat
          BY <5>1, ChunksAssumption
        <5> HIDE DEF k
        <5> QED
          BY <5>1, <5>2
      <4>2. CASE Environment
        BY <4>2 DEF Environment, Post, Sweep, ObserveOwnCopy, HandleObservation,
                    SetMeshcoreSession, Close, StopTimers, receiptVars
      <4> QED
        BY <2>1, <4>1, <4>2
    <3>3. \/ receipt'[m] = receipt[m]
          \/ \E n \in Nat : receipt'[m] = [receipt[m] EXCEPT !.pending = n]
      BY <3>2 DEF NewDiscordReceipt, TypeOK
    <3> QED
      BY <2>0, <3>1, <3>3 DEF Receipt
  <2>2. CASE \E s \in Sends : Chain(s)
    BY <2>2, ChainFrame, VerdictFrame
  <2> QED
    BY <2>1, <2>2
<1>4. DroppedInv'
  <2>0. \A m \in Msgs : m \in Actors /\ m \notin Sends /\ m # CoreScope
    BY NamesAssumption DEF Actors
  <2> SUFFICES ASSUME NEW m \in WithReceipt, fate'[m] = "dropped"
               PROVE  receipt'[m].pending = IF todo'[m] = <<>> THEN 0 ELSE 1
    BY DEF DroppedInv
  <2>1. m \in Msgs /\ receipt[m] \in Receipt
    BY ChunksAssumption DEF TypeOK
  <2>2. CASE fate'[m] = fate[m] /\ receipt'[m] = receipt[m] /\ todo'[m] = todo[m]
    BY <2>2 DEF ReactionInv, DroppedInv
  <2>3. ASSUME NEW s \in Sends, Chain(s)
        PROVE  fate'[m] = fate[m] /\ receipt'[m] = receipt[m] /\ todo'[m] = todo[m]
    BY <2>0, <2>1, <2>3, ChainFrame
  <2>4. CASE Take
    <3> DEFINE k == Head(relayQ)
    <3>1. /\ k \in Msgs /\ todo' = todo /\ fate' = [fate EXCEPT ![k] = "taken"]
          /\ receipt' = NewDiscordReceipt(k, NChunks[k])
      BY <2>4 DEF TypeOK, Take
    <3> HIDE DEF k
    <3> QED
      BY <2>1, <2>2, <3>1 DEF NewDiscordReceipt, TypeOK
  <2>5. ASSUME NEW k \in Msgs, Post(k)
        PROVE  receipt'[m].pending = IF todo'[m] = <<>> THEN 0 ELSE 1
    <3>1. CASE k # m
      <4>1. fate'[m] = fate[m] /\ receipt'[m] = receipt[m] /\ todo'[m] = todo[m]
        BY <2>0, <2>1, <2>5, <3>1 DEF Post, TypeOK, NewDiscordReceipt
      <4> QED
        BY <2>2, <4>1
    <3>2. CASE k = m
      <4>1. receipt' = NewDiscordReceipt(m, 1) /\ todo'[m] = Call("settleFalse", m)
        BY <2>0, <2>1, <2>5, <3>2 DEF Post, TypeOK
      <4> QED
        BY <2>1, <4>1 DEF NewDiscordReceipt, TypeOK, Receipt, Call
    <3> QED
      BY <3>1, <3>2
  <2>6. ASSUME NEW p \in Packets, NEW path \in SUBSET Hops, NEW o \in Observers,
               HandleObservation(p, o, path)
        PROVE  fate'[m] = fate[m] /\ receipt'[m] = receipt[m] /\ todo'[m] = todo[m]
    BY <2>0, <2>1, <2>6 DEF HandleObservation, TypeOK, queueVars
  <2>7. CASE fate' = fate /\ receipt' = receipt /\ todo' = todo
    BY <2>2, <2>7
  <2> QED
    BY <2>2, <2>3, <2>4, <2>5, <2>6, <2>7
       DEF Environment, Sweep, ObserveOwnCopy, SetMeshcoreSession, Close, StopTimers,
           queueVars, receiptVars
<1>5. ASSUME NEW m \in WithReceipt PROVE ReactionOf(m)'
  <2>1. m \in Msgs /\ ReactionOf(m)
    BY ChunksAssumption DEF ReactionInv
  <2>2. \A a \in ChunksOf(m) : a \in Sends
    BY <2>1 DEF Sends
  <2>3. \A a \in Actors : Asks(a)' = Asks(a)
    BY <1>1 DEF Asks
  <2> QED
    BY <1>1, <1>2, <1>3, <2>1, <2>2, <2>3, ReactionFrame DEF React, Unreact
<1> QED
  BY <1>4, <1>5 DEF ReactionInv

\* A request that returns was asked for; it takes effect or is lost.
LEMMA RequestStep ==
    ASSUME TypeOK, NEW a \in Actors, MakeRequest(a)
    PROVE  \E q \in Request :
             /\ Asks(a) = {q} \cup Asks(a)' /\ made' = made \cup {q}
             /\ \A b \in Actors \ {a} : Asks(b)' = Asks(b)
             /\ \A n \in Msgs \ {q.msg} : shown'[n] = shown[n]
             /\ \/ lost' = lost \cup {q} /\ shown' = shown
                \/ /\ lost' = lost /\ q.msg \in Msgs
                   /\ shown'[q.msg] = IF q.op = "React" THEN shown[q.msg] \cup {q.emoji}
                                                        ELSE shown[q.msg] \ {q.emoji}
             /\ pc' = pc /\ receipt' = receipt /\ fate' = fate /\ todo' = todo
<1> DEFINE q == Head(http[a])
<1>1. http[a] \in Seq(Request) /\ http[a] # <<>> /\ q \in Request
  BY DEF MakeRequest, TypeOK
<1>2. q.msg \in Msgs
  BY <1>1 DEF Request
<1>3. Asks(a) = {q} \cup Asks(a)' /\ \A b \in Actors \ {a} : Asks(b)' = Asks(b)
  <2>1. http'[a] = Tail(http[a]) /\ \A b \in Actors \ {a} : http'[b] = http[b]
    BY DEF MakeRequest, TypeOK
  <2> QED
    BY <1>1, <2>1, RequestedFacts DEF Asks
<1>4. /\ pc' = pc /\ receipt' = receipt /\ fate' = fate /\ todo' = todo
      /\ made' = made \cup {q}
      /\ \/ lost' = lost \cup {q} /\ shown' = shown
         \/ /\ lost' = lost
            /\ shown' = [shown EXCEPT ![q.msg] =
                  IF q.op = "React" THEN @ \cup {q.emoji} ELSE @ \ {q.emoji}]
  BY DEF MakeRequest, chainVars, queueVars
<1> HIDE DEF q
<1>5. /\ \A n \in Msgs \ {q.msg} : shown'[n] = shown[n]
      /\ \/ lost' = lost \cup {q} /\ shown' = shown
         \/ /\ lost' = lost
            /\ shown'[q.msg] = IF q.op = "React" THEN shown[q.msg] \cup {q.emoji}
                                                 ELSE shown[q.msg] \ {q.emoji}
  BY <1>2, <1>4 DEF TypeOK
<1> QED
  BY <1>1, <1>2, <1>3, <1>4, <1>5

\* A request that returns keeps what is said of every message.
LEMMA RequestReaction ==
    ASSUME TypeOK, AccountingInv, NEW m \in WithReceipt, ReactionOf(m),
           NEW a \in Actors, MakeRequest(a)
    PROVE  ReactionOf(m)'
<1>0. m \in Msgs
  BY ChunksAssumption
<1>1. PICK q \in Request :
        /\ Asks(a) = {q} \cup Asks(a)' /\ made' = made \cup {q}
        /\ \A b \in Actors \ {a} : Asks(b)' = Asks(b)
        /\ \A n \in Msgs \ {q.msg} : shown'[n] = shown[n]
        /\ \/ lost' = lost \cup {q} /\ shown' = shown
           \/ /\ lost' = lost /\ q.msg \in Msgs
              /\ shown'[q.msg] = IF q.op = "React" THEN shown[q.msg] \cup {q.emoji}
                                                   ELSE shown[q.msg] \ {q.emoji}
        /\ pc' = pc /\ receipt' = receipt /\ fate' = fate /\ todo' = todo
  BY RequestStep
<1>2. Verdict(m)' = Verdict(m) /\ ChunksOf(m)' = ChunksOf(m)
  BY <1>1 DEF Verdict, ChunksOf
<1>3. PICK n \in Msgs, e \in Emojis : q = React(n, e) \/ q = Unreact(n, e)
  <2>1. q \in [op : {"React", "Unreact"}, emoji : Emojis, msg : Msgs]
    BY DEF Request
  <2>2. /\ q.op = "React" => q = React(q.msg, q.emoji)
        /\ q.op = "Unreact" => q = Unreact(q.msg, q.emoji)
    BY <2>1 DEF React, Unreact
  <2> QED
    BY <2>1, <2>2
<1>4. \A r : /\ Asked(r)' => Asked(r)
             /\ Asked(r) /\ r # q => Asked(r)'
  BY <1>1 DEF Asked
<1>5. Asked(q)
  BY <1>1 DEF Asked
<1>6. CASE n # m
  <2>1. q.msg # m /\ \A d \in Emojis : React(m, d) # q /\ Unreact(m, d) # q
    BY <1>0, <1>3, <1>6, RequestsDiffer
  <2>2. \A b \in Actors : \A d \in Emojis :
          /\ React(m, d) \in Asks(b)' <=> React(m, d) \in Asks(b)
          /\ Unreact(m, d) \in Asks(b)' <=> Unreact(m, d) \in Asks(b)
    BY <1>1, <2>1
  <2>3. \A b \in Actors : \A d \in Emojis :
          /\ (React(m, d) \in Asks(b))' <=> React(m, d) \in Asks(b)
          /\ (Unreact(m, d) \in Asks(b))' <=> Unreact(m, d) \in Asks(b)
    BY <2>2 DEF React, Unreact
  <2> QED
    BY <1>0, <1>1, <1>2, <2>1, <2>2, <2>3, ReactionFrame
<1>7. CASE n = m
  <2>1. /\ "accepted" \in Emojis /\ "delivered" \in Emojis /\ "unconfirmed" \in Emojis
        /\ \A c, d \in Emojis : /\ React(m, c) = React(m, d) <=> c = d
                                /\ Unreact(m, c) = Unreact(m, d) <=> c = d
                                /\ React(m, c) # Unreact(m, d)
    BY <1>0, RequestsDiffer DEF Emojis
  <2>2. \/ lost' = lost \cup {q} /\ shown'[m] = shown[m]
        \/ /\ lost' = lost
           /\ \/ q = React(m, e) /\ shown'[m] = shown[m] \cup {e}
              \/ q = Unreact(m, e) /\ shown'[m] = shown[m] \ {e}
    <3>1. /\ React(m, e).msg = m /\ React(m, e).op = "React" /\ React(m, e).emoji = e
          /\ Unreact(m, e).msg = m /\ Unreact(m, e).op = "Unreact" /\ Unreact(m, e).emoji = e
      BY DEF React, Unreact
    <3> QED
      BY <1>1, <1>3, <1>7, <3>1
  <2>3. \A d : React(m, d)' = React(m, d) /\ Unreact(m, d)' = Unreact(m, d)
    BY DEF React, Unreact
  <2>4. q = React(m, "accepted") => Verdict(m) = "none" /\ receipt[m].accepted
    <3> SUFFICES ASSUME q = React(m, "accepted")
                 PROVE  Verdict(m) = "none" /\ receipt[m].accepted
      OBVIOUS
    <3>1. a \in ChunksOf(m) /\ pc[a] = "sent" /\ receipt[m].accepted
      BY <1>1 DEF ReactionOf, AcceptedInv
    <3> QED
      BY <3>1, SentOpen
  <2>5. AcceptedInv(m)'
    <3>1. \A b \in Actors : React(m, "accepted") \in Asks(b)' =>
             b \in ChunksOf(m) /\ pc[b] = "sent" /\ receipt[m].accepted
      BY <1>1 DEF ReactionOf, AcceptedInv
    <3>2. ASSUME "accepted" \in shown'[m]
          PROVE  /\ receipt[m].accepted
                 /\ \/ Verdict(m) = "none"
                    \/ Asked(Unreact(m, "accepted"))'
                    \/ Unreact(m, "accepted") \in lost'
      <4>1. CASE q = React(m, "accepted")
        BY <2>4, <4>1
      <4>2. CASE q # React(m, "accepted")
        <5>1. "accepted" \in shown[m] /\ (q = Unreact(m, "accepted") => q \in lost')
          BY <2>1, <2>2, <3>2, <4>2
        <5> QED
          BY <1>1, <1>4, <2>3, <5>1 DEF ReactionOf, AcceptedInv
      <4> QED
        BY <4>1, <4>2
    <3> QED
      BY <1>1, <1>2, <2>3, <3>1, <3>2 DEF AcceptedInv
  <2>6. DeliveredInv(m)'
    <3>1. "delivered" \in shown'[m] => "delivered" \in shown[m] \/ q = React(m, "delivered")
      BY <2>1, <2>2
    <3> QED
      BY <1>2, <1>4, <1>5, <2>3, <3>1 DEF ReactionOf, DeliveredInv
  <2>7. UnconfirmedInv(m)'
    <3>1. "unconfirmed" \in shown'[m] => "unconfirmed" \in shown[m] \/ q = React(m, "unconfirmed")
      BY <2>1, <2>2
    <3>2. Asked(Unreact(m, "unconfirmed")) => Asked(Unreact(m, "unconfirmed"))'
                                              \/ Unreact(m, "unconfirmed") \in made'
      BY <1>1, <1>4
    <3> QED
      BY <1>1, <1>2, <1>4, <1>5, <2>3, <3>1, <3>2 DEF ReactionOf, UnconfirmedInv
  <2>8. VerdictInv(m)'
    <3> SUFFICES ASSUME NEW v \in {"delivered", "unconfirmed"}, Verdict(m) = v
                 PROVE  v \in shown'[m] \/ Asked(React(m, v))' \/ React(m, v) \in lost'
      BY <1>2, <2>3 DEF VerdictInv
    <3>1. v \in shown[m] \/ Asked(React(m, v)) \/ React(m, v) \in lost
      BY DEF ReactionOf, VerdictInv
    <3>2. q # Unreact(m, v)
      <4>1. v = "delivered" => ~Asked(Unreact(m, "delivered"))
        BY DEF ReactionOf, DeliveredInv
      <4>2. v = "unconfirmed" => ~Asked(Unreact(m, "unconfirmed"))
        BY DEF ReactionOf, DeliveredInv
      <4> QED
        BY <1>5, <4>1, <4>2
    <3>3. v \in Emojis
      BY DEF Emojis
    <3>4. v \in shown[m] => v \in shown'[m]
      BY <2>1, <2>2, <3>2, <3>3
    <3>5. q = React(m, v) => v \in shown'[m] \/ React(m, v) \in lost'
      BY <2>1, <2>2, <3>3
    <3> QED
      BY <1>1, <1>4, <3>1, <3>4, <3>5
  <2> QED
    BY <2>5, <2>6, <2>7, <2>8 DEF ReactionOf
<1> QED
  BY <1>6, <1>7

\* What a receipt's method asks of Discord, and for whom.
LEMMA MethodStep ==
    ASSUME TypeOK, NEW a \in Actors, ReceiptStep(a), ~MakeRequest(a)
    PROVE  /\ Asks(a) = {} /\ todo[a] # <<>>
           /\ \A b \in Actors \ {a} : Asks(b)' = Asks(b)
           /\ shown' = shown /\ made' = made /\ lost' = lost /\ pc' = pc /\ fate' = fate
<1>1. http[a] = <<>> /\ todo[a] # <<>>
  BY DEF ReceiptStep, MarkAccepted, Settle, LateConfirm, NextCall
<1>2. \A b \in Actors \ {a} : http'[b] = http[b]
  BY DEF ReceiptStep, MarkAccepted, Settle, LateConfirm, TypeOK
<1>3. shown' = shown /\ made' = made /\ lost' = lost /\ pc' = pc /\ fate' = fate
  BY DEF ReceiptStep, MarkAccepted, Settle, LateConfirm, discordVars, chainVars, queueVars
<1> QED
  BY <1>1, <1>2, <1>3, RequestedFacts DEF Asks

\* A method that asks for nothing about m, and leaves its verdict and its
\* memory of the accepted reaction alone, keeps what is said of m.
LEMMA SilentReaction ==
    ASSUME TypeOK, NEW m \in Msgs, ReactionOf(m), NEW a \in Actors, ReceiptStep(a),
           ~MakeRequest(a), Verdict(m)' = Verdict(m),
           receipt'[m].accepted = receipt[m].accepted,
           \A e \in Emojis : React(m, e) \notin Asks(a)' /\ Unreact(m, e) \notin Asks(a)'
    PROVE  ReactionOf(m)'
<1>1. \A b \in Actors : \A e \in Emojis :
        /\ React(m, e) \in Asks(b)' <=> React(m, e) \in Asks(b)
        /\ Unreact(m, e) \in Asks(b)' <=> Unreact(m, e) \in Asks(b)
  BY MethodStep
<1> QED
  BY <1>1, MethodStep, ReactionFrame

\* markAccepted, the first time, asks for the accepted reaction.
LEMMA AcceptedReaction ==
    ASSUME TypeOK, AccountingInv, NEW a \in Sends, NEW m \in WithReceipt, a \in ChunksOf(m),
           Head(todo[a]).msg = m, pc[a] = "sent", ReactionOf(m), MarkAccepted(a)
    PROVE  ReactionOf(m)'
<1>0. /\ m \in Msgs /\ a \in Actors /\ receipt[m] \in Receipt
      /\ ReceiptStep(a) /\ ~MakeRequest(a)
  BY ChunksAssumption DEF Actors, TypeOK, ReceiptStep, MarkAccepted, NextCall, MakeRequest
<1>1. /\ receipt' = [receipt EXCEPT ![m].accepted = TRUE]
      /\ http'[a] = IF ~receipt[m].accepted /\ receipt[m].pending > 0
                    THEN <<React(m, "accepted")>> ELSE <<>>
  BY <1>0 DEF MarkAccepted, TypeOK
<1>2. /\ receipt'[m].accepted /\ receipt'[m].pending = receipt[m].pending
      /\ receipt'[m].failed = receipt[m].failed
  BY <1>0, <1>1 DEF TypeOK, Receipt
<1>3. Verdict(m) = "none" /\ Verdict(m)' = "none"
  BY <1>0, <1>2, SentOpen, VerdictFrame, MethodStep
<1>4. Asks(a)' \subseteq {React(m, "accepted")} /\ Asks(a) = {}
      /\ \A b \in Actors \ {a} : Asks(b)' = Asks(b)
  <2>1. React(m, "accepted") \in Request
    BY <1>0, RequestTypes DEF Emojis
  <2> QED
    BY <1>0, <1>1, <2>1, MethodStep, RequestedFacts DEF Asks
<1>5. \A r : r # React(m, "accepted") => (Asked(r)' <=> Asked(r))
  BY <1>4 DEF Asked
<1>6. /\ "accepted" \in Emojis /\ "delivered" \in Emojis /\ "unconfirmed" \in Emojis
      /\ \A d : React(m, d)' = React(m, d) /\ Unreact(m, d)' = Unreact(m, d)
      /\ ChunksOf(m)' = ChunksOf(m)
  BY DEF Emojis, React, Unreact, ChunksOf
<1>7. /\ \A d \in {"delivered", "unconfirmed"} : React(m, d) # React(m, "accepted")
      /\ \A d \in Emojis : Unreact(m, d) # React(m, "accepted")
  BY <1>0, <1>6, RequestsDiffer
<1>8. AcceptedInv(m)'
  <2>1. \A b \in Actors : React(m, "accepted") \in Asks(b)' =>
           b \in ChunksOf(m) /\ pc[b] = "sent"
    BY <1>4 DEF ReactionOf, AcceptedInv
  <2> QED
    BY <1>0, <1>2, <1>3, <1>6, <2>1, MethodStep DEF AcceptedInv
<1>9. DeliveredInv(m)'
  BY <1>0, <1>3, <1>5, <1>6, <1>7, MethodStep DEF ReactionOf, DeliveredInv
<1>10. UnconfirmedInv(m)'
  BY <1>0, <1>3, <1>5, <1>6, <1>7, MethodStep DEF ReactionOf, UnconfirmedInv
<1>11. VerdictInv(m)'
  BY <1>3 DEF VerdictInv
<1> QED
  BY <1>8, <1>9, <1>10, <1>11 DEF ReactionOf

\* The settle that takes the receipt to zero asks for the verdict to be shown,
\* and for the accepted reaction to be removed if it was ever asked for.
LEMMA SettleReaction ==
    ASSUME TypeOK, NEW a \in Actors, NEW m \in WithReceipt, Head(todo[a]).msg = m,
           fate[m] \in {"taken", "dropped"}, ReactionOf(m), Settle(a)
    PROVE  ReactionOf(m)'
<1> DEFINE failure == IF Head(todo[a]).op = "settleFalse" THEN 1 ELSE 0
           r == [receipt[m] EXCEPT !.pending = @ - 1, !.failed = @ + failure]
           v == IF r.failed = 0 THEN "delivered" ELSE "unconfirmed"
<1>0. /\ m \in Msgs /\ receipt[m] \in Receipt
      /\ receipt[m].pending \in Nat /\ receipt[m].failed \in Nat
      /\ ReceiptStep(a) /\ ~MakeRequest(a)
  BY ChunksAssumption DEF TypeOK, Receipt, ReceiptStep, Settle, NextCall, MakeRequest
<1>1. Asks(a) = {} /\ \A b \in Actors \ {a} : Asks(b)' = Asks(b)
  BY <1>0, MethodStep
<1>2. CASE receipt[m].pending = 0
  <2>1. receipt' = receipt /\ http' = http
    BY <1>2 DEF Settle
  <2>2. Asks(a)' = {}
    BY <1>1, <2>1 DEF Asks
  <2> QED
    BY <1>0, <2>1, <2>2, SilentReaction, VerdictFrame, MethodStep
<1>3. CASE receipt[m].pending # 0
  <2>1. /\ receipt' = [receipt EXCEPT ![m] = r]
        /\ http'[a] = IF r.pending = 0 THEN FinalReactions(m, r) ELSE <<>>
    BY <1>3 DEF Settle, TypeOK
  <2>2. /\ r.pending = receipt[m].pending - 1 /\ r.accepted = receipt[m].accepted
        /\ r \in Receipt /\ receipt'[m] = r
    <3>1. r.pending = receipt[m].pending - 1 /\ r.accepted = receipt[m].accepted
      BY <1>0 DEF Receipt
    <3>2. failure \in {0, 1}
      OBVIOUS
    <3> HIDE DEF failure
    <3>3. receipt[m].pending - 1 \in Nat /\ receipt[m].failed + failure \in Nat
      BY <1>0, <1>3, <3>2
    <3>4. r \in Receipt
      BY <1>0, <3>3 DEF Receipt
    <3> HIDE DEF r
    <3> QED
      BY <1>0, <2>1, <3>1, <3>4 DEF TypeOK
  <2> HIDE DEF r, failure
  <2>3. Verdict(m) = "none"
    BY <1>0, <1>3 DEF Verdict
  <2>4. CASE r.pending # 0
    <3>1. Verdict(m)' = "none"
      BY <1>0, <1>3, <2>2, <2>4, MethodStep DEF Verdict
    <3>2. Asks(a)' = {}
      BY <2>1, <2>4, RequestedFacts DEF Asks
    <3> QED
      BY <1>0, <2>2, <2>3, <3>1, <3>2, SilentReaction
  <2>5. CASE r.pending = 0
    <3>1. Verdict(m)' = v
      BY <1>0, <2>2, <2>5, MethodStep DEF Verdict
    <3>2. Asks(a)' = {React(m, v)} \cup IF r.accepted THEN {Unreact(m, "accepted")} ELSE {}
      BY <1>0, <2>1, <2>2, <2>5, FinalRequests DEF Asks
    <3>3. v \in {"delivered", "unconfirmed"}
      OBVIOUS
    <3> HIDE DEF v
    <3>4. /\ "accepted" \in Emojis /\ "delivered" \in Emojis /\ "unconfirmed" \in Emojis
          /\ v \in Emojis
          /\ \A d : React(m, d)' = React(m, d) /\ Unreact(m, d)' = Unreact(m, d)
          /\ ChunksOf(m)' = ChunksOf(m)
      BY <3>3 DEF Emojis, React, Unreact, ChunksOf
    <3>5. \A c, d \in Emojis : /\ React(m, c) = React(m, d) <=> c = d
                               /\ Unreact(m, c) = Unreact(m, d) <=> c = d
                               /\ React(m, c) # Unreact(m, d)
      BY <1>0, RequestsDiffer
    <3>6. \A q : Asked(q)' <=> Asked(q) \/ q \in Asks(a)'
      BY <1>1 DEF Asked
    <3>7. /\ shown' = shown /\ pc' = pc /\ lost' = lost /\ made' = made
      BY <1>0, MethodStep
    <3>8. AcceptedInv(m)'
      <4>1. \A b \in Actors : React(m, "accepted") \in Asks(b)' => React(m, "accepted") \in Asks(b)
        BY <1>1, <3>2, <3>3, <3>4, <3>5
      <4>2. receipt[m].accepted => Asked(Unreact(m, "accepted"))'
        BY <2>2, <3>2, <3>4, <3>6
      <4> QED
        BY <2>2, <3>4, <3>7, <4>1, <4>2 DEF ReactionOf, AcceptedInv
    <3>9. /\ "delivered" \notin shown[m] /\ ~Asked(React(m, "delivered"))
          /\ ~Asked(Unreact(m, "unconfirmed")) /\ ~Asked(Unreact(m, "delivered"))
          /\ "unconfirmed" \notin shown[m] /\ ~Asked(React(m, "unconfirmed"))
      BY <2>3 DEF ReactionOf, DeliveredInv, UnconfirmedInv
    <3>10. DeliveredInv(m)'
      BY <3>1, <3>2, <3>3, <3>4, <3>5, <3>6, <3>7, <3>9 DEF DeliveredInv
    <3>11. UnconfirmedInv(m)'
      BY <3>1, <3>2, <3>3, <3>4, <3>5, <3>6, <3>7, <3>9 DEF UnconfirmedInv
    <3>12. VerdictInv(m)'
      BY <3>1, <3>2, <3>4, <3>6 DEF VerdictInv
    <3> QED
      BY <3>8, <3>10, <3>11, <3>12 DEF ReactionOf
  <2> QED
    BY <2>4, <2>5
<1> QED
  BY <1>2, <1>3

\* The upgrade of the last failed chunk asks for the swap of the verdicts.
LEMMA UpgradeReaction ==
    ASSUME TypeOK, NEW a \in Actors, NEW m \in WithReceipt, Head(todo[a]).msg = m,
           fate[m] = "taken", ReactionOf(m), LateConfirm(a)
    PROVE  ReactionOf(m)'
<1> DEFINE r == [receipt[m] EXCEPT !.failed = @ - 1]
<1>0. /\ m \in Msgs /\ receipt[m] \in Receipt
      /\ receipt[m].pending \in Nat /\ receipt[m].failed \in Nat
      /\ ReceiptStep(a) /\ ~MakeRequest(a)
  BY ChunksAssumption DEF TypeOK, Receipt, ReceiptStep, LateConfirm, NextCall, MakeRequest
<1>1. Asks(a) = {} /\ \A b \in Actors \ {a} : Asks(b)' = Asks(b)
  BY <1>0, MethodStep
<1>2. CASE receipt[m].failed = 0
  <2>1. receipt' = receipt /\ http' = http
    BY <1>2 DEF LateConfirm
  <2>2. Asks(a)' = {}
    BY <1>1, <2>1 DEF Asks
  <2> QED
    BY <1>0, <2>1, <2>2, SilentReaction, VerdictFrame, MethodStep
<1>3. CASE receipt[m].failed # 0
  <2>1. /\ receipt' = [receipt EXCEPT ![m] = r]
        /\ http'[a] = IF r.failed = 0 /\ r.pending = 0
                      THEN <<React(m, "delivered"), Unreact(m, "unconfirmed")>> ELSE <<>>
    BY <1>3 DEF LateConfirm, TypeOK
  <2>2. /\ r.pending = receipt[m].pending /\ r.accepted = receipt[m].accepted
        /\ r.failed = receipt[m].failed - 1
    BY <1>0 DEF Receipt
  <2> HIDE DEF r
  <2>3. receipt'[m] = r
    BY <1>0, <2>1 DEF TypeOK
  <2>4. CASE ~(r.failed = 0 /\ r.pending = 0)
    <3>1. Verdict(m)' = Verdict(m)
      BY <1>0, <1>3, <2>2, <2>3, <2>4, MethodStep DEF Verdict
    <3>2. Asks(a)' = {}
      BY <2>1, <2>4, RequestedFacts DEF Asks
    <3> QED
      BY <1>0, <2>2, <2>3, <3>1, <3>2, SilentReaction
  <2>5. CASE r.failed = 0 /\ r.pending = 0
    <3>1. Verdict(m) = "unconfirmed" /\ Verdict(m)' = "delivered"
      BY <1>0, <1>3, <2>2, <2>3, <2>5, MethodStep DEF Verdict
    <3>2. Asks(a)' = {React(m, "delivered"), Unreact(m, "unconfirmed")}
      <4>1. React(m, "delivered") \in Request /\ Unreact(m, "unconfirmed") \in Request
        BY <1>0, RequestTypes DEF Emojis
      <4>2. http'[a] = <<React(m, "delivered"), Unreact(m, "unconfirmed")>>
        BY <2>1, <2>5
      <4>3. Requested(<<React(m, "delivered"), Unreact(m, "unconfirmed")>>)
              = {React(m, "delivered"), Unreact(m, "unconfirmed")}
        BY <4>1, RequestedFacts
      <4> QED
        BY <4>2, <4>3 DEF Asks
    <3>3. /\ "accepted" \in Emojis /\ "delivered" \in Emojis /\ "unconfirmed" \in Emojis
          /\ \A d : React(m, d)' = React(m, d) /\ Unreact(m, d)' = Unreact(m, d)
          /\ ChunksOf(m)' = ChunksOf(m)
      BY DEF Emojis, React, Unreact, ChunksOf
    <3>4. \A c, d \in Emojis : /\ React(m, c) = React(m, d) <=> c = d
                               /\ Unreact(m, c) = Unreact(m, d) <=> c = d
                               /\ React(m, c) # Unreact(m, d)
      BY <1>0, RequestsDiffer
    <3>5. \A q : Asked(q)' <=> Asked(q) \/ q \in Asks(a)'
      BY <1>1 DEF Asked
    <3>6. /\ shown' = shown /\ pc' = pc /\ lost' = lost /\ made' = made
      BY <1>0, MethodStep
    <3>7. AcceptedInv(m)'
      <4>1. \A b \in Actors : React(m, "accepted") \in Asks(b)' => React(m, "accepted") \in Asks(b)
        BY <1>1, <3>2, <3>3, <3>4
      <4> QED
        BY <2>2, <2>3, <3>1, <3>3, <3>5, <3>6, <4>1 DEF ReactionOf, AcceptedInv
    <3>8. DeliveredInv(m)'
      BY <3>1, <3>2, <3>3, <3>4, <3>5 DEF ReactionOf, DeliveredInv
    <3>9. UnconfirmedInv(m)'
      BY <3>1, <3>2, <3>3, <3>5 DEF UnconfirmedInv
    <3>10. VerdictInv(m)'
      BY <3>1, <3>2, <3>3, <3>5 DEF VerdictInv
    <3> QED
      BY <3>7, <3>8, <3>9, <3>10 DEF ReactionOf
  <2> QED
    BY <2>4, <2>5
<1> QED
  BY <1>2, <1>3

\* The receipt's methods and the requests they make keep the invariant.
LEMMA ReceiptStepReaction ==
    ASSUME TypeOK, AccountingInv, UpgradeInv, ReactionInv, NEW a \in Actors, ReceiptStep(a)
    PROVE  ReactionInv'
<1>1. CASE MakeRequest(a)
  <2>1. DroppedInv'
    BY <1>1, RequestStep DEF ReactionInv, DroppedInv
  <2> QED
    BY <1>1, <2>1, RequestReaction DEF ReactionInv
<1>2. CASE ~MakeRequest(a)
  <2>1. todo[a] # <<>> /\ fate' = fate /\ pc' = pc
    BY <1>2, MethodStep
  <2>0. PICK m \in Msgs : \E op \in Methods : m = Head(todo[a]).msg /\ op = Head(todo[a]).op
    <3>1. Head(todo[a]).msg \in WithReceipt /\ Head(todo[a]).msg \in Msgs
          /\ Head(todo[a]).op \in Methods
      <4>1. Head(todo[a]) \in MethodCall
        BY <2>1 DEF TypeOK
      <4> QED
        BY <2>1, <4>1, Callers DEF MethodCall
    <3> QED
      BY <3>1
  <2> PICK op \in Methods : op = Head(todo[a]).op
    BY <2>0
  <2>2. /\ m \in WithReceipt /\ m \in Msgs /\ Tail(todo[a]) = <<>>
        /\ \/ /\ a \in Sends /\ m = a[1] /\ fate[m] = "taken"
              /\ \/ op = "markAccepted" /\ pc[a] = "sent"
                 \/ op \in {"settleTrue", "settleFalse"} /\ pc[a] = "settling"
           \/ a \in Msgs /\ m = a /\ fate[m] = "dropped" /\ op = "settleFalse"
           \/ a = CoreScope /\ fate[m] = "taken" /\ op = "lateConfirm"
    BY <2>0, <2>1, Callers
  <2>3. /\ \A b \in Actors \ {a} : todo'[b] = todo[b]
        /\ todo'[a] = <<>> /\ \A n \in Msgs \ {m} : receipt'[n] = receipt[n]
    BY <1>2, <2>0, <2>2, ReceiptStepFrame
  <2>4. /\ MarkAccepted(a) <=> op = "markAccepted"
        /\ Settle(a) <=> op \in {"settleTrue", "settleFalse"}
        /\ LateConfirm(a) <=> op = "lateConfirm"
    BY <1>2, <2>2 DEF ReceiptStep, MarkAccepted, Settle, LateConfirm, NextCall
  <2>5. ASSUME NEW n \in WithReceipt, n # m PROVE ReactionOf(n)'
    <3>1. n \in Msgs /\ ReactionOf(n)
      BY <2>5, ChunksAssumption DEF ReactionInv
    <3>2. Verdict(n)' = Verdict(n)
      BY <2>1, <2>3, <2>5, <3>1, VerdictFrame
    <3>3. \A q \in Asks(a)' : q.msg = m
      <4>1. "accepted" \in Emojis /\ "delivered" \in Emojis /\ "unconfirmed" \in Emojis
        BY DEF Emojis
      <4>2. CASE MarkAccepted(a)
        <5>1. http'[a] = <<React(m, "accepted")>> \/ http'[a] = <<>>
          BY <2>0, <4>2 DEF MarkAccepted, TypeOK
        <5>2. React(m, "accepted") \in Request /\ React(m, "accepted").msg = m
          BY <2>2, <4>1, RequestTypes, RequestsDiffer
        <5> QED
          BY <5>1, <5>2, RequestedFacts DEF Asks
      <4>3. CASE Settle(a)
        <5> DEFINE failure == IF Head(todo[a]).op = "settleFalse" THEN 1 ELSE 0
                   r == [receipt[m] EXCEPT !.pending = @ - 1, !.failed = @ + failure]
        <5>0. receipt[m].pending \in Nat /\ receipt[m].failed \in Nat /\ receipt[m] \in Receipt
          BY <2>2 DEF TypeOK, Receipt
        <5>1. \/ receipt[m].pending # 0 /\ http'[a] = FinalReactions(m, r)
              \/ Asks(a)' = {}
          <6>1. CASE receipt[m].pending = 0
            BY <1>2, <2>0, <4>3, <6>1, MethodStep DEF Settle, Asks
          <6>2. CASE receipt[m].pending # 0
            <7>1. http'[a] = FinalReactions(m, r) \/ http'[a] = <<>>
              BY <2>0, <4>3, <6>2 DEF Settle, TypeOK
            <7> HIDE DEF r
            <7> QED
              BY <6>2, <7>1, RequestedFacts DEF Asks
          <6> QED
            BY <6>1, <6>2
        <5>2. receipt[m].pending # 0 => r \in Receipt
          <6>1. failure \in {0, 1}
            OBVIOUS
          <6> HIDE DEF failure
          <6>2. receipt[m].failed + failure \in Nat
                /\ (receipt[m].pending # 0 => receipt[m].pending - 1 \in Nat)
            BY <5>0, <6>1
          <6> QED
            BY <5>0, <6>2 DEF Receipt
        <5> HIDE DEF r
        <5> DEFINE v == IF r.failed = 0 THEN "delivered" ELSE "unconfirmed"
        <5>3. receipt[m].pending # 0 =>
                Requested(FinalReactions(m, r)) \subseteq {React(m, v), Unreact(m, "accepted")}
          BY <2>2, <5>2, FinalRequests
        <5>4. v \in Emojis
          BY DEF Emojis
        <5> HIDE DEF v
        <5> QED
          BY <2>2, <4>1, <5>1, <5>3, <5>4, RequestsDiffer DEF Asks
      <4>4. CASE LateConfirm(a)
        <5>1. http'[a] = <<React(m, "delivered"), Unreact(m, "unconfirmed")>> \/ Asks(a)' = {}
          <6>1. CASE receipt[m].failed = 0
            BY <1>2, <2>0, <4>4, <6>1, MethodStep DEF LateConfirm, Asks
          <6>2. CASE receipt[m].failed # 0
            <7>1. \/ http'[a] = <<React(m, "delivered"), Unreact(m, "unconfirmed")>>
                  \/ http'[a] = <<>>
              BY <2>0, <4>4, <6>2 DEF LateConfirm, TypeOK
            <7> QED
              BY <7>1, RequestedFacts DEF Asks
          <6> QED
            BY <6>1, <6>2
        <5>2. /\ React(m, "delivered") \in Request /\ React(m, "delivered").msg = m
              /\ Unreact(m, "unconfirmed") \in Request /\ Unreact(m, "unconfirmed").msg = m
          BY <2>2, <4>1, RequestTypes, RequestsDiffer
        <5>3. Requested(<<React(m, "delivered"), Unreact(m, "unconfirmed")>>)
                = {React(m, "delivered"), Unreact(m, "unconfirmed")}
          BY <5>2, RequestedFacts
        <5> QED
          BY <5>1, <5>2, <5>3 DEF Asks
      <4> QED
        BY <2>2, <2>4, <4>2, <4>3, <4>4
    <3>4. \A e \in Emojis : React(n, e) \notin Asks(a)' /\ Unreact(n, e) \notin Asks(a)'
      BY <2>5, <3>1, <3>3, RequestsDiffer
    <3> QED
      BY <1>2, <2>3, <2>5, <3>1, <3>2, <3>4, SilentReaction
  <2>6. ReactionOf(m)'
    <3>1. ReactionOf(m)
      BY <2>2 DEF ReactionInv
    <3>2. a \in Sends /\ m = a[1] => a \in ChunksOf(m)
      BY SendsFacts
    <3> QED
      BY <2>0, <2>2, <2>4, <3>1, <3>2, AcceptedReaction, SettleReaction, UpgradeReaction
  <2>7. DroppedInv'
    <3> SUFFICES ASSUME NEW n \in WithReceipt, fate[n] = "dropped"
                 PROVE  receipt'[n].pending = IF todo'[n] = <<>> THEN 0 ELSE 1
      BY <2>1 DEF DroppedInv
    <3>0. /\ n \in Msgs /\ n \in Actors /\ n \notin Sends /\ n # CoreScope
          /\ receipt[n].pending = IF todo[n] = <<>> THEN 0 ELSE 1
      BY ChunksAssumption, NamesAssumption DEF Actors, ReactionInv, DroppedInv
    <3>1. CASE n # m
      <4>1. n # a
        BY <2>2, <3>0, <3>1
      <4> QED
        BY <2>3, <3>0, <3>1, <4>1
    <3>2. CASE n = m
      <4>1. a = n /\ op = "settleFalse" /\ Settle(a) /\ todo[n] # <<>>
        BY <2>1, <2>2, <2>4, <3>2
      <4>2. receipt[n].pending = 1 /\ todo'[n] = <<>>
        BY <2>3, <3>0, <4>1
      <4>3. a \in Actors /\ todo[a] # <<>> /\ n = Head(todo[a]).msg
        BY <2>0, <2>2, <3>2, <4>1
      <4>4. Settle(a) /\ receipt[n].pending # 0 => receipt'[n].pending = receipt[n].pending - 1
        BY <3>0, <4>3, Counters, Zenon
      <4>5. receipt[n].pending # 0 /\ 1 - 1 = 0
        BY <4>2
      <4>6. receipt'[n].pending = 1 - 1
        BY <4>1, <4>2, <4>4, <4>5, Zenon
      <4> QED
        BY <4>2, <4>5, <4>6
    <3> QED
      BY <3>1, <3>2
  <2> QED
    BY <2>5, <2>6, <2>7 DEF ReactionInv
<1> QED
  BY <1>1, <1>2

-----------------------------------------------------------------------------
(* The theorems.                                                           *)

\* What the invariant says once nothing is going on for a message.
LEMMA ReactionSettles ==
    ASSUME TypeOK, AccountingInv, UpgradeInv, ReactionInv
    PROVE  FinalReaction
<1> SUFFICES ASSUME NEW m \in WithReceipt, Quiet(m)
             PROVE  LET v == IF receipt[m].failed = 0 THEN "delivered" ELSE "unconfirmed"
                    IN /\ v \in shown[m] \/ React(m, v) \in lost
                       /\ "accepted" \in shown[m] => Unreact(m, "accepted") \in lost
                       /\ "delivered" \in shown[m] => v = "delivered"
                       /\ "unconfirmed" \in shown[m] =>
                             v = "unconfirmed" \/ Unreact(m, "unconfirmed") \in made
  BY DEF FinalReaction
<1>0. /\ m \in Msgs /\ ReactionOf(m) /\ receipt[m].pending \in Nat
      /\ m \in Actors /\ m \notin Sends /\ todo[m] \in Seq(MethodCall)
  BY ChunksAssumption, NamesAssumption DEF ReactionInv, TypeOK, Receipt, Actors
<1>1. \A e \in Emojis : ~Asked(React(m, e)) /\ ~Asked(Unreact(m, e))
  <2>1. \A a \in Actors : \A q \in Asks(a) : q.msg # m
    BY DEF Quiet, Asks, Requested
  <2> QED
    BY <1>0, <2>1, RequestsDiffer DEF Asked
<1>2. receipt[m].pending = 0
  <2>1. CASE fate[m] = "dropped"
    <3>1. todo[m] = <<>>
      <4> SUFFICES ASSUME todo[m] # <<>> PROVE FALSE
        OBVIOUS
      <4>1. 1 \in DOMAIN todo[m] /\ todo[m][1] = Head(todo[m])
        BY <1>0
      <4>2. Head(todo[m]).msg = m
        BY <1>0, Callers, NamesAssumption
      <4> QED
        BY <1>0, <4>1, <4>2 DEF Quiet
    <3> QED
      BY <2>1, <3>1 DEF ReactionInv, DroppedInv
  <2>2. CASE fate[m] = "taken" /\ \A s \in ChunksOf(m) : pc[s] = "done"
    <3>1. Unsettled(m) = {}
      BY <2>2 DEF Unsettled, HasSettled
    <3> QED
      BY <2>2, <3>1, FS_EmptySet DEF AccountingInv, ReceiptAccounting
  <2> QED
    BY <2>1, <2>2 DEF Quiet
<1>3. Verdict(m) = IF receipt[m].failed = 0 THEN "delivered" ELSE "unconfirmed"
  BY <1>2 DEF Verdict, Quiet
<1>4. "accepted" \in Emojis /\ "delivered" \in Emojis /\ "unconfirmed" \in Emojis
  BY DEF Emojis
<1>5. "accepted" \in shown[m] => Unreact(m, "accepted") \in lost
  BY <1>0, <1>1, <1>3, <1>4 DEF ReactionOf, AcceptedInv
<1>6. "delivered" \in shown[m] => Verdict(m) = "delivered"
  BY <1>0 DEF ReactionOf, DeliveredInv
<1>7. "unconfirmed" \in shown[m] =>
         Verdict(m) = "unconfirmed" \/ Unreact(m, "unconfirmed") \in made
  BY <1>0, <1>1, <1>4 DEF ReactionOf, UnconfirmedInv
<1>8. \A v \in {"delivered", "unconfirmed"} : Verdict(m) = v =>
         v \in shown[m] \/ React(m, v) \in lost
  BY <1>0, <1>1, <1>4 DEF ReactionOf, VerdictInv
<1> QED
  BY <1>3, <1>5, <1>6, <1>7, <1>8

\* What has been asked of Discord accounts for what a message bears and for
\* what it lacks, whatever the order of steps and whichever requests fail.
THEOREM ReactionInvariance ==
    ASSUME DistinctPackets, ~SlowChains
    PROVE  Spec => []ReactionInv
<1>1. TypeOK /\ AccountingInv /\ PromiseInv /\ ReactionInv /\ [Next]_vars => ReactionInv'
  <2> SUFFICES ASSUME TypeOK, AccountingInv, PromiseInv, ReactionInv, [Next]_vars
               PROVE  ReactionInv'
    OBVIOUS
  <2>1. CASE Take \/ Environment \/ \E s \in Sends : Chain(s)
    BY <2>1, OtherReaction
  <2>2. CASE \E a \in Actors : ReceiptStep(a)
    BY <2>2, ReceiptStepReaction DEF PromiseInv
  <2>3. CASE UNCHANGED vars
    <3>1. \A a \in Actors : Asks(a)' = Asks(a)
      BY <2>3 DEF vars, Asks
    <3>2. ASSUME NEW m \in WithReceipt PROVE ReactionOf(m)'
      <4>1. m \in Msgs /\ Verdict(m)' = Verdict(m)
        BY <2>3, ChunksAssumption, VerdictFrame DEF vars
      <4> QED
        BY <2>3, <3>1, <4>1, ReactionFrame DEF vars, ReactionInv, React, Unreact
    <3> QED
      BY <2>3, <3>2 DEF vars, ReactionInv, DroppedInv
  <2> QED
    BY <2>1, <2>2, <2>3 DEF Next
<1>2. Spec => []TypeOK
  BY TypeCorrectness
<1>3. Spec => []AccountingInv
  BY AccountingInvariance
<1>4. Spec => []PromiseInv
  BY PromiseInvariance
<1> QED
  BY <1>1, <1>2, <1>3, <1>4, InitReaction, PTL DEF Spec

\* discordReceipt.settle, lateConfirm and do: once all is over a message bears
\* the reaction that gives its verdict unless Discord refused it, and any other
\* only where the request to remove it was lost or, in a swap of verdicts, made
\* too early.
THEOREM FinalReactionStands ==
    ASSUME DistinctPackets, ~SlowChains
    PROVE  Spec => []FinalReaction
<1>1. TypeOK /\ AccountingInv /\ PromiseInv /\ ReactionInv => FinalReaction
  BY ReactionSettles DEF PromiseInv
<1>2. Spec => []TypeOK
  BY TypeCorrectness
<1>3. Spec => []AccountingInv
  BY AccountingInvariance
<1>4. Spec => []PromiseInv
  BY PromiseInvariance
<1>5. Spec => []ReactionInv
  BY ReactionInvariance
<1> QED
  BY <1>1, <1>2, <1>3, <1>4, <1>5, PTL
=============================================================================
