------------------------------ MODULE Delivery ------------------------------
(***************************************************************************)
(* The MeshCore send pipeline of the bridge: a message is queued for the   *)
(* single send worker, sent chunk by chunk, each chunk tracked by its      *)
(* packet hash, checked by a retry timer, retransmitted or reported, and   *)
(* its outcome put on the originating Discord message as reactions.        *)
(*                                                                         *)
(* A chunk is a pair <<message, index>>.  Everything done for one chunk    *)
(* runs on one goroutine at a time (the worker for the first attempt, the  *)
(* timer's goroutine afterwards): pc[s] is where it stands.  Critical      *)
(* sections under Bridge.mu and discordReceipt.mu are single steps; what   *)
(* is called after an unlock is a step of its own.                         *)
(*                                                                         *)
(* Time is abstracted: a timer may fire at any moment after it is armed.   *)
(***************************************************************************)
EXTENDS Naturals, Sequences, FiniteSets

CONSTANTS
    Msgs,             \* outbound messages
    NChunks,          \* NChunks[m]: chunks composeChunks makes of m
    Packets,          \* packet hashes
    PacketOf,         \* PacketOf[s]: hash of the packet that carries chunk s
    WithReceipt,      \* messages from Discord, with delivery reactions on
    Unbuildable,      \* chunks BuildChannelPacket refuses
    QueueCap,         \* relayQueueCap
    RetryOn,          \* meshcore.retry_on_no_repeat
    MaxRetries,       \* meshcore.max_retries
    Hops,             \* repeaters
    LocalHops,        \* repeaters whose copies our own radio can hear
    Ignored,          \* meshcore.ignore_repeat_from
    SuccessRepeaters, \* repeaters matching meshcore.success_repeaters
    MinRepeaters,     \* meshcore.min_repeaters
    Observers,        \* CoreScope observers; {} when CoreScope is off
    SuccessObservers, \* observers matching meshcore.success_observers
    SlowChains,       \* can a chunk's retries outlast the sweep's TTL?
    Closes,           \* can the bridge be closed?
    CoreScope,        \* the goroutine of the CoreScope client
    NoSend            \* no chunk

ChunksOf(m) == {m} \X (1..NChunks[m])
Sends == UNION {ChunksOf(m) : m \in Msgs}
Actors == Sends \cup Msgs \cup {CoreScope}

ASSUME ChunksAssumption ==
    /\ NChunks \in [Msgs -> Nat \ {0}]
    /\ PacketOf \in [Sends -> Packets]
    /\ WithReceipt \subseteq Msgs
    /\ Unbuildable \subseteq Sends
ASSUME LimitsAssumption ==
    /\ QueueCap \in Nat \ {0}
    /\ MaxRetries \in Nat
    /\ MinRepeaters \in Nat \ {0}
    /\ RetryOn \in BOOLEAN /\ SlowChains \in BOOLEAN /\ Closes \in BOOLEAN
ASSUME RuleAssumption ==
    /\ IsFiniteSet(Hops) /\ LocalHops \subseteq Hops /\ Ignored \subseteq Hops
    /\ SuccessRepeaters \subseteq Hops
    /\ SuccessObservers \subseteq Observers
ASSUME NamesAssumption ==
    /\ CoreScope \notin Sends \cup Msgs
    /\ NoSend \notin Sends
    /\ Msgs \cap Sends = {}

VARIABLES
    relayQ,     \* messages waiting for the send worker
    fate,       \* fate[m]: what became of message m
    worker,     \* the chunk the worker is sending, or NoSend
    txMu,       \* the chunk holding Bridge.meshcoreTxMu, or NoSend
    session,    \* is a MeshCore session attached?
    closed,     \* has Bridge.Close begun?
    halted,     \* has it stopped the timers?
    allowed,    \* allowed[s]: the attempt chunk s may still come to, once closed
    pc,         \* pc[s]: where the goroutine of chunk s stands
    attempt,    \* attempt[s]: 0 for the original send
    deliveries, \* hashes that have a delivery record
    rec,        \* rec[p]: the delivery record
    receipt,    \* receipt[m]: the discordReceipt
    todo,       \* todo[a]: receipt methods goroutine a has yet to call
    http,       \* http[a]: reaction requests goroutine a has yet to make
    made,       \* reaction requests that have returned
    lost,       \* those of them that had no effect
    shown,      \* shown[m]: hoplink's reactions on the Discord message
    aired,      \* packets handed to the radio at least once
    evidence    \* evidence[p]: every repeater and observer ever recorded for p

chainVars   == <<pc, attempt>>
queueVars   == <<relayQ, fate, worker>>
recordVars  == <<deliveries, rec, evidence>>
closeVars   == <<closed, halted, allowed>>
discordVars == <<made, lost, shown>>
receiptVars == <<receipt, todo, http, made, lost, shown>>
vars == <<relayQ, fate, worker, txMu, session, closed, halted, allowed, pc, attempt,
          deliveries, rec, receipt, todo, http, made, lost, shown, aired, evidence>>

PCs == {"idle", "ready", "air", "sending", "sent", "armed", "fired", "check",
        "report", "settling", "done", "stopped"}
Emojis == {"accepted", "delivered", "unconfirmed"}
Methods == {"markAccepted", "settleTrue", "settleFalse", "lateConfirm"}
MethodCall == [op : Methods, msg : Msgs]
Request == [op : {"React", "Unreact"}, emoji : Emojis, msg : Msgs]
Record == [repeaters : SUBSET Hops, observers : SUBSET Observers,
           receipts : Seq(Msgs), lateReceipts : Seq(Msgs), reported : BOOLEAN]
Evidence == [repeaters : SUBSET Hops, observers : SUBSET Observers]
Receipt == [pending : Nat, failed : Nat, accepted : BOOLEAN]

NewRecord == [repeaters |-> {}, observers |-> {}, receipts |-> <<>>,
              lateReceipts |-> <<>>, reported |-> FALSE]
NoEvidence == [repeaters |-> {}, observers |-> {}]
NoReceipt == [pending |-> 0, failed |-> 0, accepted |-> FALSE]

Init ==
    /\ relayQ = <<>> /\ fate = [m \in Msgs |-> "new"]
    /\ worker = NoSend /\ txMu = NoSend
    /\ session \in BOOLEAN
    /\ closed = FALSE /\ halted = FALSE /\ allowed = [s \in Sends |-> 0]
    /\ pc = [s \in Sends |-> "idle"] /\ attempt = [s \in Sends |-> 0]
    /\ deliveries = {} /\ rec = [p \in Packets |-> NewRecord]
    /\ receipt = [m \in Msgs |-> NoReceipt]
    /\ todo = [a \in Actors |-> <<>>] /\ http = [a \in Actors |-> <<>>]
    /\ made = {} /\ lost = {} /\ shown = [m \in Msgs |-> {}]
    /\ aired = {} /\ evidence = [p \in Packets |-> NoEvidence]

-----------------------------------------------------------------------------
(* The delivery rule.                                                      *)

Proven(r) == r.repeaters \ Ignored

\* A mutant of Confirmed: ignored repeaters count towards min_repeaters.
ConfirmedByAnyRepeater(r) ==
    \/ r.observers \cap SuccessObservers # {}
    \/ Cardinality(r.repeaters) >= MinRepeaters

Confirmed(r) ==
    \/ r.observers \cap SuccessObservers # {}
    \/ /\ Cardinality(Proven(r)) >= MinRepeaters
       /\ SuccessRepeaters = {} \/ Proven(r) \cap SuccessRepeaters # {}

DeliveryConfirmed(p) == p \in deliveries /\ Confirmed(rec[p])

\* Method calls on m's receipt; every method is a no-op on a nil receipt.
Call(op, m) == IF m \in WithReceipt THEN <<[op |-> op, msg |-> m]>> ELSE <<>>
CallAll(op, ms) == [i \in DOMAIN ms |-> [op |-> op, msg |-> ms[i]]]

\* A receipt is opened for chunks pieces, unless m has none.
NewDiscordReceipt(m, chunks) ==
    IF m \in WithReceipt THEN [receipt EXCEPT ![m].pending = chunks] ELSE receipt

\* Goroutine a has made every call it was in the middle of.
Returned(a) == todo[a] = <<>> /\ http[a] = <<>>


-----------------------------------------------------------------------------
(* The send queue and its worker.                                          *)

\* handleDiscordMessage (or a mesh relay) hands m to the worker; a full queue
\* drops it, and the Discord message gets its warning at once.
Post(m) ==
    /\ fate[m] = "new"
    /\ \/ /\ Len(relayQ) < QueueCap
          /\ relayQ' = Append(relayQ, m)
          /\ fate' = [fate EXCEPT ![m] = "queued"]
          /\ UNCHANGED <<receipt, todo>>
       \/ /\ Len(relayQ) = QueueCap
          /\ fate' = [fate EXCEPT ![m] = "dropped"]
          /\ receipt' = NewDiscordReceipt(m, 1)
          /\ todo' = [todo EXCEPT ![m] = Call("settleFalse", m)]
          /\ UNCHANGED relayQ
    /\ UNCHANGED <<worker, txMu, session, closeVars, chainVars, recordVars, http, discordVars,
                   aired>>

\* The idle worker takes the next message and opens its receipt.  After Close
\* it may still do so: its select chooses freely among ready cases.
Take ==
    /\ worker = NoSend /\ relayQ # <<>>
    /\ LET m == Head(relayQ) IN
        /\ worker' = <<m, 1>>
        /\ fate' = [fate EXCEPT ![m] = "taken"]
        /\ receipt' = NewDiscordReceipt(m, NChunks[m])
    /\ relayQ' = Tail(relayQ)
    /\ UNCHANGED <<txMu, session, closeVars, chainVars, recordVars, todo, http, discordVars,
                   aired>>

\* The worker enters transmitMeshcore for the next chunk.
StartChunk(s) ==
    /\ worker = s /\ pc[s] = "idle"
    /\ pc' = [pc EXCEPT ![s] = "ready"]
    /\ UNCHANGED <<queueVars, txMu, session, closeVars, attempt, recordVars, receiptVars, aired>>

AfterChunk(s) == IF s[2] < NChunks[s[1]] THEN <<s[1], s[2] + 1>> ELSE NoSend

\* transmitMeshcore returns: the lock is released, and if this was the first
\* attempt the worker moves on.
Release(s) ==
    /\ txMu' = IF txMu = s THEN NoSend ELSE txMu
    /\ worker' = IF worker = s THEN AfterChunk(s) ELSE worker

-----------------------------------------------------------------------------
(* One attempt: transmitMeshcoreScoped.                                    *)

\* The packet cannot be built, or there is no session for a first attempt.
AbandonUnsent(s) ==
    /\ pc[s] = "ready" /\ txMu = NoSend
    /\ s \in Unbuildable \/ (~session /\ attempt[s] = 0)
    /\ txMu' = s
    /\ pc' = [pc EXCEPT ![s] = "settling"]
    /\ todo' = [todo EXCEPT ![s] = Call("settleFalse", s[1])]
    /\ UNCHANGED <<queueVars, session, closeVars, attempt, recordVars, receipt, http,
                   discordVars, aired>>

\* No session for a retry: report what the earlier attempts achieved.
AbandonRetry(s) ==
    /\ pc[s] = "ready" /\ txMu = NoSend
    /\ s \notin Unbuildable /\ ~session /\ attempt[s] > 0
    /\ txMu' = s
    /\ pc' = [pc EXCEPT ![s] = "report"]
    /\ UNCHANGED <<queueVars, session, closeVars, attempt, recordVars, receiptVars, aired>>

\* The session is captured and the wait for quiet air begins.
AwaitAir(s) ==
    /\ pc[s] = "ready" /\ txMu = NoSend
    /\ s \notin Unbuildable /\ session
    /\ txMu' = s
    /\ pc' = [pc EXCEPT ![s] = "air"]
    /\ UNCHANGED <<queueVars, session, closeVars, attempt, recordVars, receiptVars, aired>>

\* A mutant of AddReceipt: containsReceipt is not consulted.
AppendReceipt(ms, m) == IF m \in WithReceipt THEN Append(ms, m) ELSE ms

AddReceipt(ms, m) ==
    IF m \in WithReceipt /\ \A i \in DOMAIN ms : ms[i] # m THEN Append(ms, m) ELSE ms

\* trackDelivery; from here on the packet may be on the air.
Track(s) ==
    LET p == PacketOf[s]
        r == IF p \in deliveries THEN rec[p] ELSE NewRecord
    IN /\ pc[s] = "air"
       /\ pc' = [pc EXCEPT ![s] = "sending"]
       /\ deliveries' = deliveries \cup {p}
       /\ rec' = [rec EXCEPT ![p] = [r EXCEPT !.reported = FALSE,
                                              !.receipts = AddReceipt(@, s[1])]]
       /\ aired' = aired \cup {p}
       /\ UNCHANGED <<queueVars, txMu, session, closeVars, attempt, evidence, receiptVars>>

\* The radio accepted the packet.
SendAccepted(s) ==
    /\ pc[s] = "sending"
    /\ pc' = [pc EXCEPT ![s] = "sent"]
    /\ todo' = [todo EXCEPT ![s] = Call("markAccepted", s[1])]
    /\ UNCHANGED <<queueVars, txMu, session, closeVars, attempt, recordVars, receipt, http,
                   discordVars, aired>>

\* A mutant of SendFailed: a failed first attempt settles nothing.
SendFailedUnsettled(s) ==
    LET p == PacketOf[s]
    IN /\ pc[s] = "sending"
       /\ \/ /\ attempt[s] = 0
             /\ deliveries' = deliveries \ {p}
             /\ rec' = [rec EXCEPT ![p] = NewRecord]
             /\ pc' = [pc EXCEPT ![s] = "settling"]
          \/ /\ attempt[s] > 0
             /\ pc' = [pc EXCEPT ![s] = "report"]
             /\ UNCHANGED <<deliveries, rec>>
       /\ UNCHANGED <<queueVars, txMu, session, closeVars, attempt, evidence, receiptVars, aired>>

\* SendPacket failed (a timeout may hide a packet that did go out).
SendFailed(s) ==
    LET p == PacketOf[s]
    IN /\ pc[s] = "sending"
       /\ \/ /\ attempt[s] = 0
             /\ deliveries' = deliveries \ {p}
             /\ rec' = [rec EXCEPT ![p] = NewRecord]
             /\ todo' = [todo EXCEPT ![s] = Call("settleFalse", s[1])]
             /\ pc' = [pc EXCEPT ![s] = "settling"]
          \/ /\ attempt[s] > 0
             /\ pc' = [pc EXCEPT ![s] = "report"]
             /\ UNCHANGED <<deliveries, rec, todo>>
       /\ UNCHANGED <<queueVars, txMu, session, closeVars, attempt, evidence, receipt, http,
                      discordVars, aired>>

\* A mutant of Arm: a timer is armed although the bridge is closed.
ArmUngated(s) ==
    /\ pc[s] = "sent" /\ Returned(s)
    /\ pc' = [pc EXCEPT ![s] = "armed"]
    /\ Release(s)
    /\ UNCHANGED <<relayQ, fate, session, closeVars, attempt, recordVars, receiptVars, aired>>

\* afterFunc arms the check, unless the bridge is closed.
Arm(s) ==
    /\ pc[s] = "sent" /\ Returned(s)
    /\ pc' = [pc EXCEPT ![s] = IF closed THEN "stopped" ELSE "armed"]
    /\ Release(s)
    /\ UNCHANGED <<relayQ, fate, session, closeVars, attempt, recordVars, receiptVars, aired>>

-----------------------------------------------------------------------------
(* The timer's callback.                                                   *)

\* The timer fires and its callback leaves the registry.
Fire(s) ==
    /\ pc[s] = "armed"
    /\ pc' = [pc EXCEPT ![s] = "fired"]
    /\ UNCHANGED <<queueVars, txMu, session, closeVars, attempt, recordVars, receiptVars, aired>>

\* The callback runs its function only if the bridge is still open.
Callback(s) ==
    /\ pc[s] = "fired"
    /\ pc' = [pc EXCEPT ![s] = IF closed THEN "stopped" ELSE "check"]
    /\ UNCHANGED <<queueVars, txMu, session, closeVars, attempt, recordVars, receiptVars, aired>>

\* A mutant of CanRetry: one retry too many.
CanRetryOnceMore(s) == RetryOn /\ attempt[s] <= MaxRetries

CanRetry(s) == RetryOn /\ attempt[s] < MaxRetries

\* Retransmit if a retry is left and the delivery rule is not satisfied yet.
Check(s) ==
    /\ pc[s] = "check"
    /\ IF CanRetry(s) /\ ~DeliveryConfirmed(PacketOf[s])
       THEN /\ pc' = [pc EXCEPT ![s] = "ready"]
            /\ attempt' = [attempt EXCEPT ![s] = @ + 1]
       ELSE /\ pc' = [pc EXCEPT ![s] = "report"]
            /\ UNCHANGED attempt
    /\ UNCHANGED <<queueVars, txMu, session, closeVars, recordVars, receiptVars, aired>>

\* reportDelivery up to its unlock: the receipts to settle are taken out of
\* the record, and kept as lateReceipts if the rule is not satisfied.
Report(s) ==
    LET p == PacketOf[s]
        r == rec[p]
        ok == Confirmed(r)
    IN /\ pc[s] = "report"
       /\ pc' = [pc EXCEPT ![s] = "settling"]
       /\ \/ /\ p \in deliveries /\ ~r.reported
             /\ rec' = [rec EXCEPT
                   ![p].reported = TRUE, ![p].receipts = <<>>,
                   ![p].lateReceipts = IF ok THEN @ ELSE @ \o r.receipts]
             /\ todo' = [todo EXCEPT ![s] =
                   CallAll(IF ok THEN "settleTrue" ELSE "settleFalse", r.receipts)]
          \/ /\ p \notin deliveries \/ r.reported
             /\ UNCHANGED <<rec, todo>>
       /\ UNCHANGED <<queueVars, txMu, session, closeVars, attempt, deliveries, evidence,
                      receipt, http, discordVars, aired>>

\* The chunk's goroutine has settled every receipt it took and returns.
Finish(s) ==
    /\ pc[s] = "settling" /\ Returned(s)
    /\ pc' = [pc EXCEPT ![s] = "done"]
    /\ Release(s)
    /\ UNCHANGED <<relayQ, fate, session, closeVars, attempt, recordVars, receiptVars, aired>>

-----------------------------------------------------------------------------
(* The receipt's methods, run by goroutine a under discordReceipt.mu, and  *)
(* the reaction requests it makes after the unlock.                        *)

NextCall(a, ops) == http[a] = <<>> /\ todo[a] # <<>> /\ Head(todo[a]).op \in ops

React(m, e) == [op |-> "React", emoji |-> e, msg |-> m]
Unreact(m, e) == [op |-> "Unreact", emoji |-> e, msg |-> m]

MarkAccepted(a) ==
    /\ NextCall(a, {"markAccepted"})
    /\ LET m == Head(todo[a]).msg
           r == receipt[m]
       IN /\ receipt' = [receipt EXCEPT ![m].accepted = TRUE]
          /\ http' = [http EXCEPT ![a] =
                IF ~r.accepted /\ r.pending > 0 THEN <<React(m, "accepted")>> ELSE <<>>]
    /\ todo' = [todo EXCEPT ![a] = Tail(@)]
    /\ UNCHANGED <<queueVars, txMu, session, closeVars, chainVars, recordVars, discordVars,
                   aired>>

\* A mutant of FinalReactions: the accepted reaction is left standing.
FinalWithoutUnreact(m, r) ==
    <<React(m, IF r.failed = 0 THEN "delivered" ELSE "unconfirmed")>>

FinalReactions(m, r) ==
    <<React(m, IF r.failed = 0 THEN "delivered" ELSE "unconfirmed")>>
        \o IF r.accepted THEN <<Unreact(m, "accepted")>> ELSE <<>>

Settle(a) ==
    /\ NextCall(a, {"settleTrue", "settleFalse"})
    /\ LET m == Head(todo[a]).msg
           failure == IF Head(todo[a]).op = "settleFalse" THEN 1 ELSE 0
           r == [receipt[m] EXCEPT !.pending = @ - 1, !.failed = @ + failure]
       IN IF receipt[m].pending = 0
          THEN UNCHANGED <<receipt, http>>
          ELSE /\ receipt' = [receipt EXCEPT ![m] = r]
               /\ http' = [http EXCEPT ![a] =
                     IF r.pending = 0 THEN FinalReactions(m, r) ELSE <<>>]
    /\ todo' = [todo EXCEPT ![a] = Tail(@)]
    /\ UNCHANGED <<queueVars, txMu, session, closeVars, chainVars, recordVars, discordVars,
                   aired>>

LateConfirm(a) ==
    /\ NextCall(a, {"lateConfirm"})
    /\ LET m == Head(todo[a]).msg
           r == [receipt[m] EXCEPT !.failed = @ - 1]
       IN IF receipt[m].failed = 0
          THEN UNCHANGED <<receipt, http>>
          ELSE /\ receipt' = [receipt EXCEPT ![m] = r]
               /\ http' = [http EXCEPT ![a] =
                     IF r.failed = 0 /\ r.pending = 0
                     THEN <<React(m, "delivered"), Unreact(m, "unconfirmed")>>
                     ELSE <<>>]
    /\ todo' = [todo EXCEPT ![a] = Tail(@)]
    /\ UNCHANGED <<queueVars, txMu, session, closeVars, chainVars, recordVars, discordVars,
                   aired>>

\* A request to Discord returns.  One that fails is logged and forgotten.
MakeRequest(a) ==
    /\ http[a] # <<>>
    /\ LET q == Head(http[a]) IN
        /\ made' = made \cup {q}
        /\ \/ /\ shown' = [shown EXCEPT ![q.msg] =
                    IF q.op = "React" THEN @ \cup {q.emoji} ELSE @ \ {q.emoji}]
              /\ UNCHANGED lost
           \/ /\ lost' = lost \cup {q}
              /\ UNCHANGED shown
    /\ http' = [http EXCEPT ![a] = Tail(@)]
    /\ UNCHANGED <<queueVars, txMu, session, closeVars, chainVars, recordVars, receipt, todo,
                   aired>>

-----------------------------------------------------------------------------
(* Evidence, housekeeping, the session and Close.                          *)

Heard(r, repeaters, observers) ==
    [r EXCEPT !.repeaters = @ \cup repeaters, !.observers = @ \cup observers]

\* observeOwnCopy: the raw log brings a copy relayed along path.
ObserveOwnCopy(p, path) ==
    /\ p \in deliveries \cap aired
    /\ path \subseteq LocalHops
    /\ rec' = [rec EXCEPT ![p] = Heard(@, path, {})]
    /\ evidence' = [evidence EXCEPT ![p] = Heard(@, path, {})]
    /\ UNCHANGED <<queueVars, txMu, session, closeVars, chainVars, deliveries, receiptVars,
                   aired>>

\* HandleCoreScopeObservation up to its unlock: observer o heard p along
\* path.  If that satisfies the rule after the report, the goroutine is left
\* with the lateReceipts to upgrade.
HandleObservation(p, o, path) ==
    LET r == Heard(rec[p], path, {o})
        late == r.reported /\ ~Confirmed(rec[p]) /\ Confirmed(r)
    IN /\ Returned(CoreScope)
       /\ p \in deliveries \cap aired
       /\ rec' = [rec EXCEPT ![p] = IF late THEN [r EXCEPT !.lateReceipts = <<>>] ELSE r]
       /\ todo' = [todo EXCEPT ![CoreScope] =
             IF late THEN CallAll("lateConfirm", r.lateReceipts) ELSE <<>>]
       /\ evidence' = [evidence EXCEPT ![p] = Heard(@, path, {o})]
       /\ UNCHANGED <<queueVars, txMu, session, closeVars, chainVars, deliveries, receipt,
                      http, discordVars, aired>>

\* sweep drops a record ten minutes after its first send.  Unless the retries
\* can take that long (SlowChains), every chunk it belongs to has ended.
Sweep(p) ==
    /\ p \in deliveries
    /\ \/ SlowChains
       \/ \A s \in Sends : PacketOf[s] = p => pc[s] \in {"idle", "done", "stopped"}
    /\ deliveries' = deliveries \ {p}
    /\ rec' = [rec EXCEPT ![p] = NewRecord]
    /\ UNCHANGED <<queueVars, txMu, session, closeVars, chainVars, evidence, receiptVars, aired>>

SetMeshcoreSession ==
    /\ session' = ~session
    /\ UNCHANGED <<queueVars, txMu, closeVars, chainVars, recordVars, receiptVars, aired>>

\* Close begins: closedCh is closed.  A callback that is past its gate may
\* still make one more attempt, nothing else may.
Close ==
    /\ Closes /\ ~closed
    /\ closed' = TRUE
    /\ allowed' = [s \in Sends |-> IF pc[s] = "check" THEN attempt[s] + 1 ELSE attempt[s]]
    /\ UNCHANGED <<queueVars, txMu, session, halted, chainVars, recordVars, receiptVars, aired>>

\* Close goes on to stop every timer that has not fired.
StopTimers ==
    /\ closed /\ ~halted
    /\ halted' = TRUE
    /\ pc' = [s \in Sends |-> IF pc[s] = "armed" THEN "stopped" ELSE pc[s]]
    /\ UNCHANGED <<queueVars, txMu, session, closed, allowed, attempt, recordVars, receiptVars,
                   aired>>

-----------------------------------------------------------------------------

\* The code run for chunk s.
Chain(s) ==
    \/ StartChunk(s) \/ AbandonUnsent(s) \/ AbandonRetry(s) \/ AwaitAir(s)
    \/ Track(s) \/ SendAccepted(s) \/ SendFailed(s) \/ Arm(s)
    \/ Fire(s) \/ Callback(s) \/ Check(s) \/ Report(s) \/ Finish(s)

\* The receipt calls and requests goroutine a is in the middle of.
ReceiptStep(a) == MarkAccepted(a) \/ Settle(a) \/ LateConfirm(a) \/ MakeRequest(a)

Environment ==
    \/ \E m \in Msgs : Post(m)
    \/ \E p \in Packets : Sweep(p)
    \/ \E p \in Packets : \E path \in SUBSET Hops :
          ObserveOwnCopy(p, path) \/ \E o \in Observers : HandleObservation(p, o, path)
    \/ SetMeshcoreSession \/ Close \/ StopTimers

Next ==
    \/ Take
    \/ \E s \in Sends : Chain(s)
    \/ \E a \in Actors : ReceiptStep(a)
    \/ Environment

\* Goroutines run and timers fire, and a request to Discord returns, with or
\* without effect.  Nothing is assumed of users, of the radio mesh, of CoreScope
\* or of the session, nor of the worker once the bridge is closed.
Fairness ==
    /\ WF_vars(~closed /\ Take)
    /\ \A s \in Sends : WF_vars(Chain(s))
    /\ \A a \in Actors : WF_vars(ReceiptStep(a))

Spec == Init /\ [][Next]_vars
FairSpec == Spec /\ Fairness

-----------------------------------------------------------------------------
(* Properties.                                                             *)

\* Every variable has its type; attempt is at most max_retries.
TypeOK ==
    /\ relayQ \in Seq(Msgs)
    /\ fate \in [Msgs -> {"new", "queued", "taken", "dropped"}]
    /\ worker \in Sends \cup {NoSend} /\ txMu \in Sends \cup {NoSend}
    /\ session \in BOOLEAN /\ closed \in BOOLEAN /\ halted \in BOOLEAN
    /\ allowed \in [Sends -> Nat]
    /\ pc \in [Sends -> PCs] /\ attempt \in [Sends -> 0..MaxRetries]
    /\ deliveries \subseteq Packets /\ rec \in [Packets -> Record]
    /\ receipt \in [Msgs -> Receipt]
    /\ todo \in [Actors -> Seq(MethodCall)] /\ http \in [Actors -> Seq(Request)]
    /\ made \subseteq Request /\ lost \subseteq made /\ shown \in [Msgs -> SUBSET Emojis]
    /\ aired \subseteq Packets /\ evidence \in [Packets -> Evidence]

\* No two chunks are the same packet: no two identical messages are sent in
\* the same second.
DistinctPackets == \A s, t \in Sends : PacketOf[s] = PacketOf[t] => s = t

HasSettled(s) == pc[s] = "done" \/ (pc[s] = "settling" /\ todo[s] = <<>>)
Unsettled(m) == {s \in ChunksOf(m) : ~HasSettled(s)}

\* The receipt's counter of chunks not yet settled is exactly the number of
\* chunks whose send has not settled: no chunk settles it twice, none ends
\* without settling it, whatever order sends, timers, failures, reconnects,
\* reports and sweeps come in (transmitMeshcoreFor: "every chunk settles rc
\* exactly once").
ReceiptAccounting ==
    \A m \in WithReceipt : fate[m] = "taken" =>
        receipt[m].pending = Cardinality(Unsettled(m))

\* The inductive invariant behind ReceiptAccounting, for distinct packets.
\* What a chunk's record, its goroutine's pending calls and its place in the
\* pipeline have to do with each other:
OwnReceipts(s) == IF s[1] \in WithReceipt THEN <<s[1]>> ELSE <<>>
Unsent(s) == pc[s] = "idle" \/ (pc[s] \in {"ready", "air"} /\ attempt[s] = 0)
Live(s) ==
    \/ pc[s] \in {"sending", "sent", "armed", "fired", "check", "report"}
    \/ pc[s] \in {"ready", "air"} /\ attempt[s] > 0

ChunkInv(s) ==
    /\ pc[s] = "idle" => attempt[s] = 0
    /\ fate[s[1]] # "taken" => pc[s] = "idle"
    /\ Unsent(s) => PacketOf[s] \notin deliveries
    /\ Live(s) => /\ PacketOf[s] \in deliveries
                  /\ ~rec[PacketOf[s]].reported
                  /\ rec[PacketOf[s]].receipts = OwnReceipts(s)
    /\ todo[s] # <<>> =>
          \/ pc[s] = "sent" /\ todo[s] = Call("markAccepted", s[1])
          \/ /\ pc[s] = "settling"
             /\ \E op \in {"settleTrue", "settleFalse"} : todo[s] = Call(op, s[1])

\* Messages wait in the queue once, and only a taken message is being sent.
QueueInv ==
    /\ \A i \in 1..Len(relayQ) : fate[relayQ[i]] = "queued"
    /\ \A i, j \in 1..Len(relayQ) : relayQ[i] = relayQ[j] => i = j
    /\ worker \in Sends => fate[worker[1]] = "taken"

\* Outside the chunks' goroutines, a dropped message is settled by its
\* handler and the CoreScope client only upgrades.
CallsInv ==
    /\ \A m \in Msgs : todo[m] # <<>> => fate[m] = "dropped" /\ todo[m] = Call("settleFalse", m)
    /\ \A i \in 1..Len(todo[CoreScope]) : todo[CoreScope][i].op = "lateConfirm"

\* Every chunk in flight has a record that still holds its receipt, no chunk
\* not yet sent has one, and only a chunk that is ending has a settle to make.
AccountingInv ==
    QueueInv /\ CallsInv /\ (\A s \in Sends : ChunkInv(s)) /\ ReceiptAccounting

\* Nothing is going on for message m any more.
Quiet(m) ==
    /\ fate[m] = "dropped" \/ (fate[m] = "taken" /\ \A s \in ChunksOf(m) : pc[s] = "done")
    /\ \A a \in Actors :
          /\ \A i \in DOMAIN todo[a] : todo[a][i].msg # m
          /\ \A i \in DOMAIN http[a] : http[a][i].msg # m

\* When all is over the reactions tell the verdict, as far as Discord let them:
\* whatever is missing or left standing, a request that failed accounts for it,
\* or a swap of verdicts whose removal was made (it may overtake the reaction it
\* removes).  "delivered" never stands without the verdict (discordReceipt.settle,
\* lateConfirm and do).
FinalReaction ==
    \A m \in WithReceipt : Quiet(m) =>
        LET v == IF receipt[m].failed = 0 THEN "delivered" ELSE "unconfirmed"
        IN /\ v \in shown[m] \/ React(m, v) \in lost
           /\ "accepted" \in shown[m] => Unreact(m, "accepted") \in lost
           /\ "delivered" \in shown[m] => v = "delivered"
           /\ "unconfirmed" \in shown[m] =>
                 v = "unconfirmed" \/ Unreact(m, "unconfirmed") \in made

\* The delivery rule, as the configuration documents it: enough repeaters
\* that are not ignored, one of them a success repeater if any is named, or
\* a report from a success observer.
RuleMet(e) ==
    \/ \E o \in SuccessObservers : o \in e.observers
    \/ \E R \in SUBSET (e.repeaters \ Ignored) :
          /\ Cardinality(R) = MinRepeaters
          /\ SuccessRepeaters = {} \/ \E h \in SuccessRepeaters : h \in e.repeaters \ Ignored

\* transmitMeshcoreFor: "Every chunk settles rc exactly once".  Hence nothing
\* is left to settle once all is over; refuted when two messages share a
\* packet.
NoReceiptLost ==
    \A m \in WithReceipt : Quiet(m) => receipt[m].pending = 0

\* receipt.go: an unconfirmed message is upgraded "if late CoreScope evidence
\* later confirms every chunk that was unconfirmed"; refuted where the
\* evidence comes between reportDelivery's unlock and the settle it makes.
LateEvidenceUpgrades ==
    \A m \in WithReceipt :
        /\ Quiet(m) /\ lost = {}
        /\ \A s \in ChunksOf(m) : DeliveryConfirmed(PacketOf[s])
        => "unconfirmed" \notin shown[m]

\* lateConfirm: "the unconfirmed reaction is swapped for delivered"; refuted
\* where settle's own request is overtaken by the swap's.
NeverBothVerdicts ==
    \A m \in WithReceipt :
        Quiet(m) /\ lost = {} => ~({"delivered", "unconfirmed"} \subseteq shown[m])

\* afterFunc and Close: a closed bridge retransmits a chunk once more at most,
\* and that only if the timer's callback was past its gate when Close began;
\* sends and receipts that were under way then arm nothing new, and no timer is
\* left once Close has stopped them.
CloseStopsRetransmission ==
    \A s \in Sends :
        /\ closed => attempt[s] <= allowed[s]
        /\ halted => pc[s] # "armed"

\* Every Discord message comes to bear a verdict, or Discord refused the request
\* that would have shown it, unless the bridge is closed first: a full queue, a
\* lost session, failing sends and missing copies all end in one.
EventuallyReported ==
    \A m \in WithReceipt : fate[m] # "new" ~>
        \/ closed
        \/ \E v \in {"delivered", "unconfirmed"} : v \in shown[m] \/ React(m, v) \in lost

-----------------------------------------------------------------------------
(* Refinement of DeliveryReport.                                           *)

Verdict(m) ==
    IF m \notin WithReceipt \/ fate[m] \notin {"taken", "dropped"} \/ receipt[m].pending > 0
    THEN "none"
    ELSE IF receipt[m].failed = 0 THEN "delivered" ELSE "unconfirmed"

ProvenChunks == {s \in Sends : RuleMet(evidence[PacketOf[s]])}

Promise == INSTANCE DeliveryReport WITH
    proven <- ProvenChunks,
    verdict <- [m \in Msgs |-> Verdict(m)]

\* The receipts implement the verdicts that delivery reactions promise.
KeepsPromise == Promise!Spec
=============================================================================
