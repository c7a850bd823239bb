------------------------------- MODULE Inbound -------------------------------
(***************************************************************************)
(* What the bridge does with the packets a MeshCore channel brings it.     *)
(*                                                                         *)
(* A packet can be heard many times: through several repeaters in the raw  *)
(* RF log, and once more through the device's own message queue (sync).    *)
(* The RunMeshcore goroutine takes one delivery at a time through          *)
(* deliverMeshcoreChannelText, whose checks lock Bridge.mu one after the   *)
(* other; the send worker, its timers, the hold timers and the sweep run   *)
(* between them.  rx is where that goroutine stands.                       *)
(*                                                                         *)
(* One MeshCore channel is modelled: the keys of different channels differ *)
(* in their channel hash.  A packet stands for its dedup key (channel,     *)
(* timestamp, text), TextOf for its echo and content keys.                 *)
(***************************************************************************)
EXTENDS Naturals, FiniteSets

CONSTANTS
    Packets,      \* packets that circulate on the channel
    Own,          \* those the bridge sends itself
    TextOf,       \* TextOf[p]: its text
    ScopeOf,      \* ScopeOf[p]: the scope it was flooded in
    Mappings,     \* bridges configured on the channel
    RxScopes,     \* RxScopes[m]: rx_scopes of m; {} accepts everything
    Discord,      \* mappings with a webhook
    MtName,       \* MtName[m]: Meshtastic channel m relays to, or NoName
    NoName,       \* no Meshtastic side, or a read-only one
    Tables,       \* channel tables of attached devices: name -> index or NoIdx
    NoIdx,        \* the device has no channel of that name
    NoSession,    \* no Meshtastic session
    Reconnects,   \* is a lost Meshtastic session replaced?
    QueueCap,     \* relayQueueCap
    IgnoreList,   \* is meshcore.ignore_repeat_from set?
    ContentDedup, \* is dedup_window_s positive?
    NoPacket

Texts == {TextOf[p] : p \in Packets}
Names == {MtName[m] : m \in Mappings} \ {NoName}
Indexes == (UNION {{t[n] : n \in Names} : t \in Tables}) \ {NoIdx}
Hops == {"ignored", "other", "none"} \* the last repeater; "none" is no path

ASSUME InboundAssumption ==
    /\ Own \subseteq Packets /\ NoPacket \notin Packets
    /\ IsFiniteSet(Mappings) /\ Discord \subseteq Mappings /\ QueueCap \in Nat
    /\ NoSession \notin Tables
    /\ IgnoreList \in BOOLEAN /\ ContentDedup \in BOOLEAN /\ Reconnects \in BOOLEAN

VARIABLES
    recentInbound,  \* dedup keys
    recentOutbound, \* recentOutbound[t]: pendingEcho.count of t, 0 if absent
    recentContent,  \* content keys
    scopeHolds,     \* deliveries parked for their raw-log copy, at most one per packet
    holdTimers,     \* packets whose hold timer is armed
    rx,             \* the delivery RunMeshcore is working on
    own,            \* own[p]: where the send of our packet p stands
    gone,           \* packets that no longer circulate
    mtSession,      \* channel table of the attached Meshtastic device, or NoSession
    relayQ,         \* relays <<m, p>> waiting for the send worker
    posted,         \* posted[m][p]: times p was posted to m's webhook
    airedMt,        \* airedMt[i][p]: times p was sent on Meshtastic channel i
    rawSeen,        \* packets of which a raw-log copy has been handled
    relayed,        \* packets relayed on behalf of at least one mapping
    merged,         \* packets merged into an earlier one of the same text
    expired         \* packets whose hold ran out

keyVars == <<recentInbound, recentOutbound, recentContent>>
holdVars == <<scopeHolds, holdTimers, expired>>
relayVars == <<relayQ, posted, relayed>>
vars == <<recentInbound, recentOutbound, recentContent, scopeHolds, holdTimers, rx, own,
          gone, mtSession, relayQ, posted, airedMt, rawSeen, relayed, merged, expired>>

Idle == [pc |-> "idle", pkt |-> NoPacket, raw |-> FALSE, hop |-> "none"]
Delivery == [pc : {"echo", "echoed", "dup", "release", "content", "fanout"},
             pkt : Packets, raw : BOOLEAN, hop : Hops]
Hold == [pkt : Packets, mappings : SUBSET Mappings, relayedIdx : SUBSET Indexes]

Init ==
    /\ recentInbound = {} /\ recentContent = {}
    /\ recentOutbound = [t \in Texts |-> 0]
    /\ scopeHolds = {} /\ holdTimers = {} /\ expired = {}
    /\ rx = Idle
    /\ own = [p \in Own |-> "new"]
    /\ gone = {}
    /\ mtSession \in Tables \cup {NoSession}
    /\ relayQ = {}
    /\ posted = [m \in Mappings |-> [p \in Packets |-> 0]]
    /\ airedMt = [i \in Indexes |-> [p \in Packets |-> 0]]
    /\ rawSeen = {} /\ relayed = {} /\ merged = {}

-----------------------------------------------------------------------------
(* Our own sends, as the inbound path sees them.                           *)

InAir(p) == p \in Own => own[p] \notin {"new", "marked"}

\* A mutant of MarkOwnPacket: the dedup key is not recorded.
ForgetOwnPacket(p) ==
    /\ own[p] \in {"new", "released"} /\ p \notin gone
    /\ own' = [own EXCEPT ![p] = "marked"]
    /\ UNCHANGED <<keyVars, holdVars, rx, gone, mtSession, relayVars, airedMt, rawSeen, merged>>

\* A first attempt, or a retry, records the packet's dedup key.
MarkOwnPacket(p) ==
    /\ own[p] \in {"new", "released"} /\ p \notin gone
    /\ own' = [own EXCEPT ![p] = "marked"]
    /\ recentInbound' = recentInbound \cup {p}
    /\ UNCHANGED <<recentOutbound, recentContent, holdVars, rx, gone, mtSession,
                   relayVars, airedMt, rawSeen, merged>>

\* Announces the send; from here on its echo may be heard.
MarkOutboundSent(p) ==
    /\ own[p] = "marked"
    /\ own' = [own EXCEPT ![p] = "sending"]
    /\ recentOutbound' = [recentOutbound EXCEPT ![TextOf[p]] = @ + 1]
    /\ UNCHANGED <<recentInbound, recentContent, holdVars, rx, gone, mtSession,
                   relayVars, airedMt, rawSeen, merged>>

\* unmarkOutboundSent and echoUnheard give up one pending send.
GiveUpOne(t) ==
    recentOutbound' = [recentOutbound EXCEPT ![t] = IF @ = 0 THEN 0 ELSE @ - 1]

\* The radio accepted the packet, or the send failed and is unmarked.
SendReturns(p) ==
    /\ own[p] = "sending"
    /\ \/ own' = [own EXCEPT ![p] = "sent"] /\ UNCHANGED recentOutbound
       \/ own' = [own EXCEPT ![p] = "over"] /\ GiveUpOne(TextOf[p])
    /\ UNCHANGED <<recentInbound, recentContent, holdVars, rx, gone, mtSession,
                   relayVars, airedMt, rawSeen, merged>>

\* The retry check releases the attempt's pending send, and retransmits or
\* ends; the check of the last attempt leaves it to the echo or the sweep.
RetryCheck(p) ==
    /\ own[p] = "sent"
    /\ \/ own' = [own EXCEPT ![p] = "released"] /\ GiveUpOne(TextOf[p])
       \/ own' = [own EXCEPT ![p] = "over"] /\ UNCHANGED recentOutbound
    /\ UNCHANGED <<recentInbound, recentContent, holdVars, rx, gone, mtSession,
                   relayVars, airedMt, rawSeen, merged>>

-----------------------------------------------------------------------------
(* One delivery, from either path.                                         *)

\* handleMeshcorePacket (raw log) or handleMeshcoreChannelMessage (sync).
Receive(p, raw, hop) ==
    /\ rx = Idle
    /\ p \notin gone /\ InAir(p)
    /\ raw \/ hop = "none"
    /\ rx' = [pc |-> "echo", pkt |-> p, raw |-> raw, hop |-> hop]
    /\ UNCHANGED <<keyVars, holdVars, own, gone, mtSession, relayVars, airedMt, rawSeen, merged>>

\* A pending send of the same text takes the delivery for its echo; it is
\* used up, unless an ignored or unknown repeater brought the copy.
ConsumeSelfEcho ==
    LET t == TextOf[rx.pkt] IN
    /\ rx.pc = "echo"
    /\ rx' = [rx EXCEPT !.pc = IF recentOutbound[t] > 0 THEN "echoed" ELSE "dup"]
    /\ IF recentOutbound[t] > 0 /\ ~(IgnoreList /\ rx.hop \in {"none", "ignored"})
       THEN GiveUpOne(t)
       ELSE UNCHANGED recentOutbound
    /\ UNCHANGED <<recentInbound, recentContent, holdVars, own, gone, mtSession,
                   relayVars, airedMt, rawSeen, merged>>

\* A suppressed echo is marked as seen.
SuppressEcho ==
    /\ rx.pc = "echoed"
    /\ recentInbound' = recentInbound \cup {rx.pkt}
    /\ rx' = Idle
    /\ rawSeen' = IF rx.raw THEN rawSeen \cup {rx.pkt} ELSE rawSeen
    /\ UNCHANGED <<recentOutbound, recentContent, holdVars, own, gone, mtSession,
                   relayVars, airedMt, merged>>

\* A mutant of IsDuplicateInbound: a first delivery is not recorded.
IsKnownInbound ==
    /\ rx.pc = "dup"
    /\ rx' = CASE rx.pkt \notin recentInbound -> [rx EXCEPT !.pc = "content"]
               [] rx.pkt \in recentInbound /\ rx.raw -> [rx EXCEPT !.pc = "release"]
               [] OTHER -> Idle
    /\ rawSeen' = IF rx.raw THEN rawSeen \cup {rx.pkt} ELSE rawSeen
    /\ UNCHANGED <<keyVars, holdVars, own, gone, mtSession, relayVars, airedMt, merged>>

\* A mutant of IsDuplicateInbound: the raw-log copy releases no hold.
IsDuplicateOnly ==
    /\ rx.pc = "dup"
    /\ rx' = IF rx.pkt \in recentInbound THEN Idle ELSE [rx EXCEPT !.pc = "content"]
    /\ recentInbound' = recentInbound \cup {rx.pkt}
    /\ rawSeen' = IF rx.raw THEN rawSeen \cup {rx.pkt} ELSE rawSeen
    /\ UNCHANGED <<recentOutbound, recentContent, holdVars, own, gone, mtSession, relayVars,
                   airedMt, merged>>

\* A packet delivered before is dropped, but its raw-log copy still releases
\* a held delivery.
IsDuplicateInbound ==
    /\ rx.pc = "dup"
    /\ rx' = CASE rx.pkt \notin recentInbound -> [rx EXCEPT !.pc = "content"]
               [] rx.pkt \in recentInbound /\ rx.raw -> [rx EXCEPT !.pc = "release"]
               [] OTHER -> Idle
    /\ recentInbound' = recentInbound \cup {rx.pkt}
    /\ rawSeen' = IF rx.raw THEN rawSeen \cup {rx.pkt} ELSE rawSeen
    /\ UNCHANGED <<recentOutbound, recentContent, holdVars, own, gone, mtSession,
                   relayVars, airedMt, merged>>

\* A text delivered less than dedup_window_s ago is merged.
IsRepeatedContent ==
    LET t == TextOf[rx.pkt] IN
    /\ rx.pc = "content"
    /\ IF ContentDedup /\ t \in recentContent
       THEN /\ rx' = Idle
            /\ merged' = merged \cup {rx.pkt}
            /\ UNCHANGED recentContent
       ELSE /\ rx' = [rx EXCEPT !.pc = "fanout"]
            /\ recentContent' = IF ContentDedup THEN recentContent \cup {t} ELSE recentContent
            /\ UNCHANGED merged
    /\ UNCHANGED <<recentInbound, recentOutbound, holdVars, own, gone, mtSession,
                   relayVars, airedMt, rawSeen>>

-----------------------------------------------------------------------------
(* Relaying to the mappings on the channel.                                *)

IndexOf(m) == IF mtSession = NoSession THEN NoIdx ELSE mtSession[MtName[m]]
ToMeshtastic(S) == {m \in S : MtName[m] # NoName}
Claims(S) == {IndexOf(m) : m \in ToMeshtastic(S)} \ {NoIdx}

\* Which of the mappings S enqueue a Meshtastic relay when the indexes in
\* claimed are taken: one for each other index (the configuration lists it
\* first, in an order left open here), and every mapping whose index cannot be
\* told.
Relays(S, claimed) ==
    {R \in SUBSET ToMeshtastic(S) :
        /\ \A m \in ToMeshtastic(S) : IndexOf(m) = NoIdx => m \in R
        /\ \A i \in Claims(S) :
              Cardinality({m \in R : IndexOf(m) = i}) = IF i \in claimed THEN 0 ELSE 1}

\* relayMeshcoreText for every mapping of S: post to its webhook, enqueue its
\* Meshtastic relay (dropped if the queue is full).
RelayTo(S, p, claimed) ==
    /\ \E R \in Relays(S, claimed) : \E Q \in SUBSET R :
          /\ Cardinality(relayQ) + Cardinality(Q) <= QueueCap
          /\ Q = R \/ Cardinality(relayQ) + Cardinality(Q) = QueueCap
          /\ relayQ' = relayQ \cup {<<m, p>> : m \in Q}
    /\ posted' = [m \in Mappings |-> IF m \in S \cap Discord
                                     THEN [posted[m] EXCEPT ![p] = @ + 1] ELSE posted[m]]
    /\ relayed' = IF S = {} THEN relayed ELSE relayed \cup {p}

ScopeAllowed(m, p) == ScopeOf[p] \in RxScopes[m]
Unscoped == {m \in Mappings : RxScopes[m] = {}}

\* A mutant of OpenTo: without a scope to check, rx_scopes is not applied.
OpenToUnchecked(p, raw) == Unscoped \cup {m \in Mappings : raw => ScopeAllowed(m, p)}

\* A mutant of OpenTo: an empty rx_scopes accepts nothing.
OpenToListed(p, raw) == {m \in Mappings : raw /\ ScopeAllowed(m, p)}

\* Mappings a delivery of p is relayed to at once.
OpenTo(p, raw) == Unscoped \cup {m \in Mappings : raw /\ ScopeAllowed(m, p)}

\* A new message goes to every mapping whose scopes it satisfies; a sync
\* delivery, which carries no scope, is held for the mappings with rx_scopes.
FanOut ==
    LET p == rx.pkt
        open == OpenTo(p, rx.raw)
        held == IF rx.raw THEN {} ELSE Mappings \ Unscoped
    IN /\ rx.pc = "fanout"
       /\ rx' = Idle
       /\ RelayTo(open, p, {})
       /\ IF held = {} THEN UNCHANGED holdVars
          ELSE /\ scopeHolds' = {h \in scopeHolds : h.pkt # p} \cup
                      {[pkt |-> p, mappings |-> held, relayedIdx |-> Claims(open)]}
               /\ holdTimers' = holdTimers \cup {p}
               /\ UNCHANGED expired
       /\ UNCHANGED <<keyVars, own, gone, mtSession, airedMt, rawSeen, merged>>

\* The raw-log copy takes the hold and relays it where its scope is allowed.
ReleaseScopeHold ==
    LET p == rx.pkt
        H == {h \in scopeHolds : h.pkt = p}
    IN /\ rx.pc = "release"
       /\ rx' = Idle
       /\ IF H = {} THEN UNCHANGED <<scopeHolds, relayVars>>
          ELSE /\ scopeHolds' = scopeHolds \ H
               /\ \E h \in H :
                     RelayTo({m \in h.mappings : ScopeAllowed(m, p)}, p, h.relayedIdx)
       /\ UNCHANGED <<keyVars, holdTimers, expired, own, gone, mtSession, airedMt,
                      rawSeen, merged>>

\* scopeHoldWait is over: a delivery still held is dropped.
HoldExpires(p) ==
    /\ p \in holdTimers
    /\ holdTimers' = holdTimers \ {p}
    /\ scopeHolds' = {h \in scopeHolds : h.pkt # p}
    /\ expired' = IF \E h \in scopeHolds : h.pkt = p THEN expired \cup {p} ELSE expired
    /\ UNCHANGED <<keyVars, rx, own, gone, mtSession, relayVars, airedMt, rawSeen, merged>>

-----------------------------------------------------------------------------
(* The worker's Meshtastic sends, the sweep and the Meshtastic session.    *)

\* sendMeshtastic resolves the channel again, on the session of the moment.
SendMeshtastic(m, p) ==
    /\ <<m, p>> \in relayQ
    /\ relayQ' = relayQ \ {<<m, p>>}
    /\ airedMt' = IF IndexOf(m) = NoIdx THEN airedMt
                  ELSE [airedMt EXCEPT ![IndexOf(m)][p] = @ + 1]
    /\ UNCHANGED <<keyVars, holdVars, rx, own, gone, mtSession, posted, relayed,
                   rawSeen, merged>>

\* sweep forgets what is old: packets the mesh no longer floods, pending
\* sends, texts.
Sweep(P, T, C) ==
    /\ \A p \in P : p # rx.pkt /\ p \notin holdTimers /\ (p \in Own => own[p] = "over")
    /\ recentInbound' = recentInbound \ P
    /\ gone' = gone \cup P
    /\ recentOutbound' = [t \in Texts |-> IF t \in T THEN 0 ELSE recentOutbound[t]]
    /\ recentContent' = recentContent \ C
    /\ UNCHANGED <<holdVars, rx, own, mtSession, relayVars, airedMt, rawSeen, merged>>

SetMeshtasticSession(table) ==
    /\ Reconnects \/ table = NoSession
    /\ mtSession' = table
    /\ UNCHANGED <<keyVars, holdVars, rx, own, gone, relayVars, airedMt, rawSeen, merged>>

-----------------------------------------------------------------------------

\* The RunMeshcore goroutine.
Rx ==
    \/ \E p \in Packets, raw \in BOOLEAN, hop \in Hops : Receive(p, raw, hop)
    \/ ConsumeSelfEcho \/ SuppressEcho \/ IsDuplicateInbound \/ IsRepeatedContent
    \/ FanOut \/ ReleaseScopeHold

\* The send worker and the retry timers.
Tx ==
    \/ \E p \in Own : MarkOwnPacket(p) \/ MarkOutboundSent(p) \/ SendReturns(p) \/ RetryCheck(p)
    \/ \E m \in Mappings, p \in Packets : SendMeshtastic(m, p)

Next ==
    \/ Rx \/ Tx
    \/ \E p \in Packets : HoldExpires(p)
    \/ \E P \in SUBSET recentInbound, T \in SUBSET Texts, C \in SUBSET recentContent :
          Sweep(P, T, C)
    \/ \E table \in Tables \cup {NoSession} : SetMeshtasticSession(table)

Spec == Init /\ [][Next]_vars

-----------------------------------------------------------------------------
(* Properties.                                                             *)

TypeOK ==
    /\ recentInbound \subseteq Packets /\ recentContent \subseteq Texts
    /\ recentOutbound \in [Texts -> Nat]
    /\ scopeHolds \subseteq Hold /\ holdTimers \subseteq Packets /\ expired \subseteq Packets
    /\ rx \in Delivery \cup {Idle}
    /\ own \in [Own -> {"new", "marked", "sending", "sent", "released", "over"}]
    /\ gone \subseteq Packets
    /\ mtSession \in Tables \cup {NoSession}
    /\ relayQ \subseteq Mappings \X Packets
    /\ posted \in [Mappings -> [Packets -> Nat]]
    /\ airedMt \in [Indexes -> [Packets -> Nat]]
    /\ rawSeen \subseteq Packets /\ relayed \subseteq Packets /\ merged \subseteq Packets

\* A packet of ours that the mesh floods back is never taken for a new
\* message, on either path, however late, and whatever became of its pending
\* echo meanwhile (markOwnPacket).
OwnNeverRelayed == relayed \cap Own = {}

\* However many copies of a packet come in, by whichever path first, with
\* holds released or not, no webhook gets it twice.
PostedOnce == \A m \in Mappings, p \in Packets : posted[m][p] <= 1

\* A mapping with rx_scopes gets nothing but packets whose raw-log copy
\* proved one of its scopes.
ScopesRespected ==
    \A m \in Mappings \ Unscoped, p \in Packets :
        posted[m][p] > 0 \/ <<m, p>> \in relayQ => p \in rawSeen /\ ScopeAllowed(m, p)

\* A message of someone else is lost to no mapping that may have it: one
\* without rx_scopes gets it on the first delivery, one whose scope it is in
\* once its raw-log copy was handled.  Excepted are repeats that dedup_window_s
\* merges, holds that ran out, and texts the bridge itself has sent.
NothingLost ==
    \A p \in Packets \ Own, m \in Discord :
        /\ rx.pkt # p /\ p \in recentInbound \ merged
        /\ TextOf[p] \notin {TextOf[o] : o \in Own}
        /\ m \in Unscoped \/ (ScopeAllowed(m, p) /\ p \in rawSeen /\ p \notin expired)
        => posted[m][p] = 1

\* deliverMeshcoreChannelText: "each distinct physical Meshtastic channel is
\* only sent to once".  It holds while a session that is lost is not replaced;
\* refuted when one is attached between the relay's decision and its sending
\* (MCInbound_reattach.cfg).
SentOncePerChannel == \A i \in Indexes, p \in Packets : airedMt[i][p] <= 1

\* Both hold: whatever comes in twice, and on whichever path, goes out once.
HandledOnce == PostedOnce /\ SentOncePerChannel

\* isRepeatedContent: a message is merged only if one of the same text "was
\* first relayed".  It holds where a mapping accepts every scope; refuted
\* when the first one was in a scope that every mapping rejects
\* (MCInbound_rescope.cfg).
MergedWasRelayed ==
    \A p \in merged : \E q \in relayed : TextOf[q] = TextOf[p]
=============================================================================
